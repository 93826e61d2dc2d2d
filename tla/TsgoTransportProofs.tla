------------------------ MODULE TsgoTransportProofs -------------------------
(***************************************************************************)
(* What holds of TsgoTransport for every number of requests, every length  *)
(* of message, every size of a read and of the pipes, every set of         *)
(* callback methods and every mix of answers.                              *)
(***************************************************************************)
EXTENDS TsgoTransport, SequenceTheorems, TLAPS

\* A message is cut into units of the message.
LEMMA UnitsType ==
  ASSUME NEW m \in Message
  PROVE  /\ Units(m) \in Seq(Unit)
         /\ Len(Units(m)) = m.len
         /\ \A i \in DOMAIN Units(m) : Units(m)[i].msg = m
  <1>1. m.len \in 1 .. MaxLen /\ m.len \in Nat
    BY TransportAssumption DEF Message
  <1>2. \A i \in 1 .. m.len : [msg |-> m, at |-> i] \in Unit
    BY <1>1, TransportAssumption DEF Unit
  <1>3. Units(m) \in [1 .. m.len -> Unit]
    BY <1>2 DEF Units
  <1>4. Units(m) \in Seq(Unit) /\ Len(Units(m)) = m.len
    BY <1>1, <1>3
  <1> QED
    BY <1>4, <1>1 DEF Units

\* A call that returns leaves the owner idle and typed, with one more result.
LEMMA ReturnType ==
  ASSUME TypeOK, NEW kind \in Kinds, NEW of \in 0 .. MaxRequests,
         Len(results) < MaxRequests, Return(kind, of)
  PROVE  /\ phase' = "idle" /\ buf' = <<>> /\ calling' = NoMethod
         /\ results' \in Seq([kind : Kinds, of : 0 .. MaxRequests])
         /\ Len(results') = Len(results) + 1
  <1>1. [kind |-> kind, of |-> of] \in [kind : Kinds, of : 0 .. MaxRequests]
    OBVIOUS
  <1> QED
    BY <1>1, AppendProperties DEF Return, TypeOK

\* The initial state is typed.
LEMMA TypeInit == Init => TypeOK
  BY TransportAssumption DEF Init, TypeOK

\* The part of TypeOK that speaks of the child and of the pipes.
PipesOK ==
  /\ stdin \in Seq(Sent) /\ stream \in Seq(Unit)
  /\ sstate \in {"idle", "working", "awaiting", "blocked", "exited"}
  /\ sreq \in 0 .. MaxRequests /\ sout \in Seq(Unit)
  /\ sstate \in {"working", "awaiting"} => sreq # 0
  /\ stderr \in 0 .. StderrCap

\* A step of the child leaves every variable in its type.
LEMMA ServerType ==
  ASSUME TypeOK, Server
  PROVE  TypeOK'
  <1>1. UNCHANGED client
    BY DEF Server, Accept, Answer, CallBack, TakeReply, Interrupted, Refuse,
           WriteUnit, Log, Die, SeeEof, Exit
  <1>2. SUFFICES PipesOK'
    BY <1>1 DEF TypeOK, PipesOK, client
  <1> USE DEF TypeOK, PipesOK
  <1>3. ASSUME stdin # <<>>
        PROVE  Head(stdin) \in Sent /\ Tail(stdin) \in Seq(Sent)
    BY <1>3, HeadTailProperties
  <1>4. CASE Accept
    <2>1. Head(stdin).of \in 1 .. MaxRequests
      BY <1>3, <1>4 DEF Accept, Reads, Sent
    <2> QED
      BY <1>3, <1>4, <2>1, TransportAssumption DEF Accept, Reads
  <1>5. CASE Answer
    <2>1. PICK a \in Answers, l \in 1 .. MaxLen :
            sout' = Units([type |-> a.type, form |-> a.form, of |-> sreq,
                           method |-> NoMethod, len |-> l])
      BY <1>5 DEF Answer, Writes
    <2>2. [type |-> a.type, form |-> a.form, of |-> sreq,
           method |-> NoMethod, len |-> l] \in Message
      BY <1>5, TransportAssumption DEF Answer, Message
    <2> QED
      BY <1>5, <2>1, <2>2, UnitsType DEF Answer
  <1>6. CASE CallBack
    <2>1. PICK m \in Methods, l \in 1 .. MaxLen :
            sout' = Units([type |-> "Call", form |-> "json", of |-> sreq,
                           method |-> m, len |-> l])
      BY <1>6 DEF CallBack, Writes
    <2>2. [type |-> "Call", form |-> "json", of |-> sreq,
           method |-> m, len |-> l] \in Message
      BY <1>6, TransportAssumption DEF CallBack, Message, Types, Forms
    <2> QED
      BY <1>6, <2>1, <2>2, UnitsType DEF CallBack
  <1>7. CASE TakeReply
    BY <1>3, <1>7 DEF TakeReply, Reads
  <1>8. CASE Interrupted
    <2>1. [type |-> "Error", form |-> "json", of |-> sreq,
           method |-> NoMethod, len |-> 1] \in Message
      BY <1>8, TransportAssumption DEF Interrupted, Message, Types, Forms
    <2> QED
      BY <1>3, <1>8, <2>1, UnitsType DEF Interrupted, Reads, Writes
  <1>9. CASE Refuse
    BY <1>3, <1>9 DEF Refuse, Reads
  <1>10. CASE WriteUnit
    <2>1. /\ Head(sout) \in Unit /\ Tail(sout) \in Seq(Unit)
          /\ Append(stream, Head(sout)) \in Seq(Unit)
      BY <1>10, HeadTailProperties, AppendProperties DEF WriteUnit
    <2> QED
      BY <1>10, <2>1 DEF WriteUnit
  <1>11. CASE Log
    BY <1>11, TransportAssumption DEF Log
  <1>12. CASE Die \/ SeeEof
    BY <1>12, EmptySeq DEF Die, SeeEof, Exit
  <1> QED
    BY <1>4, <1>5, <1>6, <1>7, <1>8, <1>9, <1>10, <1>11, <1>12 DEF Server

\* What a read hands to the decoder and what it leaves on stdout.
LEMMA ReadType ==
  ASSUME TypeOK, NEW n \in 1 .. ReadCap, n <= Len(stream)
  PROVE  LET got == buf \o SubSeq(stream, 1, n) IN
         /\ got \in Seq(Unit) /\ Len(got) = Len(buf) + n
         /\ \A i \in 1 .. Len(got) :
              got[i] = IF i <= Len(buf) THEN buf[i] ELSE stream[i - Len(buf)]
         /\ got[1] \in Unit
         /\ SubSeq(stream, n + 1, Len(stream)) \in Seq(Unit)
         /\ Len(SubSeq(stream, n + 1, Len(stream))) = Len(stream) - n
         /\ \A i \in 1 .. Len(stream) - n :
              SubSeq(stream, n + 1, Len(stream))[i] = stream[n + i]
  <1> DEFINE new == SubSeq(stream, 1, n)
             rest == SubSeq(stream, n + 1, Len(stream))
             got == buf \o new
  <1>1. /\ stream \in Seq(Unit) /\ buf \in Seq(Unit)
        /\ Len(stream) \in Nat /\ Len(buf) \in Nat
        /\ n \in Int /\ n >= 1 /\ n <= Len(stream)
    BY TransportAssumption DEF TypeOK
  <1>2. \A i \in 1 .. Len(stream) : stream[i] \in Unit
    BY <1>1, LenProperties
  <1>3. new \in Seq(Unit) /\ Len(new) = n /\ \A i \in 1 .. n : new[i] = stream[i]
    <2>1. \A i \in 1 .. n : stream[i] \in Unit
      BY <1>1, <1>2
    <2> QED
      BY <1>1, <2>1, SubSeqProperties
  <1>4. /\ rest \in Seq(Unit) /\ Len(rest) = Len(stream) - n
        /\ \A i \in 1 .. Len(stream) - n : rest[i] = stream[n + i]
    <2>1. \A i \in n + 1 .. Len(stream) : stream[i] \in Unit
      BY <1>1, <1>2
    <2>2. /\ rest \in Seq(Unit)
          /\ Len(rest) = IF n + 1 <= Len(stream)
                         THEN Len(stream) - (n + 1) + 1 ELSE 0
          /\ \A i \in 1 .. Len(stream) - (n + 1) + 1 :
               rest[i] = stream[n + 1 + i - 1]
      BY <1>1, <2>1, SubSeqProperties, n + 1 \in Int
    <2> QED
      BY <1>1, <2>2
  <1>5. /\ got \in Seq(Unit) /\ Len(got) = Len(buf) + n
        /\ \A i \in 1 .. Len(buf) + n :
             got[i] = IF i <= Len(buf) THEN buf[i] ELSE new[i - Len(buf)]
    BY <1>1, <1>3, ConcatProperties
  <1>6. \A i \in 1 .. Len(got) :
          got[i] = IF i <= Len(buf) THEN buf[i] ELSE stream[i - Len(buf)]
    BY <1>1, <1>3, <1>5
  <1>7. got[1] \in Unit
    BY <1>1, <1>5, LenProperties
  <1> QED
    BY <1>4, <1>5, <1>6, <1>7

\* So does a step of the owner of the transport: a handler reads, answers a
\* callback, returns or closes.
LEMMA ClientType ==
  ASSUME TypeOK, Client
  PROVE  TypeOK'
  <1>1. UNCHANGED server
    BY DEF Client, RegisterCallback, Request, RejectPayload, Read, ReadEof,
           ReadFails, CallbackSucceeds, CallbackFails, UnknownCallback, Close, Reap, Drop
  <1>c. Len(results) \in Nat /\ MaxRequests \in Nat
    BY LenProperties, TransportAssumption DEF TypeOK
  <1>2. ASSUME NEW kind \in Kinds, NEW of \in 0 .. MaxRequests,
               Len(results) < MaxRequests, Return(kind, of),
               UNCHANGED callbacks, stdin' \in Seq(Sent),
               stream' \in Seq(Unit)
        PROVE  TypeOK'
    <2>1. /\ phase' = "idle" /\ buf' = <<>> /\ calling' = NoMethod
          /\ results' \in Seq([kind : Kinds, of : 0 .. MaxRequests])
          /\ Len(results') = Len(results) + 1
      BY <1>2, ReturnType
    <2>2. buf' \in Seq(Unit)
      BY <2>1, EmptySeq
    <2> QED
      BY <1>1, <1>2, <1>c, <2>1, <2>2 DEF TypeOK, server
  <1>a. ASSUME phase \in {"reading", "calling"}
        PROVE  Len(results) < MaxRequests
    BY <1>a, LenProperties, TransportAssumption DEF TypeOK
  <1>b. 0 \in 0 .. MaxRequests /\ stream \in Seq(Unit) /\ stdin \in Seq(Sent)
    BY TransportAssumption DEF TypeOK
  <1>3. CASE \E m \in Methods : RegisterCallback(m)
    BY <1>1, <1>3 DEF RegisterCallback, TypeOK, server
  <1>4. CASE Request
    <2>1. CASE sstate = "exited"
      BY <1>2, <1>b, <1>4, <2>1 DEF Request, Send, Kinds
    <2>2. CASE sstate # "exited"
      <3>1. [type |-> "Request", of |-> cur] \in Sent
        BY <1>4, <1>c DEF Request, Sent, cur
      <3>2. Append(stdin, [type |-> "Request", of |-> cur]) \in Seq(Sent)
        BY <3>1, AppendProperties DEF TypeOK
      <3>3. /\ phase = "idle" /\ phase' = "reading"
            /\ Len(results) < MaxRequests /\ stdin' \in Seq(Sent)
            /\ UNCHANGED <<buf, calling, results, callbacks, stream>>
        BY <1>4, <2>2, <3>2 DEF Request, Send
      <3> QED
        BY <1>1, <1>c, <3>3 DEF TypeOK, server
    <2> QED
      BY <2>1, <2>2
  <1>5. CASE RejectPayload
    BY <1>2, <1>b, <1>5 DEF RejectPayload, Kinds
  <1>6. CASE \E n \in 1 .. ReadCap : Read(n)
    <2>1. PICK n \in 1 .. ReadCap : Read(n)
      BY <1>6
    <2> DEFINE got == buf \o SubSeq(stream, 1, n)
    <2>2. /\ got \in Seq(Unit) /\ got[1] \in Unit /\ stream' \in Seq(Unit)
          /\ Len(results) < MaxRequests /\ n <= Len(stream)
      BY <1>a, <2>1, ReadType DEF Read
    <2>3. PICK v \in Decode(got) :
            CASE v = "ok"    -> Handle(got[1].msg)
              [] v = "json"  -> Return("json", got[1].msg.of)
              [] v = "retry" -> buf' = got /\ UNCHANGED <<phase, calling, results>>
              [] OTHER       -> Return(v, 0)
      BY <2>1 DEF Read
    <2>4. v \in {"ok", "json", "retry", "garbage", "partial"}
      BY <2>2 DEF Decode, Unit, Message, Forms
    <2>5. got[1].msg \in Message /\ got[1].msg.of \in 0 .. MaxRequests
      BY <2>2 DEF Unit, Message
    <2>6. UNCHANGED <<callbacks, stdin>> /\ stdin' \in Seq(Sent)
      BY <1>b, <2>1 DEF Read
    <2>7. CASE v = "ok"
      <3>1. CASE got[1].msg.type = "Call"
        <4>1. /\ phase' = "calling" /\ calling' = got[1].msg.method
              /\ buf' = <<>> /\ UNCHANGED results
          BY <2>3, <2>7, <3>1 DEF Handle
        <4>2. got[1].msg.method \in Methods /\ calling' # NoMethod
          BY <2>5, <3>1, <4>1, TransportAssumption DEF Message
        <4> QED
          BY <1>1, <2>1, <2>2, <2>6, <4>1, <4>2, EmptySeq
             DEF TypeOK, server, Read
      <3>2. CASE got[1].msg.type # "Call"
        BY <1>2, <2>2, <2>3, <2>5, <2>6, <2>7, <3>2
           DEF Handle, Kinds, Message, Types
      <3> QED
        BY <3>1, <3>2
    <2>8. CASE v = "retry"
      BY <1>1, <2>1, <2>2, <2>3, <2>6, <2>8 DEF TypeOK, server, Read
    <2>9. CASE v = "json"
      BY <1>2, <2>2, <2>3, <2>5, <2>6, <2>9 DEF Kinds
    <2>10. CASE v \in {"garbage", "partial"}
      BY <1>2, <1>b, <2>2, <2>3, <2>6, <2>10 DEF Kinds
    <2> QED
      BY <2>4, <2>7, <2>8, <2>9, <2>10
  <1>7. CASE ReadEof \/ ReadFails
    BY <1>2, <1>a, <1>b, <1>7 DEF ReadEof, ReadFails, Kinds
  <1>8. CASE CallbackSucceeds
    <2>1. CASE sstate = "exited"
      BY <1>2, <1>a, <1>b, <1>8, <2>1 DEF CallbackSucceeds, Send, Kinds
    <2>2. CASE sstate # "exited"
      <3>1. [type |-> "CallResponse", of |-> cur] \in Sent
        BY <1>a, <1>8, <1>c DEF CallbackSucceeds, Sent, cur
      <3>2. Append(stdin, [type |-> "CallResponse", of |-> cur]) \in Seq(Sent)
        BY <3>1, AppendProperties DEF TypeOK
      <3> QED
        BY <1>1, <1>8, <2>2, <3>2 DEF CallbackSucceeds, Send, TypeOK, server
    <2> QED
      BY <2>1, <2>2
  <1>9. CASE CallbackFails
    BY <1>2, <1>a, <1>b, <1>9 DEF CallbackFails, Kinds
  <1>10. CASE UnknownCallback
    <2>1. CASE sstate = "exited"
      BY <1>2, <1>a, <1>b, <1>10, <2>1 DEF UnknownCallback, Send, Kinds
    <2>2. CASE sstate # "exited"
      <3>1. [type |-> "CallError", of |-> cur] \in Sent
        BY <1>a, <1>10, <1>c DEF UnknownCallback, Sent, cur
      <3>2. Append(stdin, [type |-> "CallError", of |-> cur]) \in Seq(Sent)
        BY <3>1, AppendProperties DEF TypeOK
      <3> QED
        BY <1>2, <1>a, <1>b, <1>10, <2>2, <3>2
           DEF UnknownCallback, Send, Kinds
    <2> QED
      BY <2>1, <2>2
  <1>11. CASE Close \/ Reap \/ Drop
    BY <1>1, <1>11 DEF Close, Reap, Drop, TypeOK, server
  <1> QED
    BY <1>3, <1>4, <1>5, <1>6, <1>7, <1>8, <1>9, <1>10, <1>11 DEF Client

\* Every variable keeps its type, whatever the constants.
THEOREM TypeCorrect == Spec => []TypeOK
  <1>1. TypeOK /\ [Next]_vars => TypeOK'
    <2>1. TypeOK /\ UNCHANGED vars => TypeOK'
      BY DEF TypeOK, vars, client, server
    <2> QED
      BY <2>1, ServerType, ClientType DEF Next
  <1> QED
    BY TypeInit, <1>1, PTL DEF Spec

-----------------------------------------------------------------------------
(* The lockstep of the two ends, and that answers reach their own calls.   *)

\* A call's result joins the results; only its kind can taint them.
LEMMA ReturnEffect ==
  ASSUME TypeOK, NEW kind \in Kinds, NEW of \in 0 .. MaxRequests,
         Return(kind, of), OwnAnswer, Tainted \/ of \in {0, cur}
  PROVE  OwnAnswer' /\ (Tainted' <=> Tainted \/ kind \in Desync)
  <1> DEFINE new == [kind |-> kind, of |-> of]
             R == [kind : Kinds, of : 0 .. MaxRequests]
  <1>1. results \in Seq(R) /\ new \in R /\ Len(results) \in Nat
    BY LenProperties DEF TypeOK
  <1>2. /\ results' = Append(results, new) /\ results' \in Seq(R)
        /\ Len(results') = Len(results) + 1
        /\ \A i \in 1 .. Len(results) : results'[i] = results[i]
        /\ results'[Len(results) + 1] = new
    BY <1>1, AppendProperties DEF Return
  <1>3. /\ DOMAIN results = 1 .. Len(results)
        /\ DOMAIN results' = 1 .. Len(results) + 1
    BY <1>1, <1>2, LenProperties
  <1>4. Tainted' <=> Tainted \/ kind \in Desync
    BY <1>1, <1>2, <1>3 DEF Tainted
  <1>5. OwnAnswer'
    <2> SUFFICES ASSUME NEW i \in 1 .. Len(results) + 1,
                        results'[i].of # 0,
                        \A j \in 1 .. i - 1 : results'[j].kind \notin Desync
                 PROVE  results'[i].of = i
      BY <1>3 DEF OwnAnswer
    <2>1. CASE i = Len(results) + 1
      <3>1. ~Tainted
        BY <1>1, <1>2, <1>3, <2>1 DEF Tainted
      <3> QED
        BY <1>2, <2>1, <3>1 DEF cur
    <2>2. CASE i # Len(results) + 1
      <3>1. i \in DOMAIN results /\ results'[i] = results[i]
        BY <1>1, <1>2, <1>3, <2>2
      <3>2. \A j \in 1 .. i - 1 : results[j].kind \notin Desync
        BY <1>1, <1>2, <2>2
      <3> QED
        BY <3>1, <3>2 DEF OwnAnswer
    <2> QED
      BY <2>1, <2>2
  <1> QED
    BY <1>4, <1>5

\* A message of the call being served that is no Call, to name where nothing is
\* under way.
LEMMA SomeMessage ==
  ASSUME TypeOK, phase' \in {"reading"} \/ phase = "reading",
         Len(results) < MaxRequests
  PROVE  \E m \in Message : m.of = cur /\ m.type # "Call"
  <1> DEFINE m == [type |-> "Response", form |-> "json", of |-> cur,
                   method |-> NoMethod, len |-> 1]
  <1>1. Len(results) \in Nat /\ cur \in 1 .. MaxRequests
    BY LenProperties, TransportAssumption DEF TypeOK, cur
  <1>2. m \in Message
    BY <1>1, TransportAssumption DEF Message, Types, Forms
  <1> QED
    BY <1>2

\* Whatever the child does next, the two ends stay in lockstep: it writes only
\* the message under way, and starts one only where the owner waits for it.
LEMMA ServerLockstep ==
  ASSUME TypeOK, Lockstep, Server
  PROVE  Lockstep'
  <1>1. UNCHANGED <<phase, buf, results, cur>>
    BY DEF Server, Accept, Answer, CallBack, TakeReply, Interrupted, Refuse,
           WriteUnit, Log, Die, SeeEof, Exit, client, cur
  <1> USE <1>1 DEF Lockstep
  \* A child that still runs and has input was sent it by the open call.
  <1>2. ASSUME stdin # <<>>, ~Stopped
        PROVE  /\ phase = "reading" /\ Pending
               /\ \/ sstate = "idle" /\ Head(stdin).type = "Request"
                  \/ sstate = "awaiting" /\ Head(stdin).type = "CallResponse"
               /\ Tail(stdin) = <<>> /\ Head(stdin).of = cur
    <2>1. phase = "reading" /\ Pending
      BY <1>2 DEF AtRest, InCallback, Sender, Stopped, TypeOK
    <2>2. PICK t \in {"Request", "CallResponse"} :
            /\ stdin = <<[type |-> t, of |-> cur]>>
            /\ t = "Request" => sstate = "idle"
            /\ t = "CallResponse" => sstate = "awaiting"
      BY <1>2, <2>1 DEF Pending
    <2>3. /\ Head(stdin) = [type |-> t, of |-> cur]
          /\ Tail(stdin) = <<>>
      BY <2>2
    <2> QED
      BY <2>1, <2>2, <2>3
  \* A child that is working has written nothing yet.
  <1>3. ASSUME sstate = "working"
        PROVE  phase = "reading" /\ Pending
    BY <1>3 DEF AtRest, InCallback, Sender, Stopped
  <1>4. CASE Accept
    BY <1>2, <1>4 DEF Accept, Reads, Pending, Stopped, Quiet
  <1>5. ASSUME NEW m \in Message, sstate = "working", m.of = sreq,
               m.type = "Call" => m.form = "json", sout' = Units(m),
               sstate' = IF m.type = "Call" THEN "awaiting" ELSE "idle",
               UNCHANGED <<stdin, stream, sreq>>
        PROVE  Lockstep'
    <2>1. /\ phase' = "reading" /\ buf' = <<>> /\ stream' = <<>>
          /\ sreq' = cur /\ stdin' = <<>> /\ m.of = cur
      BY <1>3, <1>5 DEF Pending, Quiet
    <2>2. Len(sout') = m.len /\ m.len \in Nat
          /\ \A i \in 1 .. Len(sout') : sout'[i].msg = m
      <3>1. m.len \in Nat /\ DOMAIN Units(m) = 1 .. m.len
        BY TransportAssumption DEF Message, Units
      <3> QED
        BY <1>5, <3>1, UnitsType
    <2>3. Exchange(m)'
      BY <1>5, <2>1, <2>2 DEF Exchange
    <2>4. Sender(m)'
      BY <1>5, <2>1 DEF Sender
    <2> QED
      BY <2>1, <2>3, <2>4
  <1>6. CASE Answer
    <2>1. PICK a \in Answers, l \in 1 .. MaxLen :
            sout' = Units([type |-> a.type, form |-> a.form, of |-> sreq,
                           method |-> NoMethod, len |-> l])
      BY <1>6 DEF Answer, Writes
    <2> DEFINE m == [type |-> a.type, form |-> a.form, of |-> sreq,
                     method |-> NoMethod, len |-> l]
    <2>2. m \in Message /\ m.of = sreq /\ m.type # "Call"
      BY <1>6, TransportAssumption DEF Answer, Message, TypeOK
    <2> HIDE DEF m
    <2>3. sout' = Units(m)
      BY <2>1 DEF m
    <2> QED
      BY <1>5, <1>6, <2>2, <2>3 DEF Answer
  <1>7. CASE CallBack
    <2>1. PICK c \in Methods, l \in 1 .. MaxLen :
            sout' = Units([type |-> "Call", form |-> "json", of |-> sreq,
                           method |-> c, len |-> l])
      BY <1>7 DEF CallBack, Writes
    <2> DEFINE m == [type |-> "Call", form |-> "json", of |-> sreq,
                     method |-> c, len |-> l]
    <2>2. m \in Message /\ m.of = sreq /\ m.type = "Call" /\ m.form = "json"
      BY <1>7, TransportAssumption
         DEF CallBack, Message, Types, Forms, TypeOK
    <2> HIDE DEF m
    <2>3. sout' = Units(m)
      BY <2>1 DEF m
    <2> QED
      BY <1>5, <1>7, <2>2, <2>3 DEF CallBack
  <1>8. CASE TakeReply
    BY <1>2, <1>8 DEF TakeReply, Reads, Pending, Stopped, Quiet
  <1>9. CASE Interrupted
    BY <1>2, <1>9 DEF Interrupted, Reads, Stopped
  <1>10. CASE Refuse
    BY <1>2, <1>10 DEF Refuse, Reads, Stopped
  <1>11. CASE WriteUnit
    <2>1. phase = "reading" /\ ~Pending
      BY <1>11 DEF WriteUnit, AtRest, InCallback, Pending, Quiet
    <2>2. PICK m \in Message : Exchange(m) /\ Sender(m)
      BY <2>1
    <2>3. /\ sout \in Seq(Unit) /\ sout # <<>> /\ stream \in Seq(Unit)
          /\ Len(sout) \in Nat /\ Len(stream) \in Nat /\ Len(buf) \in Nat
          /\ Head(sout) \in Unit /\ Head(sout) = sout[1]
          /\ stream' = Append(stream, Head(sout)) /\ sout' = Tail(sout)
          /\ UNCHANGED <<stdin, sstate, sreq>>
      BY <1>11, LenProperties, HeadTailProperties DEF WriteUnit, TypeOK
    <2>4. /\ Len(sout') = Len(sout) - 1 /\ Len(sout) > 0
          /\ \A i \in 1 .. Len(sout') : sout'[i] = sout[i + 1]
      BY <2>3, HeadTailProperties, EmptySeq
    <2>5. /\ Len(stream') = Len(stream) + 1
          /\ \A i \in 1 .. Len(stream) : stream'[i] = stream[i]
          /\ stream'[Len(stream) + 1] = sout[1]
      BY <2>3, AppendProperties
    <2>6. m.len \in Nat
      BY TransportAssumption DEF Message
    <2>7. /\ \A i \in 1 .. Len(stream') : stream'[i].msg = m
          /\ \A i \in 1 .. Len(sout') : sout'[i].msg = m
      BY <2>2, <2>3, <2>4, <2>5 DEF Exchange
    <2>8. Exchange(m)'
      BY <2>2, <2>3, <2>4, <2>5, <2>6, <2>7 DEF Exchange
    <2>9. Sender(m)'
      BY <2>2, <2>3 DEF Sender
    <2> QED
      BY <2>1, <2>8, <2>9
  <1>12. ASSUME sout' = <<>>, UNCHANGED <<stdin, stream, sreq>>,
                \/ sstate' = "exited"
                \/ sstate' = "blocked" /\ sstate \in {"idle", "working"}
         PROVE  Lockstep'
    <2>1. CASE phase # "reading"
      BY <1>12, <2>1 DEF AtRest, InCallback, Stopped, Quiet
    <2>2. CASE phase = "reading" /\ Pending
      <3>1. PICK m \in Message : m.of = cur /\ m.type # "Call"
        BY <2>2, SomeMessage, LenProperties, TransportAssumption DEF TypeOK
      <3>2. m.len \in Nat
        BY TransportAssumption DEF Message
      <3>3. Exchange(m)' /\ Sender(m)'
        BY <1>12, <2>2, <3>1, <3>2 DEF Pending, Quiet, Exchange, Sender
      <3> QED
        BY <2>2, <3>3
    <2>3. CASE phase = "reading" /\ ~Pending
      <3>1. PICK m \in Message : Exchange(m) /\ Sender(m)
        BY <2>3
      <3>2. m.len \in Nat /\ Len(buf) \in Nat /\ Len(stream) \in Nat
            /\ Len(sout) \in Nat
        BY LenProperties, TransportAssumption DEF Message, TypeOK
      <3>3. Exchange(m)' /\ Sender(m)'
        BY <1>12, <3>1, <3>2 DEF Exchange, Sender
      <3> QED
        BY <2>3, <3>3
    <2> QED
      BY <2>1, <2>2, <2>3
  <1>13. CASE Log
    <2>1. CASE stderr < StderrCap
      BY <1>13, <2>1 DEF Log, AtRest, InCallback, Pending, Exchange, Sender,
                         Stopped, Quiet
    <2>2. CASE ~(stderr < StderrCap)
      BY <1>12, <1>13, <2>2 DEF Log
    <2> QED
      BY <2>1, <2>2
  <1>14. CASE Die \/ SeeEof
    BY <1>12, <1>14 DEF Die, SeeEof, Exit
  <1> QED
    BY <1>4, <1>6, <1>7, <1>8, <1>9, <1>10, <1>11, <1>13, <1>14 DEF Server

\* So does a step of the owner, unless it returns one of the errors Desync.
LEMMA ClientLockstep ==
  ASSUME TypeOK, OwnAnswer, Tainted \/ Lockstep, Client
  PROVE  OwnAnswer' /\ (Tainted' \/ Lockstep')
  <1>1. UNCHANGED server
    BY DEF Client, RegisterCallback, Request, RejectPayload, Read, ReadEof,
           ReadFails, CallbackSucceeds, CallbackFails, UnknownCallback, Close, Reap, Drop
  <1>2. ASSUME UNCHANGED results, Tainted \/ Lockstep'
        PROVE  OwnAnswer' /\ (Tainted' \/ Lockstep')
    BY <1>2 DEF OwnAnswer, Tainted
  \* A call that returns is an answer of its own, and if it is not one of the
  \* desynchronising errors, it leaves nothing behind.
  <1>3. ASSUME NEW kind \in Kinds, NEW of \in 0 .. MaxRequests,
               Return(kind, of), Tainted \/ of \in {0, cur},
               Tainted \/ kind \in Desync \/ AtRest'
        PROVE  OwnAnswer' /\ (Tainted' \/ Lockstep')
    <2>1. OwnAnswer' /\ (Tainted' <=> Tainted \/ kind \in Desync)
      BY <1>3, ReturnEffect
    <2>2. phase' = "idle"
      BY <1>3 DEF Return
    <2> QED
      BY <1>3, <2>1, <2>2 DEF Lockstep
  <1>4. 0 \in 0 .. MaxRequests /\ Len(results) \in Nat
    BY LenProperties, TransportAssumption DEF TypeOK
  <1>5. CASE (\E m \in Methods : RegisterCallback(m)) \/ Close \/ Reap \/ Drop
    BY <1>1, <1>2, <1>5
       DEF RegisterCallback, Close, Reap, Drop, Lockstep, AtRest, Stopped,
           Quiet, server
  <1>6. CASE Request
    <2>1. CASE sstate = "exited"
      <3>1. Return("io", 0) /\ UNCHANGED <<stdin, stream>> /\ phase = "idle"
        BY <1>6, <2>1 DEF Request, Send
      <3>2. Tainted \/ AtRest'
        BY <1>1, <3>1 DEF Lockstep, AtRest, Stopped, Quiet, server
      <3> QED
        BY <1>3, <1>4, <3>1, <3>2 DEF Kinds
    <2>2. CASE sstate # "exited"
      <3>1. /\ phase = "idle" /\ phase' = "reading" /\ buf = <<>>
            /\ Len(results) < MaxRequests
            /\ stdin' = Append(stdin, [type |-> "Request", of |-> cur])
            /\ UNCHANGED <<buf, results, cur, stream>>
        BY <1>6, <2>2 DEF Request, Send, TypeOK, cur
      <3>2. CASE Tainted
        BY <1>2, <3>1, <3>2
      <3>3. CASE ~Tainted /\ sstate = "idle" /\ stdin = <<>>
        <4>1. Pending'
          BY <1>1, <3>1, <3>3 DEF Pending, Lockstep, AtRest, Quiet, server
        <4> QED
          BY <1>2, <3>1, <4>1 DEF Lockstep
      <3>4. CASE ~Tainted /\ sstate = "blocked"
        <4>1. PICK m \in Message : m.of = cur /\ m.type # "Call"
          BY <3>1, SomeMessage
        <4>2. m.len \in Nat
          BY TransportAssumption DEF Message
        <4>3. Exchange(m)' /\ Sender(m)'
          BY <1>1, <3>1, <3>4, <4>1, <4>2
             DEF Exchange, Sender, Lockstep, AtRest, Quiet, server
        <4> QED
          BY <1>2, <3>1, <4>3 DEF Lockstep
      <3> QED
        BY <2>2, <3>1, <3>2, <3>3, <3>4 DEF Lockstep, AtRest, Stopped
    <2> QED
      BY <2>1, <2>2
  <1>7. CASE RejectPayload
    <2>1. Return("payload", 0) /\ UNCHANGED <<stdin, stream>> /\ phase = "idle"
      BY <1>7 DEF RejectPayload
    <2>2. Tainted \/ AtRest'
      BY <1>1, <2>1 DEF Lockstep, AtRest, Stopped, Quiet, server
    <2> QED
      BY <1>3, <1>4, <2>1, <2>2 DEF Kinds
  <1>8. CASE \E n \in 1 .. ReadCap : Read(n)
    <2>1. PICK n \in 1 .. ReadCap : Read(n)
      BY <1>8
    <2> DEFINE got == buf \o SubSeq(stream, 1, n)
    <2>a. /\ n <= Len(stream) /\ stream' = SubSeq(stream, n + 1, Len(stream))
          /\ phase = "reading" /\ UNCHANGED <<callbacks, stdin>>
      BY <2>1 DEF Read
    <2>b. n \in Nat /\ n >= 1
      BY TransportAssumption
    <2>2. /\ got[1] \in Unit /\ Len(got) = Len(buf) + n
          /\ \A i \in 1 .. Len(got) :
               got[i] = IF i <= Len(buf) THEN buf[i] ELSE stream[i - Len(buf)]
          /\ stream' = SubSeq(stream, n + 1, Len(stream))
          /\ stream' \in Seq(Unit) /\ Len(stream') = Len(stream) - n
          /\ \A i \in 1 .. Len(stream') : stream'[i] = stream[n + i]
          /\ n \in Nat /\ n >= 1 /\ n <= Len(stream)
          /\ phase = "reading" /\ UNCHANGED <<callbacks, stdin>>
      <3>1. /\ got[1] \in Unit /\ Len(got) = Len(buf) + n
            /\ \A i \in 1 .. Len(got) :
                 got[i] = IF i <= Len(buf) THEN buf[i] ELSE stream[i - Len(buf)]
            /\ SubSeq(stream, n + 1, Len(stream)) \in Seq(Unit)
            /\ Len(SubSeq(stream, n + 1, Len(stream))) = Len(stream) - n
            /\ \A i \in 1 .. Len(stream) - n :
                 SubSeq(stream, n + 1, Len(stream))[i] = stream[n + i]
        BY <2>a, ReadType
      <3> QED
        BY <2>a, <2>b, <3>1
    <2>3. PICK v \in Decode(got) :
            CASE v = "ok"    -> Handle(got[1].msg)
              [] v = "json"  -> Return("json", got[1].msg.of)
              [] v = "retry" -> buf' = got /\ UNCHANGED <<phase, calling, results>>
              [] OTHER       -> Return(v, 0)
      BY <2>1 DEF Read
    <2>c. PICK m \in Message : got[1].msg = m
      BY <2>2 DEF Unit
    <2>4. m \in Message /\ m.of \in 0 .. MaxRequests /\ m.len \in Nat
      BY TransportAssumption DEF Message
    <2>5. /\ v \in {"ok", "json"} => Len(got) >= m.len
          /\ v = "ok" => m.form = "json"
          /\ v = "json" => m.form = "text"
          /\ v \in {"ok", "json", "retry", "garbage", "partial"}
      <3>1. m.form \in {"json", "text", "raw"}
        BY DEF Message, Forms
      <3> QED
        <4>1. CASE got[1].at # 1
          BY <4>1 DEF Decode
        <4>2. CASE got[1].at = 1 /\ Len(got) < m.len
          BY <2>c, <4>2 DEF Decode
        <4>3. CASE got[1].at = 1 /\ ~(Len(got) < m.len)
          <5>0. Len(got) >= m.len
            BY <2>2, <2>4, <4>3, LenProperties DEF TypeOK
          <5>1. Decode(got) = CASE m.form = "json" -> {"ok"}
                                [] m.form = "text" -> {"json"}
                                [] m.form = "raw"  -> {"retry"}
            BY <2>c, <4>3 DEF Decode
          <5> QED
            BY <3>1, <5>0, <5>1
        <4> QED
          BY <4>1, <4>2, <4>3
    \* What is being read is of the call being served, and a whole message is
    \* all there is.
    <2>6. ASSUME ~Tainted
          PROVE  /\ Exchange(m) /\ Sender(m)
                 /\ Len(got) >= m.len => stream' = <<>> /\ sout = <<>>
      <3>1. phase = "reading" /\ ~Pending
        BY <2>2, EmptySeq DEF Pending, Quiet
      <3>2. PICK w \in Message : Exchange(w) /\ Sender(w)
        BY <2>6, <3>1 DEF Lockstep
      <3>3. /\ Len(buf) \in Nat /\ Len(stream) \in Nat /\ Len(sout) \in Nat
            /\ sout \in Seq(Unit)
        BY LenProperties DEF TypeOK
      <3>4. w = m
        <4>1. CASE Len(buf) >= 1
          BY <2>2, <2>c, <3>2, <3>3, <4>1 DEF Exchange
        <4>2. CASE Len(buf) = 0
          BY <2>2, <2>c, <3>2, <3>3, <4>2 DEF Exchange
        <4> QED
          BY <3>3, <4>1, <4>2
      <3>5. ASSUME Len(got) >= m.len
            PROVE  stream' = <<>> /\ sout = <<>>
        <4>1. Len(stream') = 0 /\ Len(sout) = 0
          BY <2>2, <2>4, <3>2, <3>3, <3>4, <3>5 DEF Exchange
        <4> QED
          BY <2>2, <3>3, <4>1, EmptySeq
      <3> QED
        BY <3>2, <3>4, <3>5
    <2>7. CASE v \in {"garbage", "partial"}
      BY <1>3, <1>4, <2>3, <2>7 DEF Kinds, Desync
    <2>8. CASE v = "json"
      <3>1. Return("json", m.of)
        BY <2>3, <2>8, <2>c
      <3>2. Tainted \/ (m.of = cur /\ AtRest')
        <4>1. ASSUME ~Tainted
              PROVE  m.of = cur /\ m.type # "Call" /\ Sender(m)
                     /\ stream' = <<>> /\ sout = <<>>
          BY <2>5, <2>6, <2>8, <4>1 DEF Exchange
        <4> QED
          BY <1>1, <2>2, <4>1 DEF AtRest, Stopped, Quiet, Sender, server
      <3> QED
        BY <1>3, <2>4, <3>1, <3>2 DEF Kinds
    <2>9. CASE v = "retry"
      <3>1. buf' = got /\ UNCHANGED <<phase, calling, results, cur>>
        BY <2>3, <2>9 DEF cur
      <3>2. ASSUME ~Tainted
            PROVE  Exchange(m)' /\ Sender(m)'
        <4>1. Exchange(m) /\ Sender(m)
          BY <2>6, <3>2
        <4>2. Len(buf) \in Nat /\ Len(stream) \in Nat /\ Len(sout) \in Nat
          BY LenProperties DEF TypeOK
        <4>3. \A i \in 1 .. Len(got) : got[i].msg = m
          BY <2>2, <4>1, <4>2 DEF Exchange
        <4>4. \A i \in 1 .. Len(stream') : stream'[i].msg = m
          BY <2>2, <4>1, <4>2 DEF Exchange
        <4> HIDE DEF got
        <4>5. Exchange(m)'
          BY SMTT(30), <1>1, <2>2, <2>4, <3>1, <4>1, <4>2, <4>3, <4>4 DEF Exchange, server
        <4>6. Sender(m)'
          BY <1>1, <2>2, <3>1, <4>1 DEF Sender, server
        <4> QED
          BY <4>5, <4>6
      <3> QED
        BY <1>2, <2>2, <2>4, <3>1, <3>2 DEF Lockstep
    <2>10. CASE v = "ok" /\ m.type = "Call"
      <3>1. phase' = "calling" /\ UNCHANGED <<results, cur>>
        BY <2>3, <2>10, <2>c DEF Handle, cur
      <3>2. ASSUME ~Tainted
            PROVE  InCallback'
        BY <1>1, <2>2, <2>5, <2>6, <2>10, <3>1, <3>2
           DEF InCallback, Stopped, Quiet, Sender, server
      <3> QED
        BY <1>2, <3>1, <3>2 DEF Lockstep
    <2>11. CASE v = "ok" /\ m.type # "Call"
      <3>1. PICK kind \in {"ok", "serverError", "invalid"} : Return(kind, m.of)
        BY <2>3, <2>4, <2>11, <2>c DEF Handle, Message, Types
      <3>2. Tainted \/ (m.of = cur /\ AtRest')
        <4>1. ASSUME ~Tainted
              PROVE  m.of = cur /\ Sender(m) /\ stream' = <<>> /\ sout = <<>>
          BY <2>5, <2>6, <2>11, <4>1 DEF Exchange
        <4> QED
          BY <1>1, <2>2, <2>11, <4>1 DEF AtRest, Stopped, Quiet, Sender, server
      <3> QED
        BY <1>3, <2>4, <3>1, <3>2 DEF Kinds
    <2> QED
      BY <2>5, <2>7, <2>8, <2>9, <2>10, <2>11
  <1>9. CASE ReadEof
    <2>1. /\ Return("closed", 0) /\ UNCHANGED <<stdin, stream>>
          /\ stream = <<>> /\ sstate = "exited"
      BY <1>9 DEF ReadEof
    <2>2. Tainted \/ AtRest'
      BY <1>1, <1>9, <2>1
         DEF ReadEof, Lockstep, Pending, Sender, AtRest, Stopped, Quiet, server
    <2> QED
      BY <1>3, <1>4, <2>1, <2>2 DEF Kinds
  <1>10. CASE CallbackSucceeds
    <2>1. CASE sstate = "exited"
      <3>1. Return("io", 0) /\ UNCHANGED <<stdin, stream>> /\ phase = "calling"
        BY <1>10, <2>1 DEF CallbackSucceeds, Send
      <3>2. Tainted \/ AtRest'
        BY <1>1, <2>1, <3>1
           DEF Lockstep, AtRest, InCallback, Stopped, Quiet, server
      <3> QED
        BY <1>3, <1>4, <3>1, <3>2 DEF Kinds
    <2>2. CASE sstate # "exited"
      <3>1. /\ phase = "calling" /\ phase' = "reading" /\ buf = <<>>
            /\ Len(results) < MaxRequests
            /\ stdin' = Append(stdin, [type |-> "CallResponse", of |-> cur])
            /\ UNCHANGED <<buf, results, cur, stream>>
        BY <1>4, <1>10, <2>2, TransportAssumption
           DEF CallbackSucceeds, Send, TypeOK, cur
      <3>2. CASE Tainted
        BY <1>2, <3>1, <3>2
      <3>3. CASE ~Tainted /\ sstate = "awaiting" /\ sreq = cur /\ stdin = <<>>
        <4>1. Pending'
          BY <1>1, <3>1, <3>3 DEF Pending, Lockstep, InCallback, Quiet, server
        <4> QED
          BY <1>2, <3>1, <4>1 DEF Lockstep
      <3>4. CASE ~Tainted /\ sstate = "blocked"
        <4>1. PICK m \in Message : m.of = cur /\ m.type # "Call"
          BY <3>1, SomeMessage
        <4>2. m.len \in Nat
          BY TransportAssumption DEF Message
        <4>3. Exchange(m)' /\ Sender(m)'
          BY <1>1, <3>1, <3>4, <4>1, <4>2
             DEF Exchange, Sender, Lockstep, InCallback, Quiet, server
        <4> QED
          BY <1>2, <3>1, <4>3 DEF Lockstep
      <3> QED
        BY <2>2, <3>1, <3>2, <3>3, <3>4 DEF Lockstep, InCallback, Stopped
    <2> QED
      BY <2>1, <2>2
  <1>11. CASE CallbackFails \/ ReadFails
    BY <1>3, <1>4, <1>11 DEF CallbackFails, ReadFails, Kinds, Desync
  <1>12. CASE UnknownCallback
    <2>1. CASE sstate = "exited"
      <3>1. Return("io", 0) /\ UNCHANGED <<stdin, stream>> /\ phase = "calling"
        BY <1>12, <2>1 DEF UnknownCallback, Send
      <3>2. Tainted \/ AtRest'
        BY <1>1, <2>1, <3>1
           DEF Lockstep, AtRest, InCallback, Stopped, Quiet, server
      <3> QED
        BY <1>3, <1>4, <3>1, <3>2 DEF Kinds
    <2>2. CASE sstate # "exited"
      <3>1. Return("unknown", 0)
        BY <1>12, <2>2 DEF UnknownCallback, Send
      <3> QED
        BY <1>3, <1>4, <3>1 DEF Kinds, Desync
    <2> QED
      BY <2>1, <2>2
  <1> QED
    BY <1>5, <1>6, <1>7, <1>8, <1>9, <1>10, <1>11, <1>12 DEF Client

\* The two ends start in lockstep.
LEMMA LockstepInit == Init => LockstepInv
  BY TypeInit DEF Init, LockstepInv, OwnAnswer, Lockstep, AtRest, Quiet

\* LockstepInv is inductive.
LEMMA LockstepStep == LockstepInv /\ [Next]_vars => LockstepInv'
  <1> SUFFICES ASSUME TypeOK, OwnAnswer, Tainted \/ Lockstep, [Next]_vars
               PROVE  TypeOK' /\ OwnAnswer' /\ (Tainted' \/ Lockstep')
    BY DEF LockstepInv
  <1>1. CASE Client
    BY <1>1, ClientType, ClientLockstep
  <1>2. CASE Server
    <2>1. UNCHANGED results
      BY <1>2 DEF Server, Accept, Answer, CallBack, TakeReply, Interrupted,
                  Refuse, WriteUnit, Log, Die, SeeEof, Exit, client
    <2> QED
      BY <1>2, <2>1, ServerType, ServerLockstep DEF OwnAnswer, Tainted
  <1>3. CASE UNCHANGED vars
    <2>1. UNCHANGED <<phase, callbacks, buf, calling, results, stdin, stream,
                      sstate, sreq, sout, stderr, cur>>
      BY <1>3 DEF vars, client, server, cur
    <2> QED
      BY <2>1 DEF TypeOK, OwnAnswer, Tainted, Lockstep, AtRest, InCallback,
                  Pending, Exchange, Sender, Stopped, Quiet
  <1> QED
    BY <1>1, <1>2, <1>3 DEF Next

\* The two ends stay in lockstep until a call of request ends in the middle of
\* an exchange (transport.rs, request and handle_callback).
THEOREM InLockstep == Spec => []LockstepInv
  BY LockstepInit, LockstepStep, PTL DEF Spec

\* Every answer that request returns is the answer to that call, as long as no
\* earlier call ended in the middle of an exchange.
THEOREM AnswersAreOwn == Spec => []OwnAnswer
  <1>1. LockstepInv => OwnAnswer
    BY DEF LockstepInv
  <1> QED
    BY <1>1, InLockstep, PTL

\* Between two calls no byte is under way and the child is back in its main
\* loop, or has stopped.
THEOREM QuietBetweenCalls == Spec => []QuietWhenIdle
  <1>1. LockstepInv => QuietWhenIdle
    BY DEF LockstepInv, QuietWhenIdle, Lockstep
  <1> QED
    BY <1>1, InLockstep, PTL

-----------------------------------------------------------------------------
(* Retries, and the order of the answers, whatever happened before.        *)

\* What is kept in the buffer cannot be decoded: it begins in the middle of a
\* message, or is a whole one whose payload is not UTF-8.
Hopeless ==
  buf # <<>> =>
    \/ buf[1].at # 1
    \/ buf[1].msg.form = "raw" /\ Len(buf) >= buf[1].msg.len

\* The first unit of an answer, which is all that decides whose it is.
Final(u) == u.at = 1 /\ u.msg.type # "Call"

\* Number k is beyond those of all answers returned so far.
Late(k) == \A i \in 1 .. Len(results) : results[i].of < k

\* The child writes calls as JSON, and a message from its first unit on.
WellWritten ==
  /\ \A j \in 1 .. Len(stream) :
       stream[j].msg.type = "Call" => stream[j].msg.form = "json"
  /\ \A j \in 1 .. Len(sout) :
       /\ sout[j].msg.type = "Call" => sout[j].msg.form = "json"
       /\ sout[j].at = 1 => j = 1

\* Answers under way are later than those returned, and in order.
AnswersAhead ==
  /\ \A j \in 1 .. Len(stream) : Final(stream[j]) =>
       /\ Late(stream[j].msg.of)
       /\ \A i \in 1 .. j - 1 :
            Final(stream[i]) => stream[i].msg.of < stream[j].msg.of
  /\ \A j \in 1 .. Len(sout) : Final(sout[j]) =>
       /\ Late(sout[j].msg.of)
       /\ \A i \in 1 .. Len(stream) :
            Final(stream[i]) => stream[i].msg.of < sout[j].msg.of

\* No answer is later than k.
AnsweredBefore(k) ==
  /\ Late(k)
  /\ \A j \in 1 .. Len(stream) : Final(stream[j]) => stream[j].msg.of < k
  /\ \A j \in 1 .. Len(sout) : Final(sout[j]) => sout[j].msg.of < k

\* The request the child works on has no answer yet, and none is ahead of it.
AcceptedLast ==
  AnsweredBefore(IF sstate \in {"working", "awaiting"} THEN sreq ELSE sreq + 1)

\* The number of the last request sent.
LastSent == Len(results) + (IF phase \in {"reading", "calling"} THEN 1 ELSE 0)

\* Requests the child has not read are later than the one it accepted last, in
\* order, and none is later than the last one sent.
RequestsAhead ==
  /\ sreq <= LastSent
  /\ \A j \in 1 .. Len(stdin) : stdin[j].type = "Request" =>
       /\ sreq < stdin[j].of /\ stdin[j].of <= LastSent
       /\ \A i \in 1 .. j - 1 :
            stdin[i].type = "Request" => stdin[i].of < stdin[j].of

OrderInv ==
  /\ TypeOK /\ AnswersInOrder
  /\ Hopeless /\ WellWritten /\ AnswersAhead /\ AcceptedLast /\ RequestsAhead

\* Everything that is numbered has a number.
LEMMA Numbers ==
  ASSUME TypeOK
  PROVE  /\ Len(results) \in Nat /\ Len(stream) \in Nat /\ Len(sout) \in Nat
         /\ Len(stdin) \in Nat /\ Len(buf) \in Nat /\ sreq \in Nat /\ LastSent \in Nat
         /\ \A i \in 1 .. Len(results) : results[i].of \in Nat
         /\ \A i \in 1 .. Len(stream) :
              stream[i].msg.of \in Nat /\ stream[i].msg \in Message
         /\ \A i \in 1 .. Len(sout) : sout[i].msg.of \in Nat /\ sout[i].msg \in Message
         /\ \A i \in 1 .. Len(stdin) : stdin[i].of \in Nat
  <1>1. /\ results \in Seq([kind : Kinds, of : 0 .. MaxRequests])
        /\ stream \in Seq(Unit) /\ sout \in Seq(Unit) /\ stdin \in Seq(Sent)
        /\ buf \in Seq(Unit) /\ sreq \in Nat
    BY TransportAssumption DEF TypeOK
  <1>2. /\ Len(results) \in Nat /\ Len(stream) \in Nat /\ Len(sout) \in Nat
        /\ Len(stdin) \in Nat /\ Len(buf) \in Nat
    BY <1>1, LenProperties
  <1>3. \A i \in 1 .. Len(results) : results[i].of \in Nat
    <2>1. \A i \in 1 .. Len(results) : results[i] \in [kind : Kinds, of : 0 .. MaxRequests]
      BY <1>1, ElementOfSeq
    <2> QED
      BY <2>1, TransportAssumption
  <1>4. \A u \in Unit : u.msg \in Message /\ u.msg.of \in Nat
    BY TransportAssumption DEF Unit, Message
  <1>5. /\ \A i \in 1 .. Len(stream) : stream[i] \in Unit
        /\ \A i \in 1 .. Len(sout) : sout[i] \in Unit
    BY <1>1, ElementOfSeq
  <1>6. \A i \in 1 .. Len(stdin) : stdin[i].of \in Nat
    <2>1. \A i \in 1 .. Len(stdin) : stdin[i] \in Sent
      BY <1>1, ElementOfSeq
    <2> QED
      BY <2>1, TransportAssumption DEF Sent
  <1>7. LastSent \in Nat
    BY <1>2 DEF LastSent
  <1> QED
    BY <1>1, <1>2, <1>3, <1>4, <1>5, <1>6, <1>7

\* A message is written from its first unit to its last.
LEMMA UnitsAt ==
  ASSUME NEW m \in Message
  PROVE  /\ Len(Units(m)) \in Nat
         /\ \A i \in 1 .. Len(Units(m)) : Units(m)[i].msg = m /\ Units(m)[i].at = i
  <1>1. m.len \in Nat
    BY TransportAssumption DEF Message
  <1>2. Len(Units(m)) = m.len
    BY UnitsType
  <1> QED
    BY <1>1, <1>2 DEF Units

\* The child reads its requests in their order.
LEMMA RequestsRead ==
  ASSUME TypeOK, RequestsAhead, Server
  PROVE  RequestsAhead'
  <1>1. LastSent' = LastSent
    BY DEF Server, Accept, Answer, CallBack, TakeReply, Interrupted, Refuse,
           WriteUnit, Log, Die, SeeEof, Exit, client, LastSent
  <1> DEFINE Read1 == stdin # <<>> /\ stdin' = Tail(stdin)
  <1>2. ASSUME Read1
        PROVE  /\ Len(stdin) \in Nat /\ Len(stdin') \in Nat /\ 1 \in 1 .. Len(stdin)
               /\ \A j \in 1 .. Len(stdin') :
                    stdin'[j] = stdin[j + 1] /\ j + 1 \in 1 .. Len(stdin)
               /\ Head(stdin) = stdin[1]
    <2>1. stdin \in Seq(Sent) /\ stdin # <<>> /\ stdin' = Tail(stdin)
      BY <1>2 DEF TypeOK
    <2>2. /\ Tail(stdin) \in Seq(Sent) /\ Len(Tail(stdin)) = Len(stdin) - 1
          /\ \A i \in 1 .. Len(Tail(stdin)) : Tail(stdin)[i] = stdin[i + 1]
      BY <2>1, HeadTailProperties
    <2>3. Len(stdin) \in Nat /\ Len(stdin') \in Nat /\ Head(stdin) = stdin[1]
      BY <2>1, <2>2, LenProperties
    <2> QED
      BY <2>1, <2>2, <2>3
  <1>3. CASE UNCHANGED <<stdin, sreq>>
    BY <1>1, <1>3 DEF RequestsAhead
  <1>4. CASE Read1 /\ sreq' = sreq
    <2> SUFFICES ASSUME NEW j \in 1 .. Len(stdin'), stdin'[j].type = "Request"
                 PROVE  /\ sreq < stdin'[j].of /\ stdin'[j].of <= LastSent
                        /\ \A i \in 1 .. j - 1 :
                             stdin'[i].type = "Request" => stdin'[i].of < stdin'[j].of
      BY <1>1, <1>4 DEF RequestsAhead
    <2>1. j + 1 \in 1 .. Len(stdin) /\ stdin'[j] = stdin[j + 1]
      BY <1>2, <1>4
    <2>2. \A i \in 1 .. j - 1 :
            stdin'[i] = stdin[i + 1] /\ i + 1 \in 1 .. (j + 1) - 1
      BY <1>2, <1>4
    <2> QED
      BY <2>1, <2>2 DEF RequestsAhead
  <1>5. CASE Accept
    <2>1. Read1 /\ stdin[1].type = "Request" /\ sreq' = stdin[1].of
      BY <1>2, <1>5 DEF Accept, Reads
    <2>2. sreq' <= LastSent
      BY <1>2, <2>1 DEF RequestsAhead
    <2> SUFFICES ASSUME NEW j \in 1 .. Len(stdin'), stdin'[j].type = "Request"
                 PROVE  /\ sreq' < stdin'[j].of /\ stdin'[j].of <= LastSent
                        /\ \A i \in 1 .. j - 1 :
                             stdin'[i].type = "Request" => stdin'[i].of < stdin'[j].of
      BY <1>1, <2>2 DEF RequestsAhead
    <2>3. j + 1 \in 1 .. Len(stdin) /\ stdin'[j] = stdin[j + 1] /\ 1 \in 1 .. (j + 1) - 1
      BY <1>2, <2>1
    <2>4. \A i \in 1 .. j - 1 :
            stdin'[i] = stdin[i + 1] /\ i + 1 \in 1 .. (j + 1) - 1
      BY <1>2, <2>1
    <2> QED
      BY <2>1, <2>3, <2>4 DEF RequestsAhead
  <1> QED
    BY <1>3, <1>4, <1>5
       DEF Server, Answer, CallBack, TakeReply, Interrupted, Refuse,
           WriteUnit, Log, Die, SeeEof, Exit, Reads

\* A later bound is a bound.
LEMMA AnsweredBeforeMore ==
  ASSUME TypeOK, NEW k \in Nat, NEW l \in Nat, k <= l, AnsweredBefore(k)
  PROVE  AnsweredBefore(l)
  <1>1. /\ \A i \in 1 .. Len(results) : results[i].of \in Nat
        /\ \A i \in 1 .. Len(stream) : stream[i].msg.of \in Nat
        /\ \A i \in 1 .. Len(sout) : sout[i].msg.of \in Nat
    BY Numbers
  <1>2. Late(l)
    BY <1>1 DEF AnsweredBefore, Late
  <1>3. /\ \A j \in 1 .. Len(stream) : Final(stream[j]) => stream[j].msg.of < l
        /\ \A j \in 1 .. Len(sout) : Final(sout[j]) => sout[j].msg.of < l
    BY <1>1 DEF AnsweredBefore
  <1> QED
    BY <1>2, <1>3 DEF AnsweredBefore

\* The child answers in the order of the requests.
LEMMA AnswersWritten ==
  ASSUME TypeOK, WellWritten, AnswersAhead, AcceptedLast, RequestsAhead, Server
  PROVE  WellWritten' /\ AnswersAhead' /\ AcceptedLast'
  <1>1. UNCHANGED results
    BY DEF Server, Accept, Answer, CallBack, TakeReply, Interrupted, Refuse,
           WriteUnit, Log, Die, SeeEof, Exit, client
  <1>n. /\ Len(stream) \in Nat /\ Len(sout) \in Nat /\ sreq \in Nat
        /\ \A i \in 1 .. Len(results) : results[i].of \in Nat
        /\ \A i \in 1 .. Len(stream) : stream[i].msg.of \in Nat
        /\ \A i \in 1 .. Len(sout) : sout[i].msg.of \in Nat
    BY Numbers
  <1>2. AnsweredBefore(sreq + 1)
    BY <1>n, AnsweredBeforeMore DEF AcceptedLast
  <1>3. CASE UNCHANGED <<stream, sout, sreq>> /\ sstate' \in {sstate, "blocked", "exited"}
    BY <1>1, <1>2, <1>3
       DEF WellWritten, AnswersAhead, AcceptedLast, AnsweredBefore, Late, Final
  <1>4. CASE TakeReply
    BY <1>1, <1>4
       DEF TakeReply, WellWritten, AnswersAhead, AcceptedLast, AnsweredBefore, Late,
           Final
  <1>5. CASE Accept
    <2>1. sreq' \in Nat /\ sreq + 1 <= sreq' /\ UNCHANGED <<stream, sout>>
          /\ sstate' = "working"
      <3>1. stdin \in Seq(Sent) /\ stdin # <<>>
        BY <1>5 DEF Accept, Reads, TypeOK
      <3>2. Len(stdin) \in Nat /\ Len(stdin) # 0 /\ Head(stdin) = stdin[1]
        BY <3>1, EmptySeq, HeadTailProperties
      <3>3. 1 \in 1 .. Len(stdin) /\ sreq' = stdin[1].of /\ stdin[1].type = "Request"
        BY <3>2, <1>5 DEF Accept, Reads
      <3>4. sreq < stdin[1].of /\ stdin[1].of \in Nat
        BY <3>3, Numbers DEF RequestsAhead
      <3> QED
        BY <1>5, <1>n, <3>3, <3>4 DEF Accept
    <2>2. AnsweredBefore(sreq')
      BY <1>2, <1>n, <2>1, AnsweredBeforeMore
    <2> QED
      BY <1>1, <2>1, <2>2
         DEF WellWritten, AnswersAhead, AcceptedLast, AnsweredBefore, Late, Final
  \* A message that the child starts to write is of the request it accepted.
  <1>6. ASSUME NEW m \in Message, sout' = Units(m), m.of = sreq,
               m.type = "Call" => m.form = "json", UNCHANGED <<stream, sreq>>,
               sstate \in {"working", "awaiting"},
               m.type # "Call" => sstate' = "idle"
        PROVE  WellWritten' /\ AnswersAhead' /\ AcceptedLast'
    <2>1. /\ Len(sout') \in Nat
          /\ \A i \in 1 .. Len(sout') : sout'[i].msg = m /\ sout'[i].at = i
      BY <1>6, UnitsAt
    <2>2. AnsweredBefore(sreq)
      BY <1>6 DEF AcceptedLast
    <2>3. WellWritten'
      BY <1>6, <2>1 DEF WellWritten
    <2>4. AnswersAhead'
      BY <1>1, <1>6, <2>1, <2>2 DEF AnswersAhead, AnsweredBefore, Late, Final
    <2>5. AcceptedLast'
      <3>1. CASE m.type = "Call"
        <4>1. AnsweredBefore(sreq)' /\ AnsweredBefore(sreq + 1)'
          BY <1>1, <1>2, <1>6, <2>1, <2>2, <3>1 DEF AnsweredBefore, Late, Final
        <4> QED
          BY <4>1 DEF AcceptedLast
      <3>2. CASE m.type # "Call"
        <4>1. AnsweredBefore(sreq + 1)'
          BY <1>1, <1>2, <1>6, <1>n, <2>1 DEF AnsweredBefore, Late, Final
        <4> QED
          BY <1>6, <3>2, <4>1 DEF AcceptedLast
      <3> QED
        BY <3>1, <3>2
    <2> QED
      BY <2>3, <2>4, <2>5
  <1>7. CASE Answer
    <2>1. PICK a \in Answers, l \in 1 .. MaxLen :
            sout' = Units([type |-> a.type, form |-> a.form, of |-> sreq,
                           method |-> NoMethod, len |-> l])
      BY <1>7 DEF Answer, Writes
    <2> DEFINE m == [type |-> a.type, form |-> a.form, of |-> sreq,
                     method |-> NoMethod, len |-> l]
    <2>2. m \in Message /\ m.of = sreq /\ m.type # "Call"
      BY <1>7, TransportAssumption DEF Answer, Message, TypeOK
    <2> HIDE DEF m
    <2> QED
      BY <1>6, <1>7, <2>1, <2>2 DEF Answer, m
  <1>8. CASE CallBack
    <2>1. PICK mt \in Methods, l \in 1 .. MaxLen :
            sout' = Units([type |-> "Call", form |-> "json", of |-> sreq,
                           method |-> mt, len |-> l])
      BY <1>8 DEF CallBack, Writes
    <2> DEFINE m == [type |-> "Call", form |-> "json", of |-> sreq,
                     method |-> mt, len |-> l]
    <2>2. m \in Message /\ m.of = sreq /\ m.type = "Call" /\ m.form = "json"
      BY <1>8, TransportAssumption DEF CallBack, Message, Types, Forms, TypeOK
    <2> HIDE DEF m
    <2> QED
      BY <1>6, <1>8, <2>1, <2>2 DEF CallBack, m
  <1>9. CASE Interrupted
    <2> DEFINE m == [type |-> "Error", form |-> "json", of |-> sreq,
                     method |-> NoMethod, len |-> 1]
    <2>1. m \in Message /\ m.of = sreq /\ m.type # "Call"
      BY <1>9, TransportAssumption DEF Interrupted, Message, Types, Forms, TypeOK
    <2>2. sout' = Units(m)
      BY <1>9 DEF Interrupted, Writes
    <2> HIDE DEF m
    <2> QED
      BY <1>6, <1>9, <2>1, <2>2 DEF Interrupted
  <1>10. CASE WriteUnit
    <2>1. /\ sout \in Seq(Unit) /\ sout # <<>> /\ stream \in Seq(Unit)
          /\ stream' = Append(stream, Head(sout)) /\ sout' = Tail(sout)
          /\ UNCHANGED <<sstate, sreq>>
      BY <1>10 DEF WriteUnit, TypeOK
    <2>2. /\ Len(sout) \in Nat \ {0} /\ Head(sout) = sout[1] /\ Head(sout) \in Unit
          /\ Len(sout') = Len(sout) - 1
          /\ \A j \in 1 .. Len(sout') : sout'[j] = sout[j + 1]
      BY <2>1, EmptySeq, HeadTailProperties
    <2>3. /\ Len(stream') = Len(stream) + 1 /\ stream'[Len(stream) + 1] = sout[1]
          /\ \A j \in 1 .. Len(stream) : stream'[j] = stream[j]
      BY <2>1, <2>2, AppendProperties
    <2>4. 1 \in 1 .. Len(sout)
          /\ \A j \in 1 .. Len(sout') : j + 1 \in 1 .. Len(sout) /\ sout'[j].at # 1
      BY <2>2 DEF WellWritten
    <2>5. WellWritten'
      <3>1. ASSUME NEW j \in 1 .. Len(stream'), stream'[j].msg.type = "Call"
            PROVE  stream'[j].msg.form = "json"
        <4>1. CASE j \in 1 .. Len(stream)
          BY <2>3, <3>1, <4>1 DEF WellWritten
        <4>2. CASE j = Len(stream) + 1
          BY <2>3, <2>4, <3>1, <4>2 DEF WellWritten
        <4> QED
          BY <1>n, <2>3, <4>1, <4>2
      <3>2. ASSUME NEW j \in 1 .. Len(sout')
            PROVE  /\ sout'[j].msg.type = "Call" => sout'[j].msg.form = "json"
                   /\ sout'[j].at # 1
        BY <2>2, <2>4 DEF WellWritten
      <3> QED
        BY <3>1, <3>2 DEF WellWritten
    <2>6. ASSUME NEW j \in 1 .. Len(stream'), Final(stream'[j])
          PROVE  /\ \A i \in 1 .. Len(results) : results[i].of < stream'[j].msg.of
                 /\ \A i \in 1 .. j - 1 :
                      Final(stream'[i]) => stream'[i].msg.of < stream'[j].msg.of
      <3>1. CASE j \in 1 .. Len(stream)
        <4>1. stream'[j] = stream[j]
              /\ \A i \in 1 .. j - 1 : stream'[i] = stream[i]
          BY <1>n, <2>3, <3>1
        <4> QED
          BY <2>6, <3>1, <4>1 DEF AnswersAhead, Late
      <3>2. CASE j = Len(stream) + 1
        <4>1. stream'[j] = sout[1]
              /\ \A i \in 1 .. j - 1 : stream'[i] = stream[i] /\ i \in 1 .. Len(stream)
          BY <1>n, <2>3, <3>2
        <4> QED
          BY <2>4, <2>6, <4>1 DEF AnswersAhead, Late
      <3> QED
        BY <1>n, <2>3, <3>1, <3>2
    <2>7. AnswersAhead'
      BY <1>1, <2>4, <2>6 DEF AnswersAhead, Late, Final
    <2>8. ASSUME NEW k, AnsweredBefore(k) PROVE AnsweredBefore(k)'
      <3>1. \A j \in 1 .. Len(stream') : Final(stream'[j]) => stream'[j].msg.of < k
        BY <1>n, <2>3, <2>4, <2>8 DEF AnsweredBefore
      <3> QED
        BY <1>1, <2>4, <2>8, <3>1 DEF AnsweredBefore, Late, Final
    <2>9. AcceptedLast'
      BY <2>1, <2>8 DEF AcceptedLast, AnsweredBefore, Late
    <2> QED
      BY <2>5, <2>7, <2>9
  <1>11. CASE Die \/ SeeEof
    <2>1. /\ sout' = <<>> /\ 1 .. Len(sout') = {} /\ sstate' = "exited"
          /\ UNCHANGED <<stream, sreq>>
      BY <1>11 DEF Die, SeeEof, Exit
    <2> QED
      BY <1>1, <1>2, <2>1
         DEF WellWritten, AnswersAhead, AcceptedLast, AnsweredBefore, Late, Final
  <1>12. CASE Refuse \/ Log
    BY <1>3, <1>12 DEF Refuse, Log
  <1> QED
    BY <1>4, <1>5, <1>7, <1>8, <1>9, <1>10, <1>11, <1>12 DEF Server

\* Reads take units from the front of stdout, and no other step of the owner
\* touches it.
LEMMA ReadsForward ==
  ASSUME TypeOK, Client
  PROVE  \E n \in Nat :
           /\ n <= Len(stream) /\ Len(stream') = Len(stream) - n
           /\ \A i \in 1 .. Len(stream') :
                stream'[i] = stream[n + i] /\ n + i \in 1 .. Len(stream)
           /\ (\E c \in 1 .. ReadCap : Read(c)) => n >= 1
  <1>1. Len(stream) \in Nat
    BY LenProperties DEF TypeOK
  <1>2. CASE UNCHANGED stream /\ ~ \E c \in 1 .. ReadCap : Read(c)
    <2>1. /\ 0 <= Len(stream) /\ Len(stream') = Len(stream) - 0
          /\ \A i \in 1 .. Len(stream') :
               stream'[i] = stream[0 + i] /\ 0 + i \in 1 .. Len(stream)
      BY <1>1, <1>2
    <2> WITNESS 0 \in Nat
    <2> QED
      BY <1>2, <2>1
  <1>3. ASSUME NEW c \in 1 .. ReadCap, Read(c)
        PROVE  /\ c \in Nat /\ c >= 1 /\ c <= Len(stream)
               /\ Len(stream') = Len(stream) - c
               /\ \A i \in 1 .. Len(stream') :
                    stream'[i] = stream[c + i] /\ c + i \in 1 .. Len(stream)
    <2>1. c <= Len(stream) /\ stream' = SubSeq(stream, c + 1, Len(stream))
      BY <1>3 DEF Read
    <2>2. /\ Len(stream') = Len(stream) - c
          /\ \A i \in 1 .. Len(stream) - c : stream'[i] = stream[c + i]
      BY <2>1, ReadType
    <2>3. c \in Nat /\ c >= 1
      BY TransportAssumption
    <2>4. \A i \in 1 .. Len(stream') : c + i \in 1 .. Len(stream) /\ i \in 1 .. Len(stream) - c
      BY <1>1, <2>2, <2>3
    <2> HIDE DEF Read
    <2> QED
      BY <2>1, <2>2, <2>3, <2>4
  <1>4. (\E c \in 1 .. ReadCap : Read(c)) \/ UNCHANGED stream
    BY DEF Client, RegisterCallback, Request, RejectPayload, ReadEof, ReadFails, CallbackSucceeds,
           CallbackFails, UnknownCallback, Close, Reap, Drop
  <1> QED
    BY <1>2, <1>3, <1>4

\* A read leaves the results alone, and a buffer that is empty or hopeless; or
\* the buffer was empty, and what the call returns is an error of no message or
\* what the first unit on stdout belongs to, an answer.
LEMMA ReadOutcome ==
  ASSUME TypeOK, Hopeless, WellWritten, NEW n \in 1 .. ReadCap, Read(n)
  PROVE  \/ UNCHANGED results /\ Hopeless'
         \/ /\ buf = <<>>
            /\ \E kind \in Kinds, of \in 0 .. MaxRequests :
                 /\ Return(kind, of)
                 /\ of = 0 \/ (1 \in 1 .. Len(stream) /\ Final(stream[1])
                               /\ of = stream[1].msg.of)
  <1> DEFINE got == buf \o SubSeq(stream, 1, n)
  <1>1. /\ got \in Seq(Unit) /\ Len(got) = Len(buf) + n /\ got[1] \in Unit
        /\ \A i \in 1 .. Len(got) :
             got[i] = IF i <= Len(buf) THEN buf[i] ELSE stream[i - Len(buf)]
        /\ n <= Len(stream)
    <2>1. n <= Len(stream)
      BY DEF Read
    <2> QED
      BY <2>1, ReadType
  <1>2. PICK v \in Decode(got) :
          CASE v = "ok"    -> Handle(got[1].msg)
            [] v = "json"  -> Return("json", got[1].msg.of)
            [] v = "retry" -> buf' = got /\ UNCHANGED <<phase, calling, results>>
            [] OTHER       -> Return(v, 0)
    BY DEF Read
  <1>3. /\ Len(buf) \in Nat /\ Len(stream) \in Nat /\ n \in Nat /\ n >= 1
        /\ 0 \in 0 .. MaxRequests
    BY Numbers, TransportAssumption
  <1>4. got[1].msg \in Message /\ got[1].msg.form \in Forms
        /\ got[1].msg.type \in Types /\ got[1].msg.of \in 0 .. MaxRequests
        /\ got[1].msg.len \in Nat
    BY SMTT(30), <1>1, TransportAssumption DEF Unit, Message
  <1>5. CASE buf # <<>>
    <2>1. Len(buf) >= 1
      BY <1>3, <1>5, EmptySeq DEF TypeOK
    <2>2. got[1] = buf[1] /\ Len(got) >= Len(buf)
      BY <1>1, <1>3, <2>1
    <2>3. \/ got[1].at # 1
          \/ got[1].msg.form = "raw" /\ Len(got) >= got[1].msg.len
      BY <1>3, <1>4, <1>5, <2>2, <1>1 DEF Hopeless
    <2> HIDE DEF got
    <2>4. v = "retry"
      <3>1. CASE got[1].at # 1
        BY <1>2, <1>5, <3>1 DEF Decode
      <3>2. CASE got[1].at = 1 /\ got[1].msg.form = "raw"
                 /\ Len(got) >= got[1].msg.len
        <4>1. ~(Len(got) < got[1].msg.len)
          BY <1>1, <1>3, <1>4, <3>2
        <4>2. Decode(got) = CASE got[1].msg.form = "json" -> {"ok"}
                              [] got[1].msg.form = "text" -> {"json"}
                              [] got[1].msg.form = "raw"  -> {"retry"}
          BY <3>2, <4>1 DEF Decode
        <4> QED
          BY <1>2, <3>2, <4>2
      <3> QED
        BY <2>3, <3>1, <3>2
    <2>5. buf' = got /\ UNCHANGED results
      BY <1>2, <2>4
    <2> QED
      BY <2>3, <2>5 DEF Hopeless
  <1>6. CASE buf = <<>>
    <2>1. got[1] = stream[1] /\ 1 \in 1 .. Len(stream)
      <3>1. Len(buf) = 0
        BY <1>6
      <3> QED
        BY <1>1, <1>3, <3>1
    <2>2. got[1].msg.type = "Call" => got[1].msg.form = "json"
      BY <2>1 DEF WellWritten
    <2> HIDE DEF got
    <2>3. /\ v \in {"ok", "json", "retry", "garbage", "partial"}
          /\ v \in {"ok", "json"} => got[1].at = 1
          /\ v = "json" => got[1].msg.form = "text"
          /\ v = "retry" => \/ got[1].at # 1
                            \/ got[1].msg.form = "raw" /\ Len(got) >= got[1].msg.len
      <3>1. CASE got[1].at # 1
        <4>1. Decode(got) \subseteq {"garbage", "retry"}
          BY <3>1 DEF Decode
        <4>2. v \in {"garbage", "retry"}
          BY <1>2, <4>1
        <4> QED
          BY <3>1, <4>2
      <3>2. CASE got[1].at = 1 /\ Len(got) < got[1].msg.len
        BY <1>2, <3>2 DEF Decode
      <3>3. CASE got[1].at = 1 /\ ~(Len(got) < got[1].msg.len)
        <4>1. Decode(got) = CASE got[1].msg.form = "json" -> {"ok"}
                              [] got[1].msg.form = "text" -> {"json"}
                              [] got[1].msg.form = "raw"  -> {"retry"}
          BY <3>3 DEF Decode
        <4>2. got[1].msg.form \in {"json", "text", "raw"}
          BY <1>4 DEF Forms
        <4>3. Len(got) >= got[1].msg.len
          BY <1>1, <1>3, <1>4, <3>3
        <4> QED
          BY <1>2, <3>3, <4>1, <4>2, <4>3
      <3> QED
        BY <3>1, <3>2, <3>3
    <2>4. CASE v = "retry"
      <3>1. buf' = got /\ UNCHANGED results
        BY <1>2, <2>4
      <3> QED
        BY <2>3, <2>4, <3>1 DEF Hopeless
    <2>5. CASE v \in {"garbage", "partial"}
      <3>1. Return(v, 0) /\ v \in Kinds
        BY <1>2, <2>5 DEF Kinds
      <3> QED
        BY <1>3, <1>6, <3>1
    <2>6. CASE v = "json"
      <3>1. Return("json", got[1].msg.of) /\ "json" \in Kinds
        BY <1>2, <2>6 DEF Kinds
      <3>2. Final(stream[1]) /\ got[1].msg.of = stream[1].msg.of
        BY <2>1, <2>2, <2>3, <2>6 DEF Final
      <3> QED
        BY <1>4, <1>6, <2>1, <3>1, <3>2
    <2>7. CASE v = "ok" /\ got[1].msg.type = "Call"
      BY <1>2, <2>7 DEF Handle, Hopeless
    <2>8. CASE v = "ok" /\ got[1].msg.type # "Call"
      <3>1. PICK kind \in {"ok", "serverError", "invalid"} : Return(kind, got[1].msg.of)
        BY <1>2, <1>4, <2>8 DEF Handle, Types
      <3>2. Final(stream[1]) /\ got[1].msg.of = stream[1].msg.of /\ kind \in Kinds
        BY <2>1, <2>3, <2>8 DEF Final, Kinds
      <3> QED
        BY <1>4, <1>6, <2>1, <3>1, <3>2
    <2> QED
      BY <2>3, <2>4, <2>5, <2>6, <2>7, <2>8
  <1> QED
    BY <1>5, <1>6

\* A step of the owner leaves the results and a hopeless buffer alone, or
\* returns an error of no message, or an answer that was next on stdout.
LEMMA ClientOutcome ==
  ASSUME TypeOK, Hopeless, WellWritten, Client
  PROVE  \/ UNCHANGED results /\ Hopeless'
         \/ \E kind \in Kinds, of \in 0 .. MaxRequests :
              /\ Return(kind, of)
              /\ \/ of = 0
                 \/ /\ \E c \in 1 .. ReadCap : Read(c)
                    /\ 1 \in 1 .. Len(stream) /\ Final(stream[1])
                    /\ of = stream[1].msg.of
  <1>1. 0 \in 0 .. MaxRequests
    BY TransportAssumption
  <1>2. CASE \E n \in 1 .. ReadCap : Read(n)
    BY <1>2, ReadOutcome
  <1>3. CASE \E kind \in Kinds : Return(kind, 0)
    BY <1>1, <1>3
  <1>4. CASE UNCHANGED <<results, buf>>
    BY <1>4 DEF Hopeless
  <1>5. \/ \E n \in 1 .. ReadCap : Read(n)
        \/ UNCHANGED <<results, buf>>
        \/ \E kind \in Kinds : Return(kind, 0)
    <2>1. {"io", "payload", "closed", "readError", "callback", "unknown"} \subseteq Kinds
      BY DEF Kinds
    <2>2. (\E m \in Methods : RegisterCallback(m)) \/ Close \/ Reap \/ Drop
            => UNCHANGED <<results, buf>>
      BY DEF RegisterCallback, Close, Reap, Drop
    <2>3. Request \/ CallbackSucceeds => UNCHANGED <<results, buf>> \/ Return("io", 0)
      BY DEF Request, CallbackSucceeds, Send
    <2>4. UnknownCallback => Return("io", 0) \/ Return("unknown", 0)
      BY DEF UnknownCallback, Send
    <2>5. /\ RejectPayload => Return("payload", 0)
          /\ ReadEof => Return("closed", 0)
          /\ ReadFails => Return("readError", 0)
          /\ CallbackFails => Return("callback", 0)
      BY DEF RejectPayload, ReadEof, ReadFails, CallbackFails
    <2> QED
      BY <2>1, <2>2, <2>3, <2>4, <2>5 DEF Client
  <1> QED
    BY <1>2, <1>3, <1>4, <1>5

\* A call returns a later answer than those before it, and leaves later ones.
LEMMA AnswersReturned ==
  ASSUME OrderInv, Client
  PROVE  AnswersInOrder' /\ Hopeless' /\ WellWritten' /\ AnswersAhead' /\ AcceptedLast'
  <1>1. UNCHANGED <<sstate, sreq, sout>>
    BY DEF Client, RegisterCallback, Request, RejectPayload, Read, ReadEof,
           ReadFails, CallbackSucceeds, CallbackFails, UnknownCallback, Close, Reap, Drop, server
  <1>2. PICK n \in Nat :
          /\ n <= Len(stream) /\ Len(stream') = Len(stream) - n
          /\ \A i \in 1 .. Len(stream') :
               stream'[i] = stream[n + i] /\ n + i \in 1 .. Len(stream)
          /\ (\E c \in 1 .. ReadCap : Read(c)) => n >= 1
    BY ReadsForward DEF OrderInv
  <1>3. /\ TypeOK /\ Hopeless /\ WellWritten /\ AnswersAhead /\ AcceptedLast
        /\ AnswersInOrder
    BY DEF OrderInv
  <1>4. /\ Len(results) \in Nat /\ Len(stream) \in Nat /\ Len(sout) \in Nat
        /\ sreq \in Nat
        /\ \A i \in 1 .. Len(results) : results[i].of \in Nat
        /\ \A i \in 1 .. Len(stream) : stream[i].msg \in Message
        /\ \A i \in 1 .. Len(sout) : sout[i].msg \in Message
    BY <1>3, Numbers
  <1>5. \A m \in Message : m.of \in Nat /\ m.of >= 1
    BY TransportAssumption DEF Message
  <1>o. /\ \A j \in 1 .. Len(stream') : 0 < stream'[j].msg.of
        /\ \A j \in 1 .. Len(sout) : 0 < sout[j].msg.of
    <2>1. \A j \in 1 .. Len(stream') : stream'[j].msg \in Message
      BY <1>2, <1>4
    <2> QED
      BY <1>4, <1>5, <2>1
  <1>6. WellWritten'
    BY <1>1, <1>2, <1>3 DEF WellWritten
  <1> DEFINE bound == IF sstate \in {"working", "awaiting"} THEN sreq ELSE sreq + 1
  <1>7. bound \in Nat /\ bound >= 1
    BY <1>3, <1>4 DEF TypeOK
  <1>8. /\ \A j \in 1 .. Len(stream) : Final(stream[j]) => stream[j].msg.of < bound
        /\ \A j \in 1 .. Len(sout) : Final(sout[j]) => sout[j].msg.of < bound
        /\ Late(bound)
    BY <1>3 DEF AcceptedLast, AnsweredBefore
  <1> HIDE DEF bound
  \* What is still to come is later than the answers before this step.
  <1>9. ASSUME NEW j \in 1 .. Len(stream'), Final(stream'[j])
        PROVE  /\ Late(stream'[j].msg.of) /\ stream'[j].msg.of < bound
               /\ \A i \in 1 .. j - 1 :
                    Final(stream'[i]) => stream'[i].msg.of < stream'[j].msg.of
    <2>1. stream'[j] = stream[n + j] /\ n + j \in 1 .. Len(stream)
      BY <1>2
    <2>2. \A i \in 1 .. j - 1 :
            stream'[i] = stream[n + i] /\ n + i \in 1 .. (n + j) - 1
      BY <1>2, <1>4
    <2> QED
      BY <1>3, <1>8, <1>9, <2>1, <2>2 DEF AnswersAhead
  <1>10. ASSUME NEW j \in 1 .. Len(sout), Final(sout[j])
         PROVE  /\ Late(sout[j].msg.of)
                /\ \A i \in 1 .. Len(stream') :
                     Final(stream'[i]) => stream'[i].msg.of < sout[j].msg.of
    BY <1>2, <1>3, <1>10 DEF AnswersAhead
  <1> DEFINE Later(k) == \A i \in 1 .. Len(results') : results'[i].of < k
  <1> HIDE DEF Later
  \* It is enough that it is later than the answer of this step, too.
  <1>11. ASSUME NEW of \in Nat, \A k \in Nat : Late(k) /\ of < k => Later(k),
                of < bound,
                \A j \in 1 .. Len(stream') : Final(stream'[j]) => of < stream'[j].msg.of,
                \A j \in 1 .. Len(sout) : Final(sout[j]) => of < sout[j].msg.of
         PROVE  AnswersAhead' /\ AcceptedLast'
    <2>1. ASSUME NEW j \in 1 .. Len(stream')
          PROVE  stream'[j].msg.of \in Nat
      BY <1>2, <1>4, <1>5
    <2>2. AnswersAhead'
      <3>1. \A j \in 1 .. Len(stream') : Final(stream'[j]) => Later(stream'[j].msg.of)
        BY <1>9, <1>11, <2>1
      <3>2. \A j \in 1 .. Len(sout) : Final(sout[j]) => Later(sout[j].msg.of)
        BY <1>4, <1>5, <1>10, <1>11
      <3> QED
        BY <1>1, <1>9, <1>10, <3>1, <3>2 DEF AnswersAhead, Final, Late, Later
    <2>3. bound' = bound /\ Later(bound)
      <3>1. bound' = bound
        BY <1>1 DEF bound
      <3> QED
        BY <1>7, <1>8, <1>11, <3>1
    <2>4. AnsweredBefore(bound)'
      BY <1>1, <1>8, <1>9, <2>3 DEF AnsweredBefore, Final, Late, Later
    <2> QED
      BY <2>2, <2>4 DEF AcceptedLast, bound
  <1>12. CASE UNCHANGED results /\ Hopeless'
    <2>1. \A k \in Nat : Late(k) /\ 0 < k => Later(k)
      BY <1>12 DEF Late, Later
    <2>2. AnswersAhead' /\ AcceptedLast'
      <3>1. 0 \in Nat /\ 0 < bound
        BY <1>7
      <3> QED
        BY <1>o, <1>11, <2>1, <3>1
    <2> QED
      BY <1>3, <1>6, <1>12, <2>2 DEF AnswersInOrder
  <1>13. ASSUME NEW kind \in Kinds, NEW of \in 0 .. MaxRequests, Return(kind, of),
                \/ of = 0
                \/ /\ \E c \in 1 .. ReadCap : Read(c)
                   /\ 1 \in 1 .. Len(stream) /\ Final(stream[1])
                   /\ of = stream[1].msg.of
         PROVE  AnswersInOrder' /\ Hopeless' /\ AnswersAhead' /\ AcceptedLast'
    <2>1. of \in Nat
      BY TransportAssumption
    <2>2. /\ Len(results') = Len(results) + 1
          /\ results'[Len(results) + 1] = [kind |-> kind, of |-> of]
          /\ \A i \in 1 .. Len(results) : results'[i] = results[i]
          /\ DOMAIN results = 1 .. Len(results) /\ DOMAIN results' = 1 .. Len(results')
      <3>1. /\ results \in Seq([kind : Kinds, of : 0 .. MaxRequests])
            /\ [kind |-> kind, of |-> of] \in [kind : Kinds, of : 0 .. MaxRequests]
        BY <1>3 DEF TypeOK
      <3>2. results' = Append(results, [kind |-> kind, of |-> of])
        BY <1>13 DEF Return
      <3> QED
        BY <3>1, <3>2, AppendProperties, LenProperties
    <2>l. \A j \in 1 .. Len(results') : j \in 1 .. Len(results) \/ j = Len(results) + 1
      <3>1. Len(results') = Len(results) + 1 /\ Len(results) \in Nat
        BY <1>4, <2>2
      <3> QED
        BY <3>1
    <2>3. \A k \in Nat : Late(k) /\ of < k => Later(k)
      BY <1>4, <2>1, <2>2 DEF Late, Later
    <2>4. /\ of < bound
          /\ \A j \in 1 .. Len(stream') : Final(stream'[j]) => of < stream'[j].msg.of
          /\ \A j \in 1 .. Len(sout) : Final(sout[j]) => of < sout[j].msg.of
      <3>1. CASE of = 0
        BY <1>o, <1>7, <3>1
      <3>2. CASE /\ \E c \in 1 .. ReadCap : Read(c)
                 /\ 1 \in 1 .. Len(stream) /\ Final(stream[1])
                 /\ of = stream[1].msg.of
        <4>1. n >= 1
          BY <1>2, <3>2
        <4>2. \A j \in 1 .. Len(stream') :
                /\ stream'[j] = stream[n + j] /\ n + j \in 1 .. Len(stream)
                /\ 1 \in 1 .. (n + j) - 1
          BY <1>2, <1>4, <4>1
        <4> QED
          BY <1>3, <1>8, <3>2, <4>2 DEF AnswersAhead
      <3> QED
        BY <1>13, <3>1, <3>2
    <2>5. of = 0 \/ Late(of)
      BY <1>3, <1>13 DEF AnswersAhead
    <2>6. AnswersInOrder'
      <3> SUFFICES ASSUME NEW i \in 1 .. Len(results'), NEW j \in 1 .. Len(results'), i < j,
                          results'[i].of # 0, results'[j].of # 0
                   PROVE  results'[i].of < results'[j].of
        BY <2>2 DEF AnswersInOrder
      <3>1. i \in 1 .. Len(results)
        BY <1>4, <2>2
      <3>2. CASE j \in 1 .. Len(results)
        <4>1. i \in DOMAIN results /\ j \in DOMAIN results
          BY <2>2, <3>1, <3>2
        <4>2. results'[i] = results[i] /\ results'[j] = results[j]
          BY <2>2, <3>1, <3>2
        <4> QED
          BY <1>3, <4>1, <4>2 DEF AnswersInOrder
      <3>3. CASE j = Len(results) + 1
        BY <2>2, <2>5, <3>1, <3>3 DEF Late
      <3> QED
        BY <2>l, <3>2, <3>3
    <2>7. Hopeless'
      BY <1>13 DEF Return, Hopeless
    <2> QED
      BY <1>11, <2>1, <2>3, <2>4, <2>6, <2>7
  <1> QED
    BY <1>3, <1>6, <1>12, <1>13, ClientOutcome

\* Requests are sent in the order of the calls.
LEMMA RequestsSent ==
  ASSUME TypeOK, RequestsAhead, Client
  PROVE  RequestsAhead'
  <1>1. UNCHANGED sreq
    BY DEF Client, RegisterCallback, Request, RejectPayload, Read, ReadEof,
           ReadFails, CallbackSucceeds, CallbackFails, UnknownCallback, Close, Reap, Drop, server
  <1>2. /\ Len(stdin) \in Nat /\ sreq \in Nat /\ LastSent \in Nat /\ Len(results) \in Nat
        /\ \A j \in 1 .. Len(stdin) : stdin[j].of \in Nat
    BY Numbers
  <1>3. \/ LastSent' \in Nat /\ LastSent <= LastSent' /\ UNCHANGED stdin
        \/ LastSent' \in Nat /\ LastSent <= LastSent'
           /\ \E type \in {"CallResponse", "CallError"} :
                stdin' = Append(stdin, [type |-> type, of |-> cur])
        \/ /\ LastSent' = LastSent + 1
           /\ stdin' = Append(stdin, [type |-> "Request", of |-> LastSent + 1])
    <2>1. ASSUME NEW kind, NEW of, Return(kind, of)
          PROVE  LastSent' \in Nat /\ LastSent <= LastSent'
      <3>1. Len(results') = Len(results) + 1 /\ phase' = "idle"
        BY <2>1, AppendProperties DEF Return, TypeOK
      <3> QED
        BY <1>2, <3>1 DEF LastSent
    <2>2. ASSUME UNCHANGED results,
                 phase \in {"reading", "calling"} <=> phase' \in {"reading", "calling"}
          PROVE  LastSent' \in Nat /\ LastSent <= LastSent'
      BY <1>2, <2>2 DEF LastSent
    <2>3. CASE Request
      <3>1. CASE sstate = "exited"
        BY <2>1, <2>3, <3>1 DEF Request, Send
      <3>2. CASE sstate # "exited"
        <4>1. /\ phase = "idle" /\ phase' = "reading" /\ UNCHANGED results
              /\ stdin' = Append(stdin, [type |-> "Request", of |-> cur])
          BY <2>3, <3>2 DEF Request, Send
        <4>2. LastSent = Len(results) /\ LastSent' = Len(results) + 1
          BY <1>2, <4>1 DEF LastSent
        <4> QED
          BY <4>1, <4>2 DEF cur
      <3> QED
        BY <3>1, <3>2
    <2>4. CASE RejectPayload \/ ReadEof \/ ReadFails \/ CallbackFails
      BY <2>1, <2>4 DEF RejectPayload, ReadEof, ReadFails, CallbackFails
    <2>5. CASE CallbackSucceeds
      BY <2>1, <2>2, <2>5 DEF CallbackSucceeds, Send
    <2>6. CASE UnknownCallback
      BY <2>1, <2>6 DEF UnknownCallback, Send
    <2>7. CASE \E n \in 1 .. ReadCap : Read(n)
      <3>1. PICK n \in 1 .. ReadCap : Read(n)
        BY <2>7
      <3> DEFINE got == buf \o SubSeq(stream, 1, n)
      <3>2. PICK v \in Decode(got) :
              CASE v = "ok"    -> Handle(got[1].msg)
                [] v = "json"  -> Return("json", got[1].msg.of)
                [] v = "retry" -> buf' = got /\ UNCHANGED <<phase, calling, results>>
                [] OTHER       -> Return(v, 0)
        BY <3>1 DEF Read
      <3>3. got[1].msg.type \in Types
        <4>1. n <= Len(stream)
          BY <3>1 DEF Read
        <4>2. got[1] \in Unit
          BY <4>1, ReadType
        <4> QED
          BY <4>2 DEF Unit, Message
      <3>4. UNCHANGED stdin /\ phase = "reading"
        BY <3>1 DEF Read
      <3> HIDE DEF got
      <3>5. \/ \E kind, of : Return(kind, of)
            \/ phase' \in {"reading", "calling"} /\ UNCHANGED results
        <4>1. CASE v = "ok"
          <5>1. Handle(got[1].msg)
            BY <3>2, <4>1
          <5> QED
            BY <3>3, <5>1 DEF Handle, Types
        <4>2. CASE v = "json"
          BY <3>2, <4>2
        <4>3. CASE v = "retry"
          BY <3>2, <3>4, <4>3
        <4>4. CASE v \notin {"ok", "json", "retry"}
          BY <3>2, <4>4
        <4> QED
          BY <4>1, <4>2, <4>3, <4>4
      <3> QED
        BY <2>1, <2>2, <3>4, <3>5
    <2>8. CASE (\E m \in Methods : RegisterCallback(m)) \/ Close \/ Reap \/ Drop
      BY <2>2, <2>8 DEF RegisterCallback, Close, Reap, Drop
    <2> QED
      BY <2>3, <2>4, <2>5, <2>6, <2>7, <2>8 DEF Client
  <1>4. ASSUME NEW type \in {"Request", "CallResponse", "CallError"}, NEW of \in Nat,
               stdin' = Append(stdin, [type |-> type, of |-> of])
        PROVE  /\ Len(stdin') = Len(stdin) + 1
               /\ \A j \in 1 .. Len(stdin) : stdin'[j] = stdin[j]
               /\ stdin'[Len(stdin) + 1] = [type |-> type, of |-> of]
    BY <1>4, AppendProperties DEF TypeOK
  <1>5. CASE LastSent' \in Nat /\ LastSent <= LastSent' /\ UNCHANGED stdin
    BY <1>1, <1>2, <1>5 DEF RequestsAhead
  <1>6. ASSUME NEW type \in {"Request", "CallResponse", "CallError"}, NEW of \in Nat,
               stdin' = Append(stdin, [type |-> type, of |-> of]),
               LastSent' \in Nat, LastSent <= LastSent',
               type = "Request" => of = LastSent + 1 /\ LastSent' = LastSent + 1
        PROVE  RequestsAhead'
    <2>1. sreq <= LastSent'
      BY <1>2, <1>6 DEF RequestsAhead
    <2> SUFFICES ASSUME NEW j \in 1 .. Len(stdin'), stdin'[j].type = "Request"
                 PROVE  /\ sreq < stdin'[j].of /\ stdin'[j].of <= LastSent'
                        /\ \A i \in 1 .. j - 1 :
                             stdin'[i].type = "Request" => stdin'[i].of < stdin'[j].of
      BY <1>1, <2>1 DEF RequestsAhead
    <2>2. CASE j \in 1 .. Len(stdin)
      <3>1. stdin'[j] = stdin[j] /\ \A i \in 1 .. j - 1 : stdin'[i] = stdin[i]
        BY <1>2, <1>4, <1>6, <2>2
      <3>2. /\ sreq < stdin[j].of /\ stdin[j].of <= LastSent
            /\ \A i \in 1 .. j - 1 :
                 stdin[i].type = "Request" => stdin[i].of < stdin[j].of
        BY <2>2, <3>1 DEF RequestsAhead
      <3> QED
        BY <1>2, <1>6, <2>2, <3>1, <3>2
    <2>3. CASE j = Len(stdin) + 1
      <3>1. stdin'[j] = [type |-> type, of |-> of]
        BY <1>4, <1>6, <2>3
      <3>2. of = LastSent + 1 /\ LastSent' = LastSent + 1
        BY <1>6, <3>1
      <3>3. \A i \in 1 .. j - 1 : i \in 1 .. Len(stdin) /\ stdin'[i] = stdin[i]
        BY <1>2, <1>4, <1>6, <2>3
      <3>4. sreq < of /\ \A i \in 1 .. Len(stdin) :
              stdin[i].type = "Request" => stdin[i].of < of
        BY <1>2, <3>2 DEF RequestsAhead
      <3> QED
        BY <1>2, <3>1, <3>2, <3>3, <3>4
    <2>4. j \in 1 .. Len(stdin) \/ j = Len(stdin) + 1
      BY <1>2, <1>4, <1>6
    <2> QED
      BY <2>2, <2>3, <2>4
  <1>7. cur \in Nat /\ LastSent + 1 \in Nat /\ LastSent <= LastSent + 1
    BY <1>2 DEF cur
  <1> QED
    BY <1>3, <1>5, <1>6, <1>7

\* Nothing has been asked or answered at the start.
LEMMA OrderInit == Init => OrderInv
  <1> SUFFICES ASSUME Init PROVE OrderInv
    OBVIOUS
  <1>1. TypeOK
    BY TypeInit
  <1>2. /\ 1 .. Len(results) = {} /\ 1 .. Len(stream) = {} /\ 1 .. Len(sout) = {}
        /\ 1 .. Len(stdin) = {} /\ DOMAIN results = {} /\ sreq = 0 /\ Len(results) = 0
    BY DEF Init
  <1>3. AnswersInOrder /\ WellWritten /\ AnswersAhead /\ AcceptedLast
    BY <1>2 DEF AnswersInOrder, WellWritten, AnswersAhead, AcceptedLast, AnsweredBefore,
                Late
  <1>4. Hopeless /\ RequestsAhead
    BY <1>2 DEF Init, Hopeless, RequestsAhead, LastSent
  <1> QED
    BY <1>1, <1>3, <1>4 DEF OrderInv

\* Every step keeps the order.
LEMMA OrderStep == OrderInv /\ [Next]_vars => OrderInv'
  <1> SUFFICES ASSUME OrderInv, [Next]_vars PROVE OrderInv'
    OBVIOUS
  <1>1. CASE UNCHANGED vars
    BY <1>1
       DEF vars, client, server, OrderInv, TypeOK, AnswersInOrder, Hopeless, WellWritten,
           AnswersAhead, AcceptedLast, AnsweredBefore, RequestsAhead, LastSent, Late,
           Final
  <1>2. CASE Client
    <2>1. TypeOK' /\ RequestsAhead'
      BY <1>2, ClientType, RequestsSent DEF OrderInv
    <2> QED
      BY <1>2, <2>1, AnswersReturned DEF OrderInv
  <1>3. CASE Server
    <2>1. TypeOK' /\ RequestsAhead' /\ WellWritten' /\ AnswersAhead' /\ AcceptedLast'
      BY <1>3, ServerType, RequestsRead, AnswersWritten DEF OrderInv
    <2>2. UNCHANGED <<results, buf>>
      BY <1>3 DEF Server, Accept, Answer, CallBack, TakeReply, Interrupted, Refuse,
             WriteUnit, Log, Die, SeeEof, Exit, client
    <2>3. AnswersInOrder' /\ Hopeless'
      BY <2>2 DEF OrderInv, AnswersInOrder, Hopeless
    <2> QED
      BY <2>1, <2>3 DEF OrderInv
  <1> QED
    BY <1>1, <1>2, <1>3 DEF Next

\* What is still under way is later than what was answered, at every stage
\* between the child's main loop and the results of request, and whatever was
\* lost in between (transport.rs, request and read_message).
THEOREM InOrder == Spec => []OrderInv
  BY OrderInit, OrderStep, PTL DEF Spec

\* No answer reaches two calls, and answers reach the calls in the order in
\* which the requests were sent, even after calls that left the child in the
\* middle of an exchange (transport.rs, request).
THEOREM AnswersKeepOrder == Spec => []AnswersInOrder
  <1>1. OrderInv => AnswersInOrder
    BY DEF OrderInv
  <1> QED
    BY <1>1, InOrder, PTL

\* A call of request that has begun to retry ends only when stdout does or
\* cannot be read: what read_message keeps in its buffer can never be decoded.
THEOREM RetriesAreVain == Spec => RetryNeverAnswers
  <1> DEFINE Vain == {"closed", "readError"}
  <1>1. ASSUME OrderInv, [Next]_vars, buf # <<>>, results' # results
        PROVE  results'[cur].kind \in Vain
    <2>1. phase = "reading" /\ TypeOK /\ Hopeless /\ WellWritten
      BY <1>1 DEF OrderInv, TypeOK
    <2>2. ReadEof \/ ReadFails
      <3>1. ~ \E n \in 1 .. ReadCap : Read(n)
        BY <1>1, <2>1, ReadOutcome
      <3>2. ~ (Server \/ UNCHANGED vars)
        BY <1>1 DEF Server, Accept, Answer, CallBack, TakeReply, Interrupted, Refuse,
               WriteUnit, Log, Die, SeeEof, Exit, client, vars
      <3> QED
        BY <1>1, <2>1, <3>1, <3>2
           DEF Next, Client, RegisterCallback, Request, RejectPayload, CallbackSucceeds,
               CallbackFails, UnknownCallback, Close, Reap, Drop
    <2>3. PICK kind \in Vain : results' = Append(results, [kind |-> kind, of |-> 0])
      BY <2>2 DEF ReadEof, ReadFails, Return
    <2>4. results'[Len(results) + 1] = [kind |-> kind, of |-> 0]
      <3>1. [kind |-> kind, of |-> 0] \in [kind : Kinds, of : 0 .. MaxRequests]
        BY TransportAssumption DEF Kinds
      <3> QED
        BY <2>1, <2>3, <3>1, AppendProperties DEF TypeOK
    <2> QED
      BY <2>4 DEF cur
  <1>2. OrderInv /\ [Next]_vars
          => [buf # <<>> /\ results' # results => results'[cur].kind \in Vain]_vars
    BY <1>1
  <1> QED
    BY <1>2, InOrder, PTL DEF Spec, RetryNeverAnswers
=============================================================================
