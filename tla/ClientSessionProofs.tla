------------------------- MODULE ClientSessionProofs -------------------------
(***************************************************************************)
(* What holds of ClientSession for every set of threads, every number of   *)
(* calls and every set of callbacks: the invariants of its two components, *)
(* proved in TransportClientProofs and TsgoTransportProofs, hold of the    *)
(* composition, and from them that a thread's call returns the child's     *)
(* answer to the request sent for it.                                      *)
(***************************************************************************)
EXTENDS ClientSession, SequenceTheorems, TLAPS

CP == INSTANCE TransportClientProofs
TP == INSTANCE TsgoTransportProofs

-----------------------------------------------------------------------------
(* The components of the proofs are those of the composition.              *)

\* The values of the client.
LEMMA SameValues ==
  /\ CP!Owners = C!Owners /\ CP!Commands = C!Commands /\ CP!Result = C!Result
  /\ CP!Shutdown = C!Shutdown /\ CP!None = C!None
  /\ CP!Empty = C!Empty /\ CP!Dropped = C!Dropped
  /\ \A t, n : CP!Cmd(t, n) = C!Cmd(t, n)
  BY DEF CP!Owners, C!Owners, CP!Commands, C!Commands, CP!Result, C!Result,
         CP!Shutdown, C!Shutdown, CP!None, C!None, CP!Empty, C!Empty,
         CP!Dropped, C!Dropped, CP!Cmd, C!Cmd

\* The steps of the client.
LEMMA SameClient ==
  /\ C!Init => CP!Init
  /\ \A t \in Threads : C!Request(t) \/ C!Receive(t) \/ C!ClientClose(t) => CP!Next
  /\ \A t \in Threads, o \in C!Owners : C!Share(t, o) => CP!Next
  /\ \A o \in C!Owners : C!DropHandle(o) => CP!Next
  /\ C!Take \/ C!Finish \/ C!Disconnect \/ C!Panic \/ C!Unwind => CP!Next
  <1> USE DEF CP!vars, C!vars, CP!user, C!user
  <1>1. C!Init => CP!Init
    BY SameValues DEF C!Init, CP!Init
  <1>2. ASSUME NEW t \in Threads, C!Request(t)
        PROVE  CP!Request(t)
    BY <1>2, SameValues DEF C!Request, CP!Request, C!Connected, CP!Connected, C!Returns, CP!Returns
  <1>3. ASSUME NEW t \in Threads, C!Receive(t)
        PROVE  CP!Receive(t)
    BY <1>3, SameValues DEF C!Receive, CP!Receive, C!Returns, CP!Returns
  <1>4. ASSUME NEW t \in Threads, C!ClientClose(t)
        PROVE  CP!ClientClose(t)
    BY <1>4, SameValues DEF C!ClientClose, CP!ClientClose, C!Close, CP!Close, C!Connected, CP!Connected
  <1>5. ASSUME NEW t \in Threads, NEW o \in C!Owners, C!Share(t, o)
        PROVE  CP!Share(t, o) /\ o \in CP!Owners
    BY <1>5, SameValues DEF C!Share, CP!Share
  <1>6. ASSUME NEW o \in C!Owners, C!DropHandle(o)
        PROVE  CP!DropHandle(o) /\ o \in CP!Owners
    BY <1>6, SameValues DEF C!DropHandle, CP!DropHandle
  <1>7. C!Take => CP!Take
    BY SameValues DEF C!Take, CP!Take
  <1>8. C!Finish => CP!Finish
    BY SameValues DEF C!Finish, CP!Finish
  <1>9. C!Panic => CP!Panic
    BY SameValues DEF C!Panic, CP!Panic, C!DropSenders, CP!DropSenders
  <1>10. C!Disconnect => CP!Disconnect
    BY SameValues DEF C!Disconnect, CP!Disconnect, C!ExitWorker, CP!ExitWorker,
           C!DropSenders, CP!DropSenders, C!Range, CP!Range
  <1>11. C!Unwind => CP!Unwind
    BY SameValues DEF C!Unwind, CP!Unwind, C!ExitWorker, CP!ExitWorker,
           C!DropSenders, CP!DropSenders, C!Range, CP!Range
  <1> QED
    BY <1>1, <1>2, <1>3, <1>4, <1>5, <1>6, <1>7, <1>8, <1>9, <1>10, <1>11, SameValues
       DEF CP!Next

\* The values of the transport.
LEMMA SameMessages ==
  /\ TP!Message = T!Message /\ TP!Unit = T!Unit /\ TP!Sent = T!Sent
  /\ TP!Kinds = T!Kinds /\ TP!Desync = T!Desync /\ TP!cur = T!cur
  /\ \A m : TP!Units(m) = T!Units(m)
  /\ \A b : TP!Decode(b) = T!Decode(b)
  /\ \A kind, of : T!Return(kind, of) => TP!Return(kind, of)
  BY DEF TP!Message, T!Message, TP!Unit, T!Unit, TP!Sent, T!Sent, TP!Types, T!Types,
         TP!Forms, T!Forms, TP!Kinds, T!Kinds, TP!Desync, T!Desync, TP!cur, T!cur,
         TP!Units, T!Units, TP!Decode, T!Decode, TP!Return, T!Return

\* The steps of the transport.
LEMMA SameTransport ==
  /\ T!Init => TP!Init
  /\ \A m \in Methods : T!RegisterCallback(m) => TP!Client
  /\ \A n \in 1 .. ReadCap : T!Read(n) => TP!Client
  /\ T!Request \/ T!RejectPayload \/ T!ReadEof \/ T!ReadFails => TP!Client
  /\ T!CallbackSucceeds \/ T!CallbackFails \/ T!UnknownCallback \/ T!Drop => TP!Client
  /\ T!Accept \/ T!Answer \/ T!CallBack \/ T!TakeReply \/ T!Interrupted => TP!Server
  /\ T!Refuse \/ T!WriteUnit \/ T!Log \/ T!Die \/ T!SeeEof => TP!Server
  <1> USE DEF TP!vars, T!vars, TP!client, T!client, TP!server, T!server
  <1>1. T!Init => TP!Init
    BY DEF T!Init, TP!Init
  <1>2. ASSUME NEW m \in Methods, T!RegisterCallback(m)
        PROVE  TP!RegisterCallback(m)
    BY <1>2 DEF T!RegisterCallback, TP!RegisterCallback
  <1>3. ASSUME NEW n \in 1 .. ReadCap, T!Read(n)
        PROVE  TP!Read(n)
    BY <1>3 DEF T!Read, TP!Read, T!Decode, TP!Decode, T!Handle, TP!Handle, T!Return, TP!Return
  <1>4. T!Request => TP!Request
    BY DEF T!Request, TP!Request, T!Send, TP!Send, T!Return, TP!Return, T!cur, TP!cur
  <1>5. T!RejectPayload => TP!RejectPayload
    BY DEF T!RejectPayload, TP!RejectPayload, T!Return, TP!Return
  <1>6. (T!ReadEof => TP!ReadEof) /\ (T!ReadFails => TP!ReadFails)
    BY DEF T!ReadEof, TP!ReadEof, T!ReadFails, TP!ReadFails, T!Return, TP!Return
  <1>7. T!CallbackSucceeds => TP!CallbackSucceeds
    BY DEF T!CallbackSucceeds, TP!CallbackSucceeds, T!Send, TP!Send, T!Return, TP!Return,
           T!cur, TP!cur
  <1>8. T!CallbackFails => TP!CallbackFails
    BY DEF T!CallbackFails, TP!CallbackFails, T!Return, TP!Return
  <1>9. T!UnknownCallback => TP!UnknownCallback
    BY DEF T!UnknownCallback, TP!UnknownCallback, T!Send, TP!Send, T!Return, TP!Return,
           T!cur, TP!cur
  <1>10. T!Drop => TP!Drop
    BY DEF T!Drop, TP!Drop
  <1>11. T!Accept => TP!Accept
    BY DEF T!Accept, TP!Accept, T!Reads, TP!Reads
  <1>12. T!Answer => TP!Answer
    BY DEF T!Answer, TP!Answer, T!Writes, TP!Writes, T!Units, TP!Units
  <1>13. T!CallBack => TP!CallBack
    BY DEF T!CallBack, TP!CallBack, T!Writes, TP!Writes, T!Units, TP!Units
  <1>14. T!TakeReply => TP!TakeReply
    BY DEF T!TakeReply, TP!TakeReply, T!Reads, TP!Reads
  <1>15. T!Interrupted => TP!Interrupted
    BY DEF T!Interrupted, TP!Interrupted, T!Reads, TP!Reads, T!Writes, TP!Writes,
           T!Units, TP!Units
  <1>16. T!Refuse => TP!Refuse
    BY DEF T!Refuse, TP!Refuse, T!Reads, TP!Reads
  <1>17. T!WriteUnit => TP!WriteUnit
    BY DEF T!WriteUnit, TP!WriteUnit
  <1>18. T!Log => TP!Log
    BY DEF T!Log, TP!Log
  <1>19. T!Die => TP!Die
    BY DEF T!Die, TP!Die, T!Exit, TP!Exit
  <1>20. T!SeeEof => TP!SeeEof
    BY DEF T!SeeEof, TP!SeeEof, T!Exit, TP!Exit, T!StdinDropped, TP!StdinDropped
  <1> QED
    BY <1>1, <1>2, <1>3, <1>4, <1>5, <1>6, <1>7, <1>8, <1>9, <1>10, <1>11, <1>12, <1>13,
       <1>14, <1>15, <1>16, <1>17, <1>18, <1>19, <1>20 DEF TP!Client, TP!Server

-----------------------------------------------------------------------------
(* The inductive invariant.                                                *)

\* The transport keeps its invariant until it is dropped, perhaps in the middle
\* of an exchange, and what a successful call returned is of some request.
TransportInv ==
  /\ TP!TypeOK /\ TP!OwnAnswer
  /\ phase # "dropped" => TP!LockstepInv
  /\ \A k \in 1 .. Len(results) : results[k].kind = "ok" => results[k].of # 0

\* Where the client and the transport are together.
Stages ==
  /\ stage \in {"new", "configuring", "ready", "stuck", "failed"}
  /\ worker \in {"waiting", "busy", "unwinding", "exited"}
  /\ phase \in {"idle", "reading", "calling", "dropped"}
  /\ phase \in {"reading", "calling"} =>
       stage = "configuring" \/ worker \in {"busy", "unwinding"}
  /\ phase = "dropped" <=> stage = "failed" \/ worker = "exited"
  /\ worker # "waiting" => stage \in {"ready", "stuck"}
  /\ stage = "new" => phase = "idle"
  /\ stage = "stuck" => worker = "busy"

\* The registry owns a handle as long as anybody does, so nobody closes.
NeverClosed ==
  /\ handles # {} => registry \in handles
  /\ \A i \in 1 .. Len(queue) : queue[i] # C!Shutdown

\* The transport's k-th request is of the k-th command taken, after configure.
AskedInOrder ==
  /\ asked \in Seq(C!Commands \cup {Configuration})
  /\ Len(results) <= Len(asked)
  /\ phase = "idle" => Len(asked) = Len(results)
  /\ phase \in {"reading", "calling"} => Len(asked) = Len(results) + 1
  /\ worker = "busy" => Len(asked) >= 1 /\ asked[Len(asked)] = serving

\* The child has answered the request that the worker sent for command c.
Answered(c) ==
  \E k \in 1 .. Len(results) :
    /\ k <= Len(asked) /\ asked[k] = c /\ results[k].kind = "ok"
    /\ results[k].of = k \/ \E j \in 1 .. k - 1 : results[j].kind \in T!Desync

\* A thread has or had only replies to commands that were answered.
RepliesAreAnswers ==
  \A t \in Threads :
    /\ pc[t] = "receiving" /\ reply[t].kind = "ok" => Answered(C!Cmd(t, calls[t]))
    /\ \A n \in 1 .. Len(returned[t]) :
         returned[t][n].kind = "ok" => Answered(C!Cmd(t, n))

\* The child calls only callbacks that are registered.
Named(u) == u.msg.type = "Call" => u.msg.method \in CallbackNames
CallsAreNamed ==
  /\ hasFs \in BOOLEAN
  /\ stage # "new" => CallbackNames \subseteq callbacks
  /\ stage = "new" =>
       /\ stdin = <<>> /\ stream = <<>> /\ sout = <<>> /\ results = <<>>
       /\ sstate \notin {"working", "awaiting"}
  /\ \A i \in 1 .. Len(buf) : Named(buf[i])
  /\ \A i \in 1 .. Len(stream) : Named(stream[i])
  /\ \A i \in 1 .. Len(sout) : Named(sout[i])
  /\ phase = "calling" => calling \in CallbackNames
  /\ \A k \in 1 .. Len(results) : results[k].kind # "unknown"

SessionInv ==
  /\ CP!ClientInv /\ TransportInv
  /\ Stages /\ NeverClosed /\ AskedInOrder /\ RepliesAreAnswers /\ CallsAreNamed

-----------------------------------------------------------------------------
(* The composition, seen from the client and from the transport.           *)

\* A call that is being served goes on, or returns.
Proceeds ==
  \/ /\ phase \in {"reading", "calling"} /\ phase' \in {"reading", "calling"}
     /\ results' = results
  \/ /\ phase \in {"reading", "calling"}
     /\ \E kind \in T!Kinds, of \in 0 .. MaxRequests :
          /\ T!Return(kind, of) /\ (kind = "ok" => of # 0)
          /\ kind = "unknown" => phase = "calling" /\ calling \notin callbacks

\* Every step is one of the client or leaves it alone.
LEMMA ClientPart == [Next]_vars => CP!Next \/ UNCHANGED clientVars
  <1> SUFFICES ASSUME Next PROVE CP!Next \/ UNCHANGED clientVars
    BY DEF vars
  <1>1. ASSUME NEW t \in Threads, Call(t) \/ Receive(t) \/ Close(t)
        PROVE  CP!Next
    BY <1>1, SameClient DEF Call, Receive, Close, Client
  <1>2. ASSUME NEW t \in Threads, NEW o \in Threads \cup {fs}, Share(t, o)
        PROVE  CP!Next
    <2>1. o \in C!Owners
      BY DEF C!Owners, Objects
    <2> QED
      BY <1>2, <2>1, SameClient DEF Share, Client
  <1>3. ASSUME NEW o \in C!Owners, DropHandle(o)
        PROVE  CP!Next
    BY <1>3, SameClient DEF DropHandle, Client
  <1>4. Serve \/ Reply \/ Panic \/ Unwind \/ Disconnect => CP!Next
    BY SameClient DEF Serve, Reply, Panic, Unwind, Disconnect
  <1>5. (\E m \in Methods : Register(m)) \/ Configure \/ Spawn \/ Fail \/ Reenter
          => UNCHANGED clientVars
    BY DEF Register, Configure, Spawn, Fail, Reenter, Transport
  <1>6. Read \/ ReadEof \/ ReadFails \/ HandleCallback \/ Child => UNCHANGED clientVars
    BY DEF Read, ReadEof, ReadFails, HandleCallback, Child, Transport
  <1> QED
    BY <1>1, <1>2, <1>3, <1>4, <1>5, <1>6 DEF Next

\* So the client keeps its invariant.
LEMMA ClientKept ==
  ASSUME CP!ClientInv, [Next]_vars
  PROVE  CP!ClientInv'
  <1>1. UNCHANGED clientVars => UNCHANGED CP!vars
    BY DEF clientVars, CP!vars, CP!user
  <1>2. CP!ClientAssumption
    BY ComponentAssumption
       DEF C!ClientAssumption, CP!ClientAssumption, C!IsFiniteSet, CP!IsFiniteSet
  <1>3. CP!ClientInv /\ [CP!Next]_CP!vars => CP!ClientInv'
    BY <1>2, CP!ClientStep
  <1>4. [CP!Next]_CP!vars
    BY <1>1, ClientPart
  <1> QED
    BY <1>3, <1>4

\* What the proofs about the transport assume of its constants.
LEMMA TransportConstants ==
  /\ TP!TransportAssumption
  /\ MaxRequests \in Nat /\ MaxLen \in Nat \ {0} /\ ReadCap \in Nat \ {0}
  /\ Answers \subseteq [type : T!Types \ {"Call"}, form : T!Forms]
  /\ NoMethod \notin Methods
  BY ComponentAssumption
     DEF T!TransportAssumption, TP!TransportAssumption, T!Types, TP!Types, T!Forms, TP!Forms

\* A read goes on with the call or ends it, and hands on what the child wrote.
LEMMA ReadEffect ==
  ASSUME TP!TypeOK, NEW n \in 1 .. ReadCap, T!Read(n), UNCHANGED hasFs,
         \A i \in 1 .. Len(buf) : Named(buf[i]),
         \A i \in 1 .. Len(stream) : Named(stream[i])
  PROVE  /\ Proceeds
         /\ \A i \in 1 .. Len(buf') : Named(buf'[i])
         /\ \A i \in 1 .. Len(stream') : Named(stream'[i])
         /\ phase' = "calling" => calling' \in CallbackNames
  <1> DEFINE got == buf \o SubSeq(stream, 1, n)
             rest == SubSeq(stream, n + 1, Len(stream))
  <1>1. /\ phase = "reading" /\ n <= Len(stream) /\ UNCHANGED hasFs
        /\ stream' = rest
    BY DEF T!Read
  <1>2. /\ got \in Seq(T!Unit) /\ Len(got) = Len(buf) + n
        /\ \A i \in 1 .. Len(got) :
             got[i] = IF i <= Len(buf) THEN buf[i] ELSE stream[i - Len(buf)]
        /\ got[1] \in T!Unit
        /\ Len(rest) = Len(stream) - n
        /\ \A i \in 1 .. Len(stream) - n : rest[i] = stream[n + i]
    BY <1>1, TransportConstants, TP!ReadType, SameMessages
  <1>3. PICK v \in T!Decode(got) :
          CASE v = "ok"    -> T!Handle(got[1].msg)
            [] v = "json"  -> T!Return("json", got[1].msg.of)
            [] v = "retry" -> buf' = got /\ UNCHANGED <<phase, calling, results>>
            [] OTHER       -> T!Return(v, 0)
    BY DEF T!Read
  <1>4. /\ Len(buf) \in Nat /\ Len(stream) \in Nat /\ n \in Nat /\ n >= 1
        /\ 0 \in 0 .. MaxRequests
    BY <1>1, TransportConstants, LenProperties, SameMessages DEF TP!TypeOK
  <1>5. \A i \in 1 .. Len(stream') : Named(stream'[i])
    <2>1. \A i \in 1 .. Len(rest) : Named(rest[i])
      <3> SUFFICES ASSUME NEW i \in 1 .. Len(rest) PROVE Named(rest[i])
        OBVIOUS
      <3>1. i \in 1 .. Len(stream) - n /\ n + i \in 1 .. Len(stream)
        BY <1>1, <1>2, <1>4
      <3>2. rest[i] = stream[n + i] /\ Named(stream[n + i])
        BY <1>2, <3>1
      <3> QED
        BY <3>2
    <2> QED
      BY <1>1, <2>1 DEF Named
  <1>6. \A i \in 1 .. Len(got) : Named(got[i])
    <2> SUFFICES ASSUME NEW i \in 1 .. Len(got) PROVE Named(got[i])
      OBVIOUS
    <2>1. CASE i <= Len(buf)
      BY <1>2, <1>4, <2>1
    <2>2. CASE ~(i <= Len(buf))
      <3>1. i - Len(buf) \in 1 .. Len(stream) /\ got[i] = stream[i - Len(buf)]
        BY <1>1, <1>2, <1>4, <2>2
      <3> QED
        BY <3>1
    <2> QED
      BY <2>1, <2>2
  <1>7. /\ got[1].msg \in T!Message /\ got[1].msg.type \in T!Types
        /\ got[1].msg.of \in 1 .. MaxRequests
        /\ got[1].msg.type = "Call" => got[1].msg.method \in CallbackNames
    <2>1. 1 \in 1 .. Len(got)
      BY <1>2, <1>4
    <2> QED
      BY <1>2, <1>6, <2>1 DEF T!Unit, T!Message, Named
  <1>8. got[1].msg.of \in 0 .. MaxRequests /\ got[1].msg.of # 0
    BY <1>7, TransportConstants
  <1> HIDE DEF got, rest
  <1>9. CASE v = "retry"
    <2>1. buf' = got /\ UNCHANGED <<phase, calling, results>>
      BY <1>3, <1>9
    <2>2. \A i \in 1 .. Len(buf') : Named(buf'[i])
      BY <1>6, <2>1 DEF Named
    <2> QED
      BY <1>1, <1>5, <2>1, <2>2 DEF Proceeds
  <1>10. ASSUME NEW kind \in T!Kinds, NEW of \in 0 .. MaxRequests, T!Return(kind, of),
                kind = "ok" => of # 0, kind # "unknown"
         PROVE  Proceeds /\ Len(buf') = 0 /\ phase' = "idle"
    <2>1. buf' = <<>> /\ phase' = "idle"
      BY <1>10 DEF T!Return
    <2>2. Proceeds
      BY <1>1, <1>10 DEF Proceeds
    <2> QED
      BY <2>1, <2>2
  <1>11. CASE v = "ok" /\ got[1].msg.type = "Call"
    <2>1. /\ phase' = "calling" /\ calling' = got[1].msg.method /\ buf' = <<>>
          /\ UNCHANGED results
      BY <1>3, <1>11 DEF T!Handle
    <2>2. Len(buf') = 0 /\ Proceeds
      BY <1>1, <2>1 DEF Proceeds
    <2> QED
      BY <1>5, <1>7, <1>11, <2>1, <2>2
  <1>12. CASE v = "ok" /\ got[1].msg.type # "Call"
    <2>1. PICK kind \in {"ok", "serverError", "invalid"} : T!Return(kind, got[1].msg.of)
      BY <1>3, <1>7, <1>12 DEF T!Handle, T!Types
    <2>2. /\ kind \in T!Kinds /\ kind # "unknown" /\ got[1].msg.of \in 0 .. MaxRequests
          /\ got[1].msg.of # 0
      BY <1>8 DEF T!Kinds
    <2> QED
      BY <1>5, <1>10, <2>1, <2>2
  <1>13. CASE v = "json"
    <2>1. T!Return("json", got[1].msg.of) /\ "json" \in T!Kinds
      BY <1>3, <1>13 DEF T!Kinds
    <2> QED
      BY <1>5, <1>8, <1>10, <2>1
  <1>14. CASE v \in {"garbage", "partial"}
    <2>1. T!Return(v, 0) /\ v \in T!Kinds
      BY <1>3, <1>14 DEF T!Kinds
    <2> QED
      BY <1>4, <1>5, <1>10, <1>14, <2>1
  <1>15. v \in {"ok", "json", "retry", "garbage", "partial"}
    <2>1. got[1].msg.form \in {"json", "text", "raw"}
      BY <1>7 DEF T!Message, T!Forms
    <2>2. T!Decode(got) \subseteq {"ok", "json", "retry", "garbage", "partial"}
      BY <2>1 DEF T!Decode
    <2> QED
      BY <2>2
  <1> QED
    BY <1>9, <1>11, <1>12, <1>13, <1>14, <1>15

\* The other handlers of a call: they write or return, and read nothing.
LEMMA CallEffect ==
  ASSUME TP!TypeOK,
         T!ReadEof \/ T!ReadFails \/ T!CallbackSucceeds \/ T!CallbackFails \/ T!UnknownCallback
  PROVE  /\ Proceeds /\ UNCHANGED stream
         /\ phase' # "calling" /\ buf' \in {buf, <<>>}
  <1>1. /\ {"closed", "readError", "io", "callback", "unknown"} \subseteq T!Kinds
        /\ 0 \in 0 .. MaxRequests
    BY TransportConstants DEF T!Kinds
  <1>2. CASE T!ReadEof \/ T!ReadFails
    BY <1>1, <1>2 DEF T!ReadEof, T!ReadFails, Proceeds, T!Return
  <1>3. CASE T!CallbackSucceeds
    BY <1>1, <1>3 DEF T!CallbackSucceeds, T!Send, Proceeds, T!Return
  <1>4. CASE T!CallbackFails
    BY <1>1, <1>4 DEF T!CallbackFails, Proceeds, T!Return
  <1>5. CASE T!UnknownCallback
    BY <1>1, <1>5 DEF T!UnknownCallback, T!Send, Proceeds, T!Return
  <1> QED
    BY <1>2, <1>3, <1>4, <1>5

\* A request that goes out is under way, or returns at once without an answer.
LEMMA StartEffect ==
  ASSUME T!Request \/ T!RejectPayload
  PROVE  /\ phase = "idle" /\ UNCHANGED <<callbacks, stream, sstate, sreq, sout>>
         /\ \/ phase' = "reading" /\ results' = results /\ buf' = buf
            \/ \E kind \in {"io", "payload"} : T!Return(kind, 0)
  BY DEF T!Request, T!RejectPayload, T!Send, T!Return, T!server

\* A message's units call what the message calls.
LEMMA NamedUnits ==
  ASSUME NEW m \in T!Message, m.type = "Call" => m.method \in CallbackNames
  PROVE  \A i \in 1 .. Len(T!Units(m)) : Named(T!Units(m)[i])
  <1>1. /\ T!Units(m) \in Seq(T!Unit)
        /\ \A i \in DOMAIN T!Units(m) : T!Units(m)[i].msg = m
    BY TransportConstants, TP!UnitsType, SameMessages
  <1>2. DOMAIN T!Units(m) = 1 .. Len(T!Units(m))
    BY <1>1, LenProperties
  <1> QED
    BY <1>1, <1>2 DEF Named

\* The child writes no callback that is not registered, and before configure
\* it has nothing to work on.
LEMMA ChildEffect ==
  ASSUME TP!TypeOK, CallsAreNamed, Child
  PROVE  /\ UNCHANGED <<clientVars, phase, callbacks, buf, calling, results,
                        stage, hasFs, asked>>
         /\ \A i \in 1 .. Len(stream') : Named(stream'[i])
         /\ \A i \in 1 .. Len(sout') : Named(sout'[i])
         /\ stage = "new" =>
              /\ stdin' = <<>> /\ stream' = <<>> /\ sout' = <<>>
              /\ sstate' \notin {"working", "awaiting"}
  <1>1. UNCHANGED <<clientVars, phase, callbacks, buf, calling, results,
                    stage, hasFs, asked>>
    BY DEF Child, CallBack, Transport, T!Accept, T!Answer, T!CallBack, T!TakeReply,
           T!Interrupted, T!Refuse, T!WriteUnit, T!Log, T!Die, T!SeeEof, T!Exit, T!client
  <1>2. stage = "new" =>
          /\ stdin' = <<>> /\ stream' = <<>> /\ sout' = <<>>
          /\ sstate' \notin {"working", "awaiting"}
    BY DEF Child, CallBack, Transport, T!Accept, T!Answer, T!CallBack, T!TakeReply,
           T!Interrupted, T!Refuse, T!WriteUnit, T!Log, T!Die, T!SeeEof, T!Exit,
           T!Reads, CallsAreNamed
  <1>3. /\ \A i \in 1 .. Len(stream) : Named(stream[i])
        /\ \A i \in 1 .. Len(sout) : Named(sout[i])
    BY DEF CallsAreNamed
  <1>4. /\ sreq \in 0 .. MaxRequests /\ (sstate \in {"working", "awaiting"} => sreq # 0)
        /\ stream \in Seq(T!Unit) /\ sout \in Seq(T!Unit)
    BY SameMessages DEF TP!TypeOK
  <1>5. CASE T!Answer
    <2>1. PICK a \in Answers, l \in 1 .. MaxLen :
            sout' = T!Units([type |-> a.type, form |-> a.form, of |-> sreq,
                             method |-> NoMethod, len |-> l])
      BY <1>5 DEF T!Answer, T!Writes
    <2> DEFINE m == [type |-> a.type, form |-> a.form, of |-> sreq,
                     method |-> NoMethod, len |-> l]
    <2>2. m \in T!Message /\ m.type # "Call"
      BY <1>4, <1>5, TransportConstants DEF T!Answer, T!Message
    <2>3. \A i \in 1 .. Len(sout') : Named(sout'[i])
      BY <2>1, <2>2, NamedUnits
    <2> QED
      BY <1>1, <1>2, <1>3, <1>5, <2>3 DEF T!Answer
  <1>6. CASE CallBack
    <2>1. PICK c \in Methods, l \in 1 .. MaxLen :
            sout' = T!Units([type |-> "Call", form |-> "json", of |-> sreq,
                             method |-> c, len |-> l])
      BY <1>6 DEF CallBack, T!CallBack, T!Writes
    <2> DEFINE m == [type |-> "Call", form |-> "json", of |-> sreq,
                     method |-> c, len |-> l]
    <2>2. m \in T!Message
      BY <1>4, <1>6, TransportConstants
         DEF CallBack, T!CallBack, T!Message, T!Types, T!Forms
    <2>3. /\ T!Units(m) \in Seq(T!Unit) /\ Len(T!Units(m)) = l /\ l \in Nat /\ l >= 1
          /\ \A i \in DOMAIN T!Units(m) : T!Units(m)[i].msg = m
      BY <2>2, TransportConstants, TP!UnitsType, SameMessages
    <2>4. Head(sout').msg = m
      <3>1. sout' = T!Units(m) /\ 1 \in DOMAIN T!Units(m)
        BY <2>1, <2>3, LenProperties
      <3>2. Head(sout') = T!Units(m)[1]
        BY <3>1, <2>3
      <3> QED
        BY <2>3, <3>1, <3>2
    <2>5. c \in CallbackNames
      BY <1>6, <2>4 DEF CallBack
    <2>6. \A i \in 1 .. Len(sout') : Named(sout'[i])
      BY <2>1, <2>2, <2>5, NamedUnits
    <2> QED
      BY <1>1, <1>2, <1>3, <1>6, <2>6 DEF CallBack, T!CallBack
  <1>7. CASE T!Interrupted
    <2> DEFINE m == [type |-> "Error", form |-> "json", of |-> sreq,
                     method |-> NoMethod, len |-> 1]
    <2>1. m \in T!Message /\ sout' = T!Units(m)
      BY <1>4, <1>7, TransportConstants
         DEF T!Interrupted, T!Message, T!Types, T!Forms, T!Writes
    <2>2. \A i \in 1 .. Len(sout') : Named(sout'[i])
      BY <2>1, NamedUnits
    <2> QED
      BY <1>1, <1>2, <1>3, <1>7, <2>2 DEF T!Interrupted
  <1>8. CASE T!WriteUnit
    <2>1. /\ sout # <<>> /\ stream' = Append(stream, Head(sout)) /\ sout' = Tail(sout)
      BY <1>8 DEF T!WriteUnit
    <2>2. /\ Len(sout) \in Nat /\ Len(sout) >= 1 /\ Head(sout) = sout[1]
          /\ Len(sout') = Len(sout) - 1
          /\ \A i \in 1 .. Len(sout) - 1 : sout'[i] = sout[i + 1]
      BY <1>4, <2>1, HeadTailProperties, LenProperties, EmptySeq
    <2>3. /\ Len(stream) \in Nat /\ Len(stream') = Len(stream) + 1
          /\ \A i \in 1 .. Len(stream) : stream'[i] = stream[i]
          /\ stream'[Len(stream) + 1] = sout[1]
      BY <1>4, <2>1, <2>2, HeadTailProperties, AppendProperties, LenProperties
    <2>4. \A i \in 1 .. Len(sout') : Named(sout'[i])
      BY <1>3, <2>2 DEF Named
    <2>5. \A i \in 1 .. Len(stream') : Named(stream'[i])
      BY <1>3, <2>2, <2>3 DEF Named
    <2> QED
      BY <1>1, <1>2, <2>4, <2>5
  <1>9. CASE T!Accept \/ T!TakeReply \/ T!Refuse \/ T!Log
    <2>1. UNCHANGED <<stream, sout>>
      BY <1>9 DEF T!Accept, T!TakeReply, T!Refuse, T!Log
    <2> QED
      BY <1>1, <1>2, <1>3, <2>1
  <1>10. CASE T!Die \/ T!SeeEof
    <2>1. UNCHANGED stream /\ Len(sout') = 0
      BY <1>10 DEF T!Die, T!SeeEof, T!Exit
    <2> QED
      BY <1>1, <1>2, <1>3, <2>1
  <1> QED
    BY <1>5, <1>6, <1>7, <1>8, <1>9, <1>10 DEF Child, Transport

\* Every step is one of the transport's ends, or leaves it alone or drops it.
LEMMA TransportPart ==
  ASSUME TP!TypeOK, CallsAreNamed, [Next]_vars
  PROVE  \/ UNCHANGED transportVars
         \/ TP!Server /\ UNCHANGED <<phase, callbacks, buf, calling, results>>
         \/ TP!Client /\ phase = "idle" /\ UNCHANGED results /\ phase' \in {"idle", "dropped"}
         \/ TP!Client /\ Proceeds
         \/ TP!Client /\ (T!Request \/ T!RejectPayload)
         \/ DropTransport
  <1>1. CASE UNCHANGED vars
    BY <1>1 DEF vars
  <1>2. CASE \/ \E t \in Threads : Call(t) \/ Receive(t) \/ Close(t)
             \/ \E t \in Threads, o \in Threads \cup {fs} : Share(t, o)
             \/ \E o \in C!Owners : DropHandle(o)
    BY <1>2 DEF Call, Receive, Close, Share, DropHandle, Client
  <1>3. CASE Spawn \/ Reply \/ Reenter \/ Panic
    BY <1>3 DEF Spawn, Reply, Reenter, Panic
  <1>4. CASE Fail \/ Unwind
    BY <1>4 DEF Fail, Unwind
  <1>5. CASE \E m \in Methods : Register(m)
    <2>1. PICK m \in Methods : T!RegisterCallback(m)
      BY <1>5 DEF Register, Transport
    <2>2. TP!Client
      BY <2>1, SameTransport
    <2>3. phase = "idle" /\ UNCHANGED results /\ phase' = "idle"
      BY <2>1 DEF T!RegisterCallback
    <2> QED
      BY <2>2, <2>3
  <1>6. CASE Disconnect
    <2>1. T!Drop
      BY <1>6 DEF Disconnect
    <2> QED
      BY <2>1, SameTransport DEF T!Drop
  <1>7. CASE Configure \/ Serve
    <2>1. T!Request \/ T!RejectPayload
      BY <1>7 DEF Configure, Serve
    <2> QED
      BY <2>1, SameTransport
  <1>8. CASE Read
    <2>1. PICK n \in 1 .. ReadCap : T!Read(n)
      BY <1>8 DEF Read, Transport
    <2>2. UNCHANGED hasFs
      BY <1>8 DEF Read, Transport
    <2>3. Proceeds
      BY <2>1, <2>2, ReadEffect DEF CallsAreNamed
    <2> QED
      BY <2>1, <2>3, SameTransport
  <1>9. CASE ReadEof \/ ReadFails \/ HandleCallback
    <2>1. T!ReadEof \/ T!ReadFails \/ T!CallbackSucceeds \/ T!CallbackFails \/ T!UnknownCallback
      BY <1>9 DEF ReadEof, ReadFails, HandleCallback, Transport
    <2> QED
      BY <2>1, CallEffect, SameTransport
  <1>10. CASE Child
    <2>1. UNCHANGED <<phase, callbacks, buf, calling, results>>
      BY <1>10, ChildEffect
    <2>2. TP!Server
      BY <1>10, SameTransport DEF Child, CallBack, Transport
    <2> QED
      BY <2>1, <2>2
  <1> QED
    BY <1>1, <1>2, <1>3, <1>4, <1>5, <1>6, <1>7, <1>8, <1>9, <1>10 DEF Next

\* A result joins those before it.
LEMMA ReturnAppends ==
  ASSUME TP!TypeOK, NEW kind, NEW of, T!Return(kind, of), kind \in T!Kinds,
         of \in 0 .. MaxRequests
  PROVE  /\ Len(results') = Len(results) + 1 /\ Len(results) \in Nat
         /\ \A k \in 1 .. Len(results) : results'[k] = results[k]
         /\ results'[Len(results) + 1] = [kind |-> kind, of |-> of]
  <1> DEFINE r == [kind |-> kind, of |-> of]
             R == [kind : T!Kinds, of : 0 .. MaxRequests]
  <1>1. results \in Seq(R) /\ r \in R /\ results' = Append(results, r)
    BY SameMessages DEF TP!TypeOK, T!Return
  <1> QED
    BY <1>1, AppendProperties, LenProperties

\* What a step does to the results: they stay, or one joins them that is of a
\* call under way, or of one that could not be sent.
LEMMA ResultsGrow ==
  ASSUME TP!TypeOK, CallsAreNamed, [Next]_vars
  PROVE  \/ UNCHANGED results
         \/ /\ Len(results') = Len(results) + 1 /\ Len(results) \in Nat
            /\ \A k \in 1 .. Len(results) : results'[k] = results[k]
            /\ LET r == results'[Len(results) + 1] IN
               /\ r.kind = "ok" => r.of # 0
               /\ r.kind = "unknown" => phase = "calling" /\ calling \notin callbacks
  <1>1. CASE \E kind \in T!Kinds, of \in 0 .. MaxRequests :
               /\ T!Return(kind, of) /\ (kind = "ok" => of # 0)
               /\ kind = "unknown" => phase = "calling" /\ calling \notin callbacks
    <2>1. PICK kind \in T!Kinds, of \in 0 .. MaxRequests :
               /\ T!Return(kind, of) /\ (kind = "ok" => of # 0)
               /\ kind = "unknown" => phase = "calling" /\ calling \notin callbacks
      BY <1>1
    <2>2. /\ Len(results') = Len(results) + 1 /\ Len(results) \in Nat
          /\ \A k \in 1 .. Len(results) : results'[k] = results[k]
          /\ results'[Len(results) + 1] = [kind |-> kind, of |-> of]
      BY <2>1, ReturnAppends
    <2>3. /\ results'[Len(results) + 1].kind = kind
          /\ results'[Len(results) + 1].of = of
      BY <2>2
    <2> QED
      BY <2>1, <2>2, <2>3
  <1>2. CASE Proceeds
    BY <1>1, <1>2 DEF Proceeds
  <1>3. CASE T!Request \/ T!RejectPayload
    <2>1. {"io", "payload"} \subseteq T!Kinds /\ 0 \in 0 .. MaxRequests
      BY TransportConstants DEF T!Kinds
    <2> QED
      BY <1>1, <1>3, <2>1, StartEffect
  <1>4. UNCHANGED transportVars \/ DropTransport => UNCHANGED results
    BY DEF transportVars, DropTransport
  <1>5. UNCHANGED results \/ Proceeds \/ T!Request \/ T!RejectPayload
    BY <1>4, TransportPart
  <1> QED
    BY <1>2, <1>3, <1>5

\* So the transport keeps its invariant.
LEMMA TransportKept ==
  ASSUME TransportInv, Stages, CallsAreNamed, [Next]_vars
  PROVE  TransportInv'
  <1>1. TP!TypeOK
    BY DEF TransportInv
  <1>2. \A k \in 1 .. Len(results') : results'[k].kind = "ok" => results'[k].of # 0
    <2>1. \A k \in 1 .. Len(results) : results[k].kind = "ok" => results[k].of # 0
      BY DEF TransportInv
    <2> QED
      BY <1>1, <2>1, ResultsGrow
  <1>3. CASE UNCHANGED transportVars
    BY <1>3
       DEF TransportInv, transportVars, TP!TypeOK, TP!OwnAnswer, TP!LockstepInv,
           TP!Tainted, TP!Lockstep, TP!AtRest, TP!InCallback, TP!Pending, TP!Exchange,
           TP!Sender, TP!Stopped, TP!Quiet, TP!cur
  <1>4. ASSUME phase # "dropped", TP!Client \/ TP!Server
        PROVE  TransportInv'
    <2>1. TP!LockstepInv'
      BY <1>4, TransportConstants, TP!LockstepStep DEF TransportInv, TP!Next
    <2>2. TP!TypeOK' /\ TP!OwnAnswer'
      BY <2>1 DEF TP!LockstepInv
    <2> QED
      BY <1>2, <2>1, <2>2 DEF TransportInv
  <1>5. CASE phase = "dropped" /\ TP!Server /\ UNCHANGED <<phase, results>>
    <2>1. TP!TypeOK'
      BY <1>1, <1>5, TransportConstants, TP!ServerType
    <2>2. TP!OwnAnswer'
      BY <1>5 DEF TransportInv, TP!OwnAnswer, TP!Desync
    <2> QED
      BY <1>2, <1>5, <2>1, <2>2 DEF TransportInv
  <1>6. CASE DropTransport
    <2>1. TP!TypeOK'
      BY <1>1, <1>6, TransportConstants, EmptySeq DEF TP!TypeOK, DropTransport
    <2>2. TP!OwnAnswer'
      BY <1>6 DEF TransportInv, TP!OwnAnswer, TP!Desync, DropTransport
    <2> QED
      BY <1>2, <1>6, <2>1, <2>2 DEF TransportInv, DropTransport
  <1>7. TP!Client /\ (Proceeds \/ T!Request \/ T!RejectPayload \/ phase = "idle")
          => phase # "dropped"
    BY DEF Proceeds, T!Request, T!RejectPayload
  <1> QED
    BY <1>1, <1>3, <1>4, <1>5, <1>6, <1>7, TransportPart

-----------------------------------------------------------------------------
(* The client and the transport together.                                  *)

\* What holds of the components as such.
Components == CP!ClientInv /\ TransportInv

\* The command that is taken is a call.
LEMMA TakenIsCall ==
  ASSUME Components, NeverClosed, C!Take
  PROVE  /\ worker = "waiting" /\ worker' = "busy"
         /\ Len(queue) \in Nat /\ 1 \in 1 .. Len(queue)
         /\ serving' = queue[1] /\ Head(queue) = queue[1] /\ queue[1] \in C!Commands
         /\ Len(queue') = Len(queue) - 1
         /\ \A i \in 1 .. Len(queue) - 1 : queue'[i] = queue[i + 1]
         /\ UNCHANGED handles
  <1>1. queue \in Seq(C!Commands)
    BY SameValues DEF Components, CP!ClientInv, CP!TypeOK
  <1>2. queue # <<>> /\ queue' = Tail(queue) /\ worker = "waiting"
    BY DEF C!Take
  <1>3. /\ Len(queue) \in Nat /\ 1 \in 1 .. Len(queue) /\ Head(queue) = queue[1]
        /\ queue[1] \in C!Commands /\ Len(queue') = Len(queue) - 1
        /\ \A i \in 1 .. Len(queue) - 1 : queue'[i] = queue[i + 1]
    BY <1>1, <1>2, HeadTailProperties, LenProperties, EmptySeq
  <1>4. Head(queue) # C!Shutdown
    BY <1>3 DEF NeverClosed
  <1>5. worker' = "busy" /\ serving' = Head(queue) /\ UNCHANGED handles
    BY <1>4 DEF C!Take
  <1> QED
    BY <1>2, <1>3, <1>5

\* A step of the call that is being served: it calls only what is registered.
LEMMA CallStep ==
  ASSUME TP!TypeOK, CallsAreNamed, Read \/ ReadEof \/ ReadFails \/ HandleCallback
  PROVE  /\ Running /\ Proceeds /\ phase' \in {"idle", "reading", "calling"}
         /\ UNCHANGED <<clientVars, stage, hasFs, asked, callbacks, sout>>
         /\ \A i \in 1 .. Len(buf') : Named(buf'[i])
         /\ \A i \in 1 .. Len(stream') : Named(stream'[i])
         /\ phase' = "calling" => calling' \in CallbackNames
  <1>1. Running /\ UNCHANGED <<clientVars, stage, hasFs, asked, callbacks, sout>>
    BY DEF Read, ReadEof, ReadFails, HandleCallback, Transport, T!Read, T!ReadEof,
           T!ReadFails, T!CallbackSucceeds, T!CallbackFails, T!UnknownCallback, T!server
  <1>2. Proceeds => phase' \in {"idle", "reading", "calling"}
    BY DEF Proceeds, T!Return
  <1>3. /\ \A i \in 1 .. Len(buf) : Named(buf[i])
        /\ \A i \in 1 .. Len(stream) : Named(stream[i])
    BY DEF CallsAreNamed
  <1>4. CASE Read
    <2>1. PICK n \in 1 .. ReadCap : T!Read(n)
      BY <1>4 DEF Read, Transport
    <2> QED
      BY <1>1, <1>2, <1>3, <2>1, ReadEffect
  <1>5. CASE ReadEof \/ ReadFails \/ HandleCallback
    <2>1. T!ReadEof \/ T!ReadFails \/ T!CallbackSucceeds \/ T!CallbackFails \/ T!UnknownCallback
      BY <1>5 DEF ReadEof, ReadFails, HandleCallback, Transport
    <2>2. Proceeds /\ UNCHANGED stream /\ phase' # "calling" /\ buf' \in {buf, <<>>}
      BY <2>1, CallEffect
    <2>3. \A i \in 1 .. Len(buf') : Named(buf'[i])
      BY <1>3, <2>2 DEF Named
    <2> QED
      BY <1>1, <1>2, <1>3, <2>2, <2>3
  <1> QED
    BY <1>4, <1>5

\* Stages: the phases of the transport are those of the worker.
LEMMA StagesKept ==
  ASSUME Components, Stages, NeverClosed, CallsAreNamed, [Next]_vars
  PROVE  Stages'
  <1> USE DEF Stages
  <1>1. CASE UNCHANGED vars
    BY <1>1 DEF vars, clientVars, transportVars
  <1>2. CASE \/ \E t \in Threads : Call(t) \/ Receive(t) \/ Close(t)
             \/ \E t \in Threads, o \in Threads \cup {fs} : Share(t, o)
             \/ \E o \in C!Owners : DropHandle(o)
    <2>1. UNCHANGED <<worker, phase, stage>>
      BY <1>2 DEF Call, Receive, Close, Share, DropHandle, Client, transportVars,
                  C!Request, C!Receive, C!ClientClose, C!Close, C!Share, C!DropHandle
    <2> QED
      BY <2>1
  <1>3. CASE \E m \in Methods : Register(m)
    BY <1>3 DEF Register, Transport, T!RegisterCallback, clientVars
  <1>4. CASE Configure
    <2>1. phase' \in {"idle", "reading"}
      BY <1>4, StartEffect DEF Configure, T!Return
    <2> QED
      BY <1>4, <2>1, StartEffect DEF Configure, clientVars
  <1>5. CASE Spawn \/ Fail
    BY <1>5 DEF Spawn, Fail, DropTransport, clientVars, transportVars
  <1>6. CASE Serve
    <2>1. phase' \in {"idle", "reading"} /\ phase = "idle"
      BY <1>6, StartEffect DEF Serve, T!Return
    <2>2. worker = "waiting" /\ worker' = "busy"
      BY <1>6, TakenIsCall DEF Serve
    <2> QED
      BY <1>6, <2>1, <2>2 DEF Serve
  <1>7. CASE Read \/ ReadEof \/ ReadFails \/ HandleCallback
    <2>1. /\ Running /\ Proceeds /\ phase' \in {"idle", "reading", "calling"}
          /\ UNCHANGED <<worker, stage>>
      BY <1>7, CallStep DEF Components, TransportInv, clientVars
    <2>2. phase \in {"reading", "calling"}
      BY <2>1 DEF Proceeds
    <2> QED
      BY <2>1, <2>2 DEF Running
  <1>8. CASE Reply \/ Reenter \/ Panic
    BY <1>8 DEF Reply, Reenter, Panic, C!Finish, C!Panic, clientVars, transportVars
  <1>9. CASE Unwind \/ Disconnect
    BY <1>9 DEF Unwind, Disconnect, DropTransport, T!Drop, C!Unwind, C!Disconnect,
                C!ExitWorker
  <1>10. CASE Child
    <2>1. UNCHANGED <<worker, stage, phase>>
      BY <1>10 DEF Child, CallBack, Transport, clientVars, T!Accept, T!Answer, T!CallBack,
           T!TakeReply, T!Interrupted, T!Refuse, T!WriteUnit, T!Log, T!Die, T!SeeEof,
           T!Exit, T!client
    <2> QED
      BY <2>1
  <1> QED
    BY <1>1, <1>2, <1>3, <1>4, <1>5, <1>6, <1>7, <1>8, <1>9, <1>10 DEF Next

\* NeverClosed: whoever gives its handle up leaves the registry's.
LEMMA NeverClosedKept ==
  ASSUME Components, NeverClosed, [Next]_vars
  PROVE  NeverClosed'
  <1>1. /\ queue \in Seq(C!Commands) /\ handles \subseteq C!Owners
        /\ Threads \cap Objects = {}
    BY SameValues, ComponentAssumption
       DEF Components, CP!ClientInv, CP!TypeOK, C!ClientAssumption
  <1>2. CASE UNCHANGED <<handles, queue>>
    BY <1>2 DEF NeverClosed, C!Shutdown
  <1>3. ASSUME NEW t \in Threads, Call(t)
        PROVE  NeverClosed'
    <2>1. UNCHANGED handles /\ (UNCHANGED queue \/ queue' = Append(queue, C!Cmd(t, calls[t] + 1)))
      BY <1>3 DEF Call, Client, C!Request
    <2>2. CASE queue' = Append(queue, C!Cmd(t, calls[t] + 1))
      <3> DEFINE c == C!Cmd(t, calls[t] + 1)
      <3>1. c # C!Shutdown
        BY DEF C!Cmd, C!Shutdown
      <3> HIDE DEF c
      <3>2. /\ Len(queue) \in Nat /\ Len(queue') = Len(queue) + 1
            /\ \A i \in 1 .. Len(queue) : queue'[i] = queue[i]
            /\ queue'[Len(queue) + 1] = c
        BY <1>1, <2>2, AppendProperties, LenProperties DEF c
      <3>3. \A i \in 1 .. Len(queue') : queue'[i] # C!Shutdown
        BY <3>1, <3>2 DEF NeverClosed
      <3> QED
        BY <2>1, <3>3 DEF NeverClosed, C!Shutdown
    <2> QED
      BY <1>2, <2>1, <2>2
  <1>4. ASSUME NEW t \in Threads, Close(t)
        PROVE  NeverClosed'
    <2>1. handles \ {registry} = {t} /\ t # registry
      BY <1>1, <1>4 DEF Close, Objects
    <2>2. registry \in handles /\ handles # {t}
      BY <2>1 DEF NeverClosed
    <2>3. handles' = handles \ {t} /\ UNCHANGED queue
      BY <1>4, <2>2 DEF Close, Client, C!ClientClose, C!Close
    <2> QED
      BY <2>1, <2>2, <2>3 DEF NeverClosed, C!Shutdown
  <1>5. ASSUME NEW t \in Threads, NEW o \in Threads \cup {fs}, Share(t, o)
        PROVE  NeverClosed'
    <2>1. t \in handles /\ handles' = handles \cup {o} /\ UNCHANGED queue
      BY <1>5 DEF Share, Client, C!Share
    <2> QED
      BY <2>1 DEF NeverClosed, C!Shutdown
  <1>6. ASSUME NEW o \in C!Owners, DropHandle(o)
        PROVE  NeverClosed'
    <2>1. handles' = handles \ {o} /\ UNCHANGED queue /\ (o = registry => handles = {registry})
      BY <1>6 DEF DropHandle, Client, C!DropHandle
    <2> QED
      BY <2>1 DEF NeverClosed, C!Shutdown
  <1>7. CASE Serve
    <2>1. /\ Len(queue) \in Nat /\ Len(queue') = Len(queue) - 1 /\ UNCHANGED handles
          /\ \A i \in 1 .. Len(queue) - 1 : queue'[i] = queue[i + 1]
      BY <1>7, TakenIsCall DEF Serve
    <2>2. \A i \in 1 .. Len(queue') : queue'[i] # C!Shutdown
      BY <2>1 DEF NeverClosed
    <2> QED
      BY <2>1, <2>2 DEF NeverClosed, C!Shutdown
  <1>8. CASE Unwind \/ Disconnect
    <2>1. UNCHANGED handles /\ Len(queue') = 0
      BY <1>8 DEF Unwind, Disconnect, C!Unwind, C!Disconnect, C!ExitWorker
    <2> QED
      BY <2>1 DEF NeverClosed, C!Shutdown
  <1>9. /\ \A t \in Threads : Receive(t) => UNCHANGED <<handles, queue>>
        /\ Reply \/ Panic => UNCHANGED <<handles, queue>>
        /\ UNCHANGED vars => UNCHANGED <<handles, queue>>
        /\ UNCHANGED clientVars => UNCHANGED <<handles, queue>>
    BY DEF Receive, Client, C!Receive, Reply, Panic, C!Finish, C!Panic, vars, clientVars
  <1>10. (\E m \in Methods : Register(m)) \/ Configure \/ Spawn \/ Fail \/ Reenter
          => UNCHANGED clientVars
    BY DEF Register, Configure, Spawn, Fail, Reenter, Transport
  <1>11. Read \/ ReadEof \/ ReadFails \/ HandleCallback \/ Child => UNCHANGED clientVars
    BY DEF Read, ReadEof, ReadFails, HandleCallback, Child, Transport
  <1> QED
    BY <1>2, <1>3, <1>4, <1>5, <1>6, <1>7, <1>8, <1>9, <1>10, <1>11 DEF Next

\* A step is a request, a step of the call that is being served, or it neither
\* asks nor answers; no step but a request makes the worker busy.
LEMMA StepKinds ==
  ASSUME Components, CallsAreNamed, [Next]_vars
  PROVE  \/ Configure
         \/ Serve
         \/ Read \/ ReadEof \/ ReadFails \/ HandleCallback
         \/ /\ UNCHANGED <<asked, results>> /\ phase' \in {phase, "dropped"}
            /\ worker' = "busy" => worker = "busy" /\ UNCHANGED serving
  <1>1. UNCHANGED vars \/ Spawn \/ Fail \/ Reenter \/ Reply \/ Panic
          => /\ UNCHANGED <<asked, results>> /\ phase' \in {phase, "dropped"}
             /\ worker' = "busy" => worker = "busy" /\ UNCHANGED serving
    BY DEF vars, Spawn, Fail, Reenter, Reply, Panic, DropTransport, clientVars,
           transportVars, C!Finish, C!Panic
  <1>2. /\ \A t \in Threads : Call(t) \/ Receive(t) \/ Close(t)
             => UNCHANGED <<asked, results, phase, worker, serving>>
        /\ \A t \in Threads, o \in Threads \cup {fs} :
             Share(t, o) => UNCHANGED <<asked, results, phase, worker, serving>>
        /\ \A o \in C!Owners :
             DropHandle(o) => UNCHANGED <<asked, results, phase, worker, serving>>
    BY DEF Call, Receive, Close, Share, DropHandle, Client, transportVars,
           C!Request, C!Receive, C!ClientClose, C!Close, C!Share, C!DropHandle
  <1>3. (\E m \in Methods : Register(m)) => UNCHANGED <<asked, results, phase, worker, serving>>
    BY DEF Register, Transport, T!RegisterCallback, clientVars
  <1>4. Unwind \/ Disconnect
          => UNCHANGED <<asked, results>> /\ phase' = "dropped" /\ worker' = "exited"
    BY DEF Unwind, Disconnect, DropTransport, T!Drop, C!Unwind, C!Disconnect, C!ExitWorker
  <1>5. Child => UNCHANGED <<asked, results, phase, worker, serving>>
    BY ChildEffect DEF Components, TransportInv, clientVars
  <1> QED
    BY <1>1, <1>2, <1>3, <1>4, <1>5 DEF Next

\* What a request does to the results, the queue of requests and the worker.
LEMMA StartStep ==
  ASSUME Components, NeverClosed, AskedInOrder, CallsAreNamed, Configure \/ Serve
  PROVE  \E c \in C!Commands \cup {Configuration} :
           /\ phase = "idle" /\ Len(asked) \in Nat /\ Len(asked) = Len(results)
           /\ asked' \in Seq(C!Commands \cup {Configuration})
           /\ Len(asked') = Len(asked) + 1 /\ asked'[Len(asked) + 1] = c
           /\ \A k \in 1 .. Len(asked) : asked'[k] = asked[k]
           /\ \/ phase' = "reading" /\ results' = results
              \/ phase' = "idle" /\ Len(results') = Len(results) + 1
           /\ Serve => worker' = "busy" /\ serving' = c
           /\ Configure => UNCHANGED <<worker, serving>>
  <1> DEFINE A == C!Commands \cup {Configuration}
  <1>1. /\ phase = "idle" /\ TP!TypeOK
        /\ \/ phase' = "reading" /\ results' = results /\ buf' = buf
           \/ \E kind \in {"io", "payload"} : T!Return(kind, 0)
    BY StartEffect DEF Configure, Serve, Components, TransportInv
  <1>2. \/ phase' = "reading" /\ results' = results
        \/ phase' = "idle" /\ Len(results') = Len(results) + 1
    <2>1. {"io", "payload"} \subseteq T!Kinds /\ 0 \in 0 .. MaxRequests
      BY TransportConstants DEF T!Kinds
    <2>2. CASE \E kind \in {"io", "payload"} : T!Return(kind, 0)
      BY <1>1, <2>1, <2>2, ReturnAppends DEF T!Return
    <2> QED
      BY <1>1, <2>2
  <1>3. asked \in Seq(A) /\ Len(asked) \in Nat /\ Len(asked) = Len(results)
    BY <1>1, LenProperties DEF AskedInOrder
  <1>4. CASE Serve
    <2>1. /\ Head(queue) \in C!Commands /\ worker' = "busy" /\ serving' = Head(queue)
          /\ asked' = Append(asked, Head(queue)) /\ ~Configure
      BY <1>4, TakenIsCall DEF Serve, Configure
    <2>2. Head(queue) \in A
      BY <2>1
    <2>3. /\ asked' \in Seq(A) /\ Len(asked') = Len(asked) + 1
          /\ \A k \in 1 .. Len(asked) : asked'[k] = asked[k]
          /\ asked'[Len(asked) + 1] = Head(queue)
      BY <1>3, <2>1, <2>2, AppendProperties
    <2> QED
      BY <1>1, <1>2, <1>3, <2>1, <2>2, <2>3
  <1>5. CASE Configure
    <2>1. asked' = <<Configuration>> /\ UNCHANGED <<worker, serving>> /\ stage = "new" /\ ~Serve
      BY <1>5 DEF Configure, Serve, clientVars
    <2>2. Len(asked) = 0
      BY <1>3, <2>1 DEF CallsAreNamed
    <2>3. Configuration \in A /\ asked' \in Seq(A) /\ Len(asked') = 1 /\ asked'[1] = Configuration
      BY <2>1
    <2> QED
      BY <1>1, <1>2, <1>3, <2>1, <2>2, <2>3
  <1> QED
    BY <1>4, <1>5

\* AskedInOrder: every request is noted when it goes out.
LEMMA AskedInOrderKept ==
  ASSUME Components, Stages, NeverClosed, AskedInOrder, CallsAreNamed, [Next]_vars
  PROVE  AskedInOrder'
  <1>1. /\ TP!TypeOK /\ Len(results) \in Nat
        /\ Len(asked) \in Nat
    BY LenProperties DEF Components, TransportInv, TP!TypeOK, AskedInOrder
  <1>2. CASE Configure \/ Serve
    <2>1. PICK c \in C!Commands \cup {Configuration} :
           /\ phase = "idle" /\ Len(asked) \in Nat /\ Len(asked) = Len(results)
           /\ asked' \in Seq(C!Commands \cup {Configuration})
           /\ Len(asked') = Len(asked) + 1 /\ asked'[Len(asked) + 1] = c
           /\ \A k \in 1 .. Len(asked) : asked'[k] = asked[k]
           /\ \/ phase' = "reading" /\ results' = results
              \/ phase' = "idle" /\ Len(results') = Len(results) + 1
           /\ Serve => worker' = "busy" /\ serving' = c
           /\ Configure => UNCHANGED <<worker, serving>>
      BY <1>2, StartStep
    <2>2. Configure => worker' # "busy"
      BY <2>1 DEF Configure, Stages
    <2> QED
      BY <1>2, <2>1, <2>2 DEF AskedInOrder, C!Commands, C!Cmd, C!Shutdown, Configuration
  <1>3. CASE Read \/ ReadEof \/ ReadFails \/ HandleCallback
    <2>1. UNCHANGED <<asked, worker, serving>> /\ Proceeds
      BY <1>1, <1>3, CallStep DEF clientVars
    <2>2. \/ phase' \in {"reading", "calling"} /\ results' = results
          \/ phase' = "idle" /\ Len(results') = Len(results) + 1
      BY <1>1, <2>1, ReturnAppends DEF Proceeds, T!Return
    <2>3. phase \in {"reading", "calling"}
      BY <2>1 DEF Proceeds
    <2> QED
      BY <1>1, <2>1, <2>2, <2>3 DEF AskedInOrder, C!Commands, C!Cmd, C!Shutdown, Configuration
  <1>4. CASE /\ UNCHANGED <<asked, results>> /\ phase' \in {phase, "dropped"}
             /\ worker' = "busy" => worker = "busy" /\ UNCHANGED serving
    BY <1>4 DEF AskedInOrder, C!Commands, C!Cmd, C!Shutdown, Configuration
  <1> QED
    BY <1>2, <1>3, <1>4, StepKinds

\* The names that the child is told are those of callbacks that are registered
\* before, and they do not change.
LEMMA NamesAreCallbacks == CallbackNames = IF hasFs THEN FsCallbacks ELSE {}
  BY DEF CallbackNames, FsCallbacks

LEMMA SameNames == UNCHANGED hasFs => UNCHANGED CallbackNames
  BY DEF CallbackNames

\* CallsAreNamed: the child knows the callbacks that configure told it, which
\* all had been registered.
LEMMA CallsAreNamedKept ==
  ASSUME Components, Stages, CallsAreNamed, [Next]_vars
  PROVE  CallsAreNamed'
  <1>1. TP!TypeOK /\ Len(results) \in Nat
    BY LenProperties DEF Components, TransportInv, TP!TypeOK
  <1>2. \A k \in 1 .. Len(results') : results'[k].kind # "unknown"
    <2>1. phase = "calling" => calling \in callbacks
      BY DEF Stages, CallsAreNamed
    <2>2. \A k \in 1 .. Len(results) : results[k].kind # "unknown"
      BY DEF CallsAreNamed
    <2> QED
      BY <1>1, <2>1, <2>2, ResultsGrow
  <1>3. ASSUME UNCHANGED <<hasFs, stream, sout>>, buf' \in {buf, <<>>},
               phase' = "calling" => phase = "calling" /\ calling' = calling,
               stage' # "new", stage = "new" => CallbackNames \subseteq callbacks,
               UNCHANGED callbacks
        PROVE  CallsAreNamed'
    <2>1. /\ hasFs' \in BOOLEAN
          /\ CallbackNames' \subseteq callbacks'
          /\ phase' = "calling" => calling' \in CallbackNames'
      BY <1>3, SameNames DEF CallsAreNamed
    <2>2. /\ (\A i \in 1 .. Len(buf) : Named(buf[i]))'
          /\ (\A i \in 1 .. Len(stream) : Named(stream[i]))'
          /\ (\A i \in 1 .. Len(sout) : Named(sout[i]))'
      BY <1>3, SameNames DEF CallsAreNamed, Named
    <2> QED
      BY <1>2, <1>3, <2>1, <2>2 DEF CallsAreNamed, Named
  <1>4. CASE Configure \/ Serve
    <2>1. /\ UNCHANGED <<hasFs, stream, sout, callbacks>> /\ buf' \in {buf, <<>>}
          /\ phase' # "calling"
      BY <1>4, StartEffect DEF Configure, Serve, T!Return
    <2>2. stage' # "new" /\ (stage = "new" => CallbackNames \subseteq callbacks)
      <3>1. stage' # "new" /\ (stage = "new" /\ hasFs => FsCallbacks \subseteq callbacks)
        BY <1>4 DEF Configure, Serve
      <3> QED
        BY <3>1, NamesAreCallbacks
    <2> QED
      BY <1>3, <2>1, <2>2
  <1>5. CASE Read \/ ReadEof \/ ReadFails \/ HandleCallback
    <2>1. /\ Running
          /\ UNCHANGED <<clientVars, stage, hasFs, asked, callbacks, sout>>
          /\ \A i \in 1 .. Len(buf') : Named(buf'[i])
          /\ \A i \in 1 .. Len(stream') : Named(stream'[i])
          /\ phase' = "calling" => calling' \in CallbackNames
      BY <1>1, <1>5, CallStep
    <2>2. stage # "new"
      BY <2>1 DEF Running
    <2> QED
      BY <1>2, <2>1, <2>2, SameNames DEF CallsAreNamed, Named
  <1>6. CASE Child
    <2>1. /\ UNCHANGED <<phase, callbacks, buf, calling, results, stage, hasFs>>
          /\ \A i \in 1 .. Len(stream') : Named(stream'[i])
          /\ \A i \in 1 .. Len(sout') : Named(sout'[i])
          /\ stage = "new" =>
               /\ stdin' = <<>> /\ stream' = <<>> /\ sout' = <<>>
               /\ sstate' \notin {"working", "awaiting"}
      BY <1>1, <1>6, ChildEffect
    <2> QED
      BY <1>2, <2>1, SameNames DEF CallsAreNamed, Named
  <1>7. CASE \E m \in Methods : Register(m)
    <2>1. /\ stage = "new"
          /\ UNCHANGED <<phase, buf, calling, results, stdin, stream, sstate, sout, hasFs, stage>>
      BY <1>7 DEF Register, Transport, T!RegisterCallback, T!server
    <2> QED
      BY <1>2, <2>1, SameNames DEF CallsAreNamed, Named
  <1>8. CASE Fail \/ Unwind
    <2>1. /\ UNCHANGED <<hasFs, stream, sout, callbacks>> /\ buf' = <<>> /\ phase' = "dropped"
          /\ stage # "new" => stage' # "new"
      BY <1>8 DEF Fail, Unwind, DropTransport
    <2>2. stage # "new"
      BY <1>8 DEF Fail, Unwind, C!Unwind, Stages
    <2> QED
      BY <1>3, <2>1, <2>2
  <1>9. CASE Disconnect
    BY <1>3, <1>9 DEF Disconnect, T!Drop, T!server
  <1>10. CASE UNCHANGED <<transportVars, hasFs>> /\ (stage' = "new" <=> stage = "new")
    <2>1. UNCHANGED <<phase, callbacks, buf, calling, results, stdin, stream, sstate, sout, hasFs>>
      BY <1>10 DEF transportVars
    <2> QED
      BY <1>10, <2>1, SameNames DEF CallsAreNamed, Named
  <1>11. /\ UNCHANGED vars \/ Spawn \/ Reenter \/ Reply \/ Panic
              => UNCHANGED <<transportVars, hasFs>> /\ (stage' = "new" <=> stage = "new")
         /\ \A t \in Threads : Call(t) \/ Receive(t) \/ Close(t)
              => UNCHANGED <<transportVars, hasFs>> /\ (stage' = "new" <=> stage = "new")
         /\ \A t \in Threads, o \in Threads \cup {fs} :
              Share(t, o)
                => UNCHANGED <<transportVars, hasFs>> /\ (stage' = "new" <=> stage = "new")
         /\ \A o \in C!Owners :
              DropHandle(o)
                => UNCHANGED <<transportVars, hasFs>> /\ (stage' = "new" <=> stage = "new")
    BY DEF vars, Spawn, Reenter, Reply, Panic, Call, Receive, Close, Share, DropHandle, Client
  <1> QED
    BY <1>4, <1>5, <1>6, <1>7, <1>8, <1>9, <1>10, <1>11 DEF Next

\* What was answered stays answered.
LEMMA AnsweredStays ==
  ASSUME Components, NeverClosed, AskedInOrder, CallsAreNamed, [Next]_vars,
         NEW c, Answered(c)
  PROVE  Answered(c)'
  <1>1. TP!TypeOK /\ Len(results) \in Nat /\ Len(asked) \in Nat
    BY LenProperties DEF Components, TransportInv, TP!TypeOK, AskedInOrder
  <1>2. /\ Len(results') \in Nat /\ Len(results) <= Len(results')
        /\ \A k \in 1 .. Len(results) : results'[k] = results[k]
    BY <1>1, ResultsGrow
  <1>3. /\ Len(asked') \in Nat /\ Len(asked) <= Len(asked')
        /\ \A k \in 1 .. Len(asked) : asked'[k] = asked[k]
    <2>1. CASE Configure \/ Serve
      <3>1. PICK d \in C!Commands \cup {Configuration} :
              /\ Len(asked') = Len(asked) + 1
              /\ \A k \in 1 .. Len(asked) : asked'[k] = asked[k]
        BY <2>1, StartStep
      <3> QED
        BY <1>1, <3>1
    <2>2. CASE UNCHANGED asked
      BY <1>1, <2>2
    <2>3. Read \/ ReadEof \/ ReadFails \/ HandleCallback => UNCHANGED asked
      BY <1>1, CallStep
    <2> QED
      BY <2>1, <2>2, <2>3, StepKinds
  <1>4. PICK k \in 1 .. Len(results) :
          /\ k <= Len(asked) /\ asked[k] = c /\ results[k].kind = "ok"
          /\ results[k].of = k \/ \E j \in 1 .. k - 1 : results[j].kind \in T!Desync
    BY DEF Answered
  <1>5. /\ k \in 1 .. Len(results') /\ k <= Len(asked') /\ asked'[k] = c
        /\ results'[k] = results[k]
    BY <1>1, <1>2, <1>3, <1>4
  <1>6. ASSUME NEW j \in 1 .. k - 1, results[j].kind \in T!Desync
        PROVE  results'[j].kind \in T!Desync
    BY <1>1, <1>2, <1>4, <1>6
  <1>7. results'[k].of = k \/ \E j \in 1 .. k - 1 : results'[j].kind \in T!Desync
    BY <1>4, <1>5, <1>6
  <1> QED
    BY <1>4, <1>5, <1>7 DEF Answered, T!Desync

\* What the transport returned last is the answer to what it was asked last.
LEMMA LastIsAnswered ==
  ASSUME Components, AskedInOrder, phase = "idle", worker = "busy",
         results[Len(results)].kind = "ok"
  PROVE  Answered(serving)
  <1>1. results \in Seq([kind : TP!Kinds, of : 0 .. MaxRequests]) /\ Len(results) \in Nat
    BY LenProperties DEF Components, TransportInv, TP!TypeOK
  <1>2. Len(asked) = Len(results) /\ Len(results) >= 1 /\ asked[Len(asked)] = serving
    BY <1>1 DEF AskedInOrder
  <1> DEFINE k == Len(results)
  <1>3. k \in 1 .. Len(results) /\ results[k].of # 0 /\ DOMAIN results = 1 .. Len(results)
    BY <1>1, <1>2, LenProperties DEF Components, TransportInv
  <1>4. results[k].of = k \/ \E j \in 1 .. k - 1 : results[j].kind \in T!Desync
    BY <1>3, SameMessages DEF Components, TransportInv, TP!OwnAnswer
  <1>5. k <= Len(asked) /\ asked[k] = serving /\ results[k].kind = "ok"
    BY <1>1, <1>2
  <1> HIDE DEF k
  <1> QED
    BY <1>3, <1>4, <1>5 DEF Answered

\* RepliesAreAnswers: worker_loop sends each thread what the transport returned
\* for its command, and the thread returns what it was sent.
LEMMA RepliesAreAnswersKept ==
  ASSUME Components, NeverClosed, AskedInOrder, CallsAreNamed, RepliesAreAnswers,
         [Next]_vars
  PROVE  RepliesAreAnswers'
  <1> DEFINE Fine(t) ==
               /\ pc[t] = "receiving" /\ reply[t].kind = "ok" => Answered(C!Cmd(t, calls[t]))
               /\ \A n \in 1 .. Len(returned[t]) :
                    returned[t][n].kind = "ok" => Answered(C!Cmd(t, n))
  <1>1. CP!TypeOK /\ CP!OwnReplies /\ CP!ServedIsOpen
    BY DEF Components, CP!ClientInv
  <1>2. /\ C!Empty.kind # "ok" /\ C!Dropped.kind # "ok" /\ C!Dropped \in CP!Result \cup {CP!Dropped}
    BY SameValues DEF C!Empty, C!Dropped
  <1>3. /\ DOMAIN pc = Threads /\ DOMAIN calls = Threads /\ DOMAIN reply = Threads
        /\ DOMAIN returned = Threads /\ calls \in [Threads -> 0 .. MaxCalls]
        /\ \A t \in Threads : /\ returned[t] \in Seq(CP!Result \cup {CP!Dropped})
                              /\ calls[t] \in Nat
    BY <1>1, ComponentAssumption DEF CP!TypeOK, C!ClientAssumption
  <1>4. SUFFICES ASSUME NEW t \in Threads
                 PROVE  Fine(t)'
    BY DEF RepliesAreAnswers
  <1>5. Fine(t)
    BY DEF RepliesAreAnswers
  <1>6. \A c : Answered(c) => Answered(c)'
    BY AnsweredStays
  <1>7. \A n : Answered(C!Cmd(t, n)) => Answered(C!Cmd(t, n))'
    BY <1>6 DEF C!Cmd
  <1> HIDE DEF Fine
  <1>8. ASSUME UNCHANGED <<pc, calls, returned>>, reply'[t] = reply[t] \/ reply'[t].kind # "ok"
        PROVE  Fine(t)'
    BY <1>5, <1>7, <1>8 DEF Fine
  <1>9. ASSUME pc'[t] = pc[t], calls'[t] = calls[t], returned'[t] = returned[t],
               reply'[t] = reply[t]
        PROVE  Fine(t)'
    BY <1>5, <1>7, <1>9 DEF Fine
  <1>10. ASSUME pc'[t] = "idle", NEW r \in CP!Result \cup {CP!Dropped},
                returned'[t] = Append(returned[t], r),
                r.kind = "ok" => Answered(C!Cmd(t, Len(returned[t]) + 1))
         PROVE  Fine(t)'
    <2>1. /\ Len(returned[t]) \in Nat /\ Len(returned'[t]) = Len(returned[t]) + 1
          /\ \A n \in 1 .. Len(returned[t]) : returned'[t][n] = returned[t][n]
          /\ returned'[t][Len(returned[t]) + 1] = r
      BY <1>3, <1>10, AppendProperties, LenProperties
    <2> SUFFICES ASSUME NEW n \in 1 .. Len(returned'[t]), returned'[t][n].kind = "ok"
                 PROVE  Answered(C!Cmd(t, n))'
      BY <1>10 DEF Fine
    <2>2. CASE n = Len(returned[t]) + 1
      BY <1>7, <1>10, <2>1, <2>2
    <2>3. CASE n # Len(returned[t]) + 1
      <3>1. n \in 1 .. Len(returned[t]) /\ returned[t][n].kind = "ok"
        BY <2>1, <2>3
      <3> QED
        BY <1>5, <1>7, <3>1 DEF Fine
    <2> QED
      BY <2>2, <2>3
  <1>11. ASSUME NEW u \in Threads, C!Request(u)
         PROVE  Fine(t)'
    <2>1. CASE t # u
      BY <1>3, <1>9, <1>11, <2>1 DEF C!Request, C!Returns
    <2>2. CASE t = u /\ C!Connected
      <3>1. UNCHANGED returned /\ reply'[t].kind # "ok"
        BY <1>2, <1>3, <1>11, <2>2 DEF C!Request
      <3> QED
        BY <1>5, <1>7, <3>1 DEF Fine
    <2>3. CASE t = u /\ ~C!Connected
      <3>1. pc'[t] = "idle" /\ returned'[t] = Append(returned[t], C!Dropped)
        BY <1>3, <1>11, <2>3 DEF C!Request, C!Returns
      <3> QED
        BY <1>2, <1>10, <3>1
    <2> QED
      BY <2>1, <2>2, <2>3
  <1>12. ASSUME NEW u \in Threads, C!Receive(u)
         PROVE  Fine(t)'
    <2>1. CASE t # u
      BY <1>3, <1>9, <1>12, <2>1 DEF C!Receive, C!Returns
    <2>2. CASE t = u
      <3>1. /\ pc[t] = "receiving" /\ reply[t] # C!Empty
            /\ pc'[t] = "idle" /\ returned'[t] = Append(returned[t], reply[t])
        BY <1>3, <1>12, <2>2 DEF C!Receive, C!Returns
      <3>2. reply[t] \in CP!Result \cup {CP!Dropped}
        BY <1>1, <3>1, SameValues DEF CP!TypeOK
      <3>3. Len(returned[t]) + 1 = calls[t]
        BY <1>1, <1>3, <3>1, LenProperties DEF CP!OwnReplies
      <3>4. reply[t].kind = "ok" => Answered(C!Cmd(t, Len(returned[t]) + 1))
        BY <1>5, <3>1, <3>3 DEF Fine
      <3> QED
        BY <1>10, <3>1, <3>2, <3>4
    <2> QED
      BY <2>1, <2>2
  <1>13. CASE Reply
    <2>1. /\ worker = "busy" /\ phase = "idle" /\ UNCHANGED <<pc, calls, returned>>
          /\ reply'[serving.thread].kind =
               IF results[Len(results)].kind = "ok" THEN "ok" ELSE "error"
          /\ \E r : reply' = [reply EXCEPT ![serving.thread] = r]
      BY <1>13 DEF Reply, C!Finish, C!user
    <2>2. CASE serving.thread # t
      <3>1. reply'[t] = reply[t]
        BY <1>3, <2>1, <2>2
      <3> QED
        BY <1>8, <2>1, <3>1
    <2>3. CASE serving.thread = t /\ reply'[t].kind # "ok"
      BY <1>8, <2>1, <2>3
    <2>4. CASE serving.thread = t /\ results[Len(results)].kind = "ok"
      <3>1. Answered(serving)
        BY <2>1, <2>4, LastIsAnswered
      <3>2. serving \in CP!Commands /\ CP!IsCall(serving) /\ serving.call = calls[t]
        BY <1>1, <2>1, <2>4 DEF CP!TypeOK, CP!ServedIsOpen, CP!Open, CP!None, CP!IsCall
      <3>3. serving = C!Cmd(t, calls[t])
        BY <2>4, <3>2
           DEF CP!Commands, CP!Cmd, C!Cmd, CP!IsCall, CP!Shutdown
      <3>4. Answered(C!Cmd(t, calls[t]))'
        BY <1>7, <2>1, <3>1, <3>3
      <3> QED
        BY <1>5, <1>7, <2>1, <3>4 DEF Fine
    <2> QED
      BY <2>1, <2>2, <2>3, <2>4
  <1>14. CASE Panic \/ Unwind \/ Disconnect
    <2>1. /\ UNCHANGED <<pc, calls, returned>>
          /\ reply'[t] \in {C!Dropped, reply[t]}
      BY <1>14 DEF Panic, Unwind, Disconnect, C!Panic, C!Unwind, C!Disconnect,
                   C!ExitWorker, C!DropSenders, C!user
    <2> QED
      BY <1>2, <1>8, <2>1
  <1>15. CASE UNCHANGED <<pc, calls, reply, returned>>
    BY <1>8, <1>15
  <1>16. /\ UNCHANGED vars \/ Serve => UNCHANGED <<pc, calls, reply, returned>>
         /\ \A u \in Threads : Close(u) => UNCHANGED <<pc, calls, reply, returned>>
         /\ \A u \in Threads, o \in Threads \cup {fs} :
              Share(u, o) => UNCHANGED <<pc, calls, reply, returned>>
         /\ \A o \in C!Owners : DropHandle(o) => UNCHANGED <<pc, calls, reply, returned>>
         /\ UNCHANGED clientVars => UNCHANGED <<pc, calls, reply, returned>>
    BY DEF vars, clientVars, Serve, C!Take, Close, Share, DropHandle, Client,
           C!ClientClose, C!Close, C!Share, C!DropHandle, C!user
  <1>17. (\E m \in Methods : Register(m)) \/ Configure \/ Spawn \/ Fail \/ Reenter
          => UNCHANGED clientVars
    BY DEF Register, Configure, Spawn, Fail, Reenter, Transport
  <1>18. Read \/ ReadEof \/ ReadFails \/ HandleCallback \/ Child => UNCHANGED clientVars
    BY DEF Read, ReadEof, ReadFails, HandleCallback, Child, Transport
  <1>19. \A u \in Threads : (Call(u) => C!Request(u)) /\ (Receive(u) => C!Receive(u))
    BY DEF Call, Receive, Client
  <1> QED
    BY <1>11, <1>12, <1>13, <1>14, <1>15, <1>16, <1>17, <1>18, <1>19 DEF Next

-----------------------------------------------------------------------------
(* The properties of ClientSession.                                        *)

\* The invariant holds when a client is made, and every step keeps it.
LEMMA SessionInit == Init => SessionInv
  <1> SUFFICES ASSUME Init PROVE SessionInv
    OBVIOUS
  <1>1. CP!ClientInv
    <2>1. CP!Init
      BY SameClient DEF Init
    <2>2. CP!ClientAssumption
      BY ComponentAssumption
         DEF C!ClientAssumption, CP!ClientAssumption, C!IsFiniteSet, CP!IsFiniteSet
    <2> QED
      BY <2>1, <2>2, CP!ClientInit
  <1>2. TP!LockstepInv
    <2>1. TP!Init
      BY SameTransport DEF Init
    <2> QED
      BY <2>1, TransportConstants, TP!LockstepInit
  <1>3. /\ Len(results) = 0 /\ Len(asked) = 0 /\ Len(queue) = 0 /\ Len(buf) = 0
        /\ Len(stream) = 0 /\ Len(sout) = 0 /\ asked = <<>>
        /\ \A t \in Threads : Len(returned[t]) = 0 /\ pc[t] = "idle"
    BY DEF Init, C!Init, T!Init
  <1>4. TransportInv
    BY <1>2, <1>3 DEF TransportInv, TP!LockstepInv
  <1>5. Stages
    BY DEF Init, C!Init, T!Init, Stages
  <1>6. NeverClosed
    BY <1>3 DEF Init, NeverClosed
  <1>7. AskedInOrder
    BY <1>3 DEF Init, C!Init, T!Init, AskedInOrder
  <1>8. RepliesAreAnswers
    BY <1>3 DEF RepliesAreAnswers
  <1>9. CallsAreNamed
    BY <1>3 DEF Init, T!Init, CallsAreNamed
  <1> QED
    BY <1>1, <1>4, <1>5, <1>6, <1>7, <1>8, <1>9 DEF SessionInv

\* Every step keeps the invariant, part by part.
LEMMA SessionStep == SessionInv /\ [Next]_vars => SessionInv'
  <1> SUFFICES ASSUME SessionInv, [Next]_vars PROVE SessionInv'
    OBVIOUS
  <1>1. /\ Components /\ CP!ClientInv /\ TransportInv
        /\ Stages /\ NeverClosed /\ AskedInOrder /\ RepliesAreAnswers /\ CallsAreNamed
    BY DEF SessionInv, Components
  <1>2. CP!ClientInv' /\ TransportInv'
    BY <1>1, ClientKept, TransportKept
  <1>3. Stages' /\ NeverClosed'
    BY <1>1, StagesKept, NeverClosedKept
  <1>4. AskedInOrder' /\ CallsAreNamed'
    BY <1>1, AskedInOrderKept, CallsAreNamedKept
  <1>5. RepliesAreAnswers'
    BY <1>1, RepliesAreAnswersKept
  <1> QED
    BY <1>2, <1>3, <1>4, <1>5 DEF SessionInv

\* The components' invariants, the transport's until it is dropped, and what
\* ties them together: when new, worker_loop and the transport are where the
\* other expects them, and that every reply is of an answer to its command.
THEOREM SessionInvariant == Spec => []SessionInv
  BY SessionInit, SessionStep, PTL DEF Spec

\* TypeOK: both components keep their types, and the worker is in
\* transport.request exactly while it serves a command.
THEOREM TypeCorrect == Spec => []TypeOK
  <1>1. SessionInv => TypeOK
    <2> SUFFICES ASSUME SessionInv PROVE TypeOK
      OBVIOUS
    <2>1. C!TypeOK
      BY SameValues DEF SessionInv, CP!ClientInv, CP!TypeOK, C!TypeOK
    <2>2. T!TypeOK
      BY SameMessages DEF SessionInv, TransportInv, TP!TypeOK, T!TypeOK
    <2>3. worker = "exited" <=> phase = "dropped" /\ stage # "failed"
      BY DEF SessionInv, Stages
    <2> QED
      BY <2>1, <2>2, <2>3 DEF SessionInv, Stages, AskedInOrder, CallsAreNamed, TypeOK
  <1> QED
    BY <1>1, SessionInvariant, PTL

\* AnswersOwnCall: a thread's successful call returned the child's answer to
\* the request the worker sent for it, as long as no earlier request had ended
\* in the middle of its exchange.
THEOREM AnswersAreForTheCall == Spec => []AnswersOwnCall
  <1>1. SessionInv => AnswersOwnCall
    <2> SUFFICES ASSUME SessionInv, NEW t \in Threads, NEW n \in DOMAIN returned[t],
                        returned[t][n].kind = "ok"
                 PROVE  \E k \in DOMAIN asked \cap DOMAIN results :
                          /\ asked[k] = C!Cmd(t, n) /\ results[k].kind = "ok"
                          /\ results[k].of = k
                             \/ \E j \in 1 .. k - 1 : results[j].kind \in T!Desync
      BY DEF AnswersOwnCall
    <2>1. /\ CP!TypeOK /\ TP!TypeOK /\ asked \in Seq(C!Commands \cup {Configuration})
          /\ RepliesAreAnswers
      BY DEF SessionInv, CP!ClientInv, TransportInv, AskedInOrder
    <2>2. n \in 1 .. Len(returned[t])
      BY <2>1, LenProperties DEF CP!TypeOK
    <2>3. Answered(C!Cmd(t, n))
      BY <2>1, <2>2 DEF RepliesAreAnswers
    <2>4. DOMAIN asked = 1 .. Len(asked) /\ DOMAIN results = 1 .. Len(results)
      BY <2>1, LenProperties DEF TP!TypeOK
    <2> QED
      BY <2>3, <2>4 DEF Answered
  <1> QED
    BY <1>1, SessionInvariant, PTL

\* NoUnknownCallback: the child calls only callbacks that were registered,
\* since the names that configure tells it are those of the callbacks, and
\* register_callback is done before.
THEOREM NoCallbackUnknown == Spec => []NoUnknownCallback
  <1>1. SessionInv => NoUnknownCallback
    <2> SUFFICES ASSUME SessionInv PROVE NoUnknownCallback
      OBVIOUS
    <2>1. DOMAIN results = 1 .. Len(results)
      BY LenProperties DEF SessionInv, TransportInv, TP!TypeOK
    <2> QED
      BY <2>1 DEF SessionInv, CallsAreNamed, NoUnknownCallback
  <1> QED
    BY <1>1, SessionInvariant, PTL

\* What the composition does to the client's variables TransportClient does
\* too, so the composition implements the request service of its users.
THEOREM ImplementsService == Spec => CP!Service!Safety
  <1>1. Init => CP!Init
    BY SameClient DEF Init
  <1>2. [Next]_vars => [CP!Next]_CP!vars
    <2>1. UNCHANGED clientVars => UNCHANGED CP!vars
      BY DEF clientVars, CP!vars, CP!user
    <2> QED
      BY <2>1, ClientPart
  <1>3. Spec => CP!Spec
    BY <1>1, <1>2, PTL DEF Spec, CP!Spec
  <1>4. CP!ClientAssumption
    BY ComponentAssumption
       DEF C!ClientAssumption, CP!ClientAssumption, C!IsFiniteSet, CP!IsFiniteSet
  <1>5. CP!Spec => CP!Service!Safety
    BY <1>4, CP!ImplementsService
  <1> QED
    BY <1>3, <1>5
=============================================================================
