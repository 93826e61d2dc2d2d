---------------------------- MODULE TsgoTransport ----------------------------
(***************************************************************************)
(* The transport of tsgo-transport/src/transport.rs: one thread that owns  *)
(* a TsgoTransport and the tsgo child process at the other end of three    *)
(* pipes.  A request is one message on the child's stdin, then a loop that *)
(* reads the child's stdout until a final answer; the child may call back  *)
(* in between.  Nothing in the loop compares an answer with the request it *)
(* belongs to: the pairing rests on both ends being in lockstep, and this  *)
(* module is about when they are.                                          *)
(*                                                                         *)
(* stdout is a byte stream.  Its unit is a run of bytes: a message is len  *)
(* units long, a read takes between one unit and ReadCap of them (the      *)
(* 1024-byte temp_buf), and what a read returns beyond the first complete  *)
(* message is lost with the local buffer.  Requests are numbered by the    *)
(* order of the calls; a message carries the number of the request it      *)
(* belongs to (of), which the code cannot see and the properties can.      *)
(***************************************************************************)
EXTENDS Integers, Sequences

CONSTANTS
  MaxRequests,  \* bound: calls to request/request_binary on one transport
  MaxLen,       \* bound: units in the longest message of the child
  ReadCap,      \* units that fit into temp_buf
  PipeCap,      \* units that fit into the stdout pipe
  StderrCap,    \* log lines that fit into the stderr pipe, which nobody reads
  Methods,      \* callback methods the child may call
  NoMethod,     \* the method of a message that is no Call
  Answers       \* [type, form] of the final answers the child may send

Types == {"Response", "Error", "Call", "Other"}   \* MessageType, as read
Forms == {"json", "text", "raw"}  \* payload: JSON, UTF-8 but not JSON, not UTF-8

ASSUME TransportAssumption ==
  /\ MaxRequests \in Nat
  /\ MaxLen \in Nat \ {0} /\ ReadCap \in Nat \ {0} /\ PipeCap \in Nat \ {0}
  /\ StderrCap \in Nat
  /\ NoMethod \notin Methods
  /\ Answers \subseteq [type : Types \ {"Call"}, form : Forms]

VARIABLES
  phase,      \* where the owner of the transport is
  callbacks,  \* the methods with a registered callback
  buf,        \* read_message's buffer, kept from one read to the next
  calling,    \* the method handle_callback is executing
  results,    \* what the calls so far returned; the next call has number cur
  stdin,      \* messages written to the child and not yet read by it
  stream,     \* units written by the child and not yet returned by a read
  sstate,     \* what the child is doing
  sreq,       \* the request the child last accepted
  sout,       \* units of the child's current message still to be written
  stderr      \* log lines in the stderr pipe

client == <<phase, callbacks, buf, calling, results>>
server == <<sstate, sreq, sout, stderr>>
vars == <<client, server, stdin, stream>>

cur == Len(results) + 1

Message ==
  {m \in [type : Types, form : Forms, of : 1 .. MaxRequests,
          method : Methods \cup {NoMethod}, len : 1 .. MaxLen] :
     m.type = "Call" <=> m.method # NoMethod}
Unit == [msg : Message, at : 1 .. MaxLen]
Sent == [type : {"Request", "CallResponse", "CallError"}, of : 1 .. MaxRequests]

Units(m) == [i \in 1 .. m.len |-> [msg |-> m, at |-> i]]

Init ==
  /\ phase = "idle" /\ callbacks = {} /\ buf = <<>> /\ calling = NoMethod
  /\ results = <<>> /\ stdin = <<>> /\ stream = <<>>
  /\ sstate = "idle" /\ sreq = 0 /\ sout = <<>> /\ stderr = 0

-----------------------------------------------------------------------------
(* The owner of the transport.                                             *)

\* Changed: the buffer outlives the call.
ReturnKeepingBuffer(kind, of) ==
  /\ results' = Append(results, [kind |-> kind, of |-> of])
  /\ phase' = "idle" /\ calling' = NoMethod /\ UNCHANGED buf

\* A call returns: kind is Ok or the TransportError, of the request answered.
Return(kind, of) ==
  /\ results' = Append(results, [kind |-> kind, of |-> of])
  /\ phase' = "idle" /\ buf' = <<>> /\ calling' = NoMethod

\* Changed: a write that is retried puts the message on the pipe twice.
SendTwice(type, then) ==
  IF sstate = "exited"
  THEN Return("io", 0) /\ UNCHANGED stdin
  ELSE LET msg == [type |-> type, of |-> cur] IN
       stdin' = stdin \o <<msg, msg>> /\ then

\* send_message; a pipe without reader fails the write (EPIPE, Io).
Send(type, then) ==
  IF sstate = "exited"
  THEN Return("io", 0) /\ UNCHANGED stdin
  ELSE /\ stdin' = Append(stdin, [type |-> type, of |-> cur])
       /\ then

RegisterCallback(m) ==
  /\ phase = "idle" /\ m \notin callbacks
  /\ callbacks' = callbacks \cup {m}
  /\ UNCHANGED <<phase, buf, calling, results, stdin, stream, server>>

Request ==
  /\ phase = "idle" /\ Len(results) < MaxRequests
  /\ Send("Request", phase' = "reading" /\ UNCHANGED <<buf, calling, results>>)
  /\ UNCHANGED <<callbacks, stream, server>>

\* Changed: the payload is parsed after the request went out.
RejectAfterSending ==
  /\ phase = "idle" /\ Len(results) < MaxRequests
  /\ Send("Request", Return("payload", 0))
  /\ UNCHANGED <<callbacks, stream, server>>

\* request_binary refuses bytes that are not JSON text before it sends.
RejectPayload ==
  /\ phase = "idle" /\ Len(results) < MaxRequests
  /\ Return("payload", 0)
  /\ UNCHANGED <<callbacks, stdin, stream, server>>

\* Changed: the payload is read with read instead of read_exact.
DecodeShort(b) ==
  IF b[1].at # 1 THEN {"retry"}
  ELSE IF b[1].msg.form = "json" THEN {"ok"} ELSE {"json"}

(***************************************************************************)
(* The outcomes of ProtocolMessage::decode on what has been read so far.   *)
(* Bytes from the middle of a message fail for good on their first byte:   *)
(* with a marker error, or with one of the three errors read_message       *)
(* retries on, and then with the same one at every later attempt.          *)
(***************************************************************************)
Decode(b) ==
  LET m == b[1].msg IN
  IF b[1].at # 1 THEN IF buf = <<>> THEN {"garbage", "retry"} ELSE {"retry"}
  ELSE IF Len(b) < m.len THEN {"partial"}
  ELSE CASE m.form = "json" -> {"ok"}
         [] m.form = "text" -> {"json"}
         [] m.form = "raw"  -> {"retry"}

\* The match of request on a decoded message.
Handle(m) ==
  CASE m.type = "Response" -> Return("ok", m.of)
    [] m.type = "Error"    -> Return("serverError", m.of)
    [] m.type = "Call"     -> /\ phase' = "calling" /\ calling' = m.method
                              /\ buf' = <<>> /\ UNCHANGED results
    [] m.type = "Other"    -> Return("invalid", m.of)

\* Changed: a retry skips the head of what it could not decode.
ReadResyncing(n) ==
  LET got == buf \o SubSeq(stream, 1, n) IN
  /\ phase = "reading" /\ n <= Len(stream)
  /\ stream' = SubSeq(stream, n + 1, Len(stream))
  /\ \E v \in Decode(got) :
       CASE v = "ok"    -> Handle(got[1].msg)
         [] v = "json"  -> Return("json", got[1].msg.of)
         [] v = "retry" -> buf' = Tail(got) /\ UNCHANGED <<phase, calling, results>>
         [] OTHER       -> Return(v, 0)
  /\ UNCHANGED <<callbacks, stdin, server>>

\* One iteration of read_message, and the match if it yields a message.
Read(n) ==
  LET got == buf \o SubSeq(stream, 1, n) IN
  /\ phase = "reading" /\ n <= Len(stream)
  /\ stream' = SubSeq(stream, n + 1, Len(stream))
  /\ \E v \in Decode(got) :
       CASE v = "ok"    -> Handle(got[1].msg)
         [] v = "json"  -> Return("json", got[1].msg.of)
         [] v = "retry" -> buf' = got /\ UNCHANGED <<phase, calling, results>>
         [] OTHER       -> Return(v, 0)
  /\ UNCHANGED <<callbacks, stdin, server>>

\* Changed: an empty pipe is taken for a closed one.
ReadEmpty ==
  /\ phase = "reading" /\ stream = <<>>
  /\ Return("closed", 0)
  /\ UNCHANGED <<callbacks, stdin, stream, server>>

ReadEof ==
  /\ phase = "reading" /\ stream = <<>> /\ sstate = "exited"
  /\ Return("closed", 0)
  /\ UNCHANGED <<callbacks, stdin, stream, server>>

\* read fails (EINTR is not retried): the call ends, wherever the child is.
ReadFails ==
  /\ phase = "reading"
  /\ Return("readError", 0)
  /\ UNCHANGED <<callbacks, stdin, stream, server>>

\* Changed: the callback's result is never sent.
CallbackUnanswered ==
  /\ phase = "calling" /\ calling \in callbacks
  /\ phase' = "reading" /\ calling' = NoMethod
  /\ UNCHANGED <<callbacks, buf, results, stdin, stream, server>>

\* handle_callback: the callback runs and its result goes to the child.
CallbackSucceeds ==
  /\ phase = "calling" /\ calling \in callbacks
  /\ Send("CallResponse",
          phase' = "reading" /\ calling' = NoMethod /\ UNCHANGED <<buf, results>>)
  /\ UNCHANGED <<callbacks, stream, server>>

\* The callback fails: the error ends the request and nothing is sent.
CallbackFails ==
  /\ phase = "calling" /\ calling \in callbacks
  /\ Return("callback", 0)
  /\ UNCHANGED <<callbacks, stdin, stream, server>>

\* No callback of that name: CallError, and the error ends the request too.
UnknownCallback ==
  /\ phase = "calling" /\ calling \notin callbacks
  /\ Send("CallError", Return("unknown", 0))
  /\ UNCHANGED <<callbacks, stream, server>>

\* close drops stdin and waits for the child; stdout and stderr stay open.
Close ==
  /\ phase = "idle" /\ phase' = "closing"
  /\ UNCHANGED <<callbacks, buf, calling, results, stdin, stream, server>>


StdinDropped == phase \in {"closing", "closed", "dropped"}

Reap ==
  /\ phase = "closing" /\ sstate = "exited" /\ phase' = "closed"
  /\ UNCHANGED <<callbacks, buf, calling, results, stdin, stream, server>>

\* Dropped without close: every pipe end is closed and nobody waits.
Drop ==
  /\ phase = "idle" /\ phase' = "dropped"
  /\ UNCHANGED <<callbacks, buf, calling, results, stdin, stream, server>>

-----------------------------------------------------------------------------
(* The child process (external): a server that works on one request at a   *)
(* time, may call back while it does, and finishes each message it started *)
(* to write before it does anything else.                                  *)

Writes(m) == sout' = Units(m)

Reads(type) ==
  /\ sout = <<>> /\ stdin # <<>> /\ Head(stdin).type = type
  /\ stdin' = Tail(stdin)

Accept ==
  /\ sstate = "idle" /\ Reads("Request")
  /\ sstate' = "working" /\ sreq' = Head(stdin).of
  /\ UNCHANGED <<client, stream, sout, stderr>>

Answer ==
  /\ sstate = "working"
  /\ \E a \in Answers, l \in 1 .. MaxLen :
       Writes([type |-> a.type, form |-> a.form, of |-> sreq,
               method |-> NoMethod, len |-> l])
  /\ sstate' = "idle"
  /\ UNCHANGED <<client, stdin, stream, sreq, stderr>>

CallBack ==
  /\ sstate = "working"
  /\ \E m \in Methods, l \in 1 .. MaxLen :
       Writes([type |-> "Call", form |-> "json", of |-> sreq,
               method |-> m, len |-> l])
  /\ sstate' = "awaiting"
  /\ UNCHANGED <<client, stdin, stream, sreq, stderr>>

TakeReply ==
  /\ sstate = "awaiting"
  /\ Reads("CallResponse") \/ Reads("CallError")
  /\ sstate' = "working"
  /\ UNCHANGED <<client, stream, sreq, sout, stderr>>

\* A request while a reply is due: the child gives the open request up.
Interrupted ==
  /\ sstate = "awaiting" /\ Reads("Request")
  /\ Writes([type |-> "Error", form |-> "json", of |-> sreq,
             method |-> NoMethod, len |-> 1])
  /\ sstate' = "idle"
  /\ UNCHANGED <<client, stream, sreq, stderr>>

\* A reply nobody waits for: the child's main loop expects a request and ends.
Refuse ==
  /\ sstate = "idle" /\ (Reads("CallResponse") \/ Reads("CallError"))
  /\ sstate' = "exited"
  /\ UNCHANGED <<client, stream, sreq, sout, stderr>>

\* stdout has room unless PipeCap units are waiting to be read.
WriteUnit ==
  /\ sout # <<>> /\ Len(stream) < PipeCap /\ phase # "dropped"
  /\ stream' = Append(stream, Head(sout)) /\ sout' = Tail(sout)
  /\ UNCHANGED <<client, stdin, sstate, sreq, stderr>>

\* A line on stderr; when that pipe is full the child stops in the write.
Log ==
  /\ sstate \in {"idle", "working"} /\ sout = <<>> /\ phase # "dropped"
  /\ IF stderr < StderrCap
     THEN stderr' = stderr + 1 /\ UNCHANGED sstate
     ELSE sstate' = "blocked" /\ UNCHANGED stderr
  /\ UNCHANGED <<client, stdin, stream, sreq, sout>>

Exit ==
  /\ sstate' = "exited" /\ sout' = <<>>
  /\ UNCHANGED <<client, stdin, stream, sreq, stderr>>

\* The child may crash at any point.
Die == sstate \notin {"exited", "blocked"} /\ Exit

\* End of file on stdin ends the child; so does a write nobody can read.
SeeEof ==
  \/ /\ StdinDropped /\ stdin = <<>>
     /\ sstate \in {"idle", "awaiting"} /\ sout = <<>>
     /\ Exit
  \/ /\ phase = "dropped" /\ (sstate = "blocked" \/ sout # <<>>)
     /\ Exit

-----------------------------------------------------------------------------
Client ==
  \/ \E m \in Methods : RegisterCallback(m)
  \/ Request \/ RejectPayload
  \/ \E n \in 1 .. ReadCap : Read(n)
  \/ ReadEof \/ ReadFails
  \/ CallbackSucceeds \/ CallbackFails \/ UnknownCallback
  \/ Close \/ Reap \/ Drop

Server ==
  \/ Accept \/ Answer \/ CallBack \/ TakeReply \/ Interrupted \/ Refuse
  \/ WriteUnit \/ Log \/ Die \/ SeeEof

Next == Client \/ Server

Spec == Init /\ [][Next]_vars

(***************************************************************************)
(* The owner executes its own steps, and no read has to fail.  A child      *)
(* that is not stopped in a write goes on with its own, and answers a      *)
(* request after finitely many callbacks (SF: each callback disables       *)
(* Answer for a while).                                                    *)
(***************************************************************************)
Fairness ==
  /\ WF_vars(\E n \in 1 .. ReadCap : Read(n)) /\ WF_vars(ReadEof)
  /\ WF_vars(CallbackSucceeds \/ CallbackFails) /\ WF_vars(UnknownCallback)
  /\ WF_vars(Reap)
  /\ WF_vars(Accept) /\ SF_vars(Answer) /\ WF_vars(TakeReply)
  /\ WF_vars(Interrupted) /\ WF_vars(Refuse) /\ WF_vars(WriteUnit)
  /\ WF_vars(SeeEof)

FairSpec == Spec /\ Fairness

-----------------------------------------------------------------------------
(* Correctness.                                                            *)

Kinds == {"ok", "serverError", "invalid", "json", "payload", "io", "closed",
          "readError", "partial", "garbage", "callback", "unknown"}

\* The errors of request that leave the child in the middle of the exchange.
Desync == {"readError", "partial", "garbage", "callback", "unknown"}

Tainted == \E i \in DOMAIN results : results[i].kind \in Desync

\* Every variable has its type, and calling names a method exactly while
\* handle_callback runs.
TypeOK ==
  /\ phase \in {"idle", "reading", "calling", "closing", "closed", "dropped"}
  /\ callbacks \subseteq Methods
  /\ buf \in Seq(Unit) /\ (buf # <<>> => phase = "reading")
  /\ calling \in Methods \cup {NoMethod}
  /\ phase = "calling" <=> calling # NoMethod
  /\ results \in Seq([kind : Kinds, of : 0 .. MaxRequests])
  /\ Len(results) + (IF phase \in {"reading", "calling"} THEN 1 ELSE 0)
       <= MaxRequests
  /\ stdin \in Seq(Sent) /\ stream \in Seq(Unit)
  /\ sstate \in {"idle", "working", "awaiting", "blocked", "exited"}
  /\ sreq \in 0 .. MaxRequests /\ sout \in Seq(Unit)
  /\ sstate \in {"working", "awaiting"} => sreq # 0
  /\ stderr \in 0 .. StderrCap

\* An answer returned to a caller is the child's answer to that very call, as
\* long as no earlier call of request ended in the middle of an exchange.
OwnAnswer ==
  \A i \in DOMAIN results :
    (/\ results[i].of # 0
     /\ \A j \in 1 .. i - 1 : results[j].kind \notin Desync)
    => results[i].of = i

\* Even after such an error no answer reaches two calls, and answers reach the
\* calls in the order in which the requests were sent.
AnswersInOrder ==
  \A i, j \in DOMAIN results :
    i < j /\ results[i].of # 0 /\ results[j].of # 0
      => results[i].of < results[j].of

Quiet == stream = <<>> /\ sout = <<>>
Stopped == sstate \in {"blocked", "exited"}

\* The child is back in its main loop, or it has stopped.
AtRest == Quiet /\ (Stopped \/ (sstate = "idle" /\ stdin = <<>>))

\* Between two calls nothing is under way: no byte of an answer waits on
\* stdout, and a child that still runs is back in its main loop, or stopped
\* in a write to stderr.
QuietWhenIdle == phase = "idle" /\ ~Tainted => AtRest

\* handle_callback runs: the child waits for its reply.
InCallback == Quiet /\ (Stopped \/ (/\ sstate = "awaiting" /\ sreq = cur
                                   /\ stdin = <<>>))

\* The call waits for the child's next message, which is not yet there.
Pending ==
  /\ buf = <<>> /\ Quiet
  /\ \/ sstate = "idle" /\ stdin = <<[type |-> "Request", of |-> cur]>>
     \/ /\ sstate = "awaiting" /\ sreq = cur
        /\ stdin = <<[type |-> "CallResponse", of |-> cur]>>
     \/ sstate = "working" /\ sreq = cur /\ stdin = <<>>

\* One message m on its way to the call: whatever has been read of it, waits
\* on stdout or is still to be written is of m, and together no more than m.
Exchange(m) ==
  /\ m.of = cur /\ (m.type = "Call" => m.form = "json")
  /\ \A i \in 1 .. Len(buf) : buf[i].msg = m
  /\ \A i \in 1 .. Len(stream) : stream[i].msg = m
  /\ \A i \in 1 .. Len(sout) : sout[i].msg = m
  /\ Len(buf) + Len(stream) + Len(sout) <= m.len

\* What the child does once it has started to write m.
Sender(m) ==
  \/ sstate = "exited" /\ sout = <<>>
  \/ sstate = "blocked" /\ m.type # "Call"
  \/ sstate = "idle" /\ m.type # "Call" /\ stdin = <<>>
  \/ sstate = "awaiting" /\ m.type = "Call" /\ sreq = cur /\ stdin = <<>>

\* The two ends are in lockstep: the child is where the owner's phase expects
\* it, and at most one message is under way, of the call that is being served.
Lockstep ==
  /\ phase \notin {"reading", "calling"} => AtRest
  /\ phase = "calling" => InCallback
  /\ phase = "reading" =>
       Pending \/ \E m \in Message : Exchange(m) /\ Sender(m)

\* The inductive invariant behind OwnAnswer and QuietWhenIdle: the ends are in
\* lockstep until a call ends in the middle of an exchange.
LockstepInv == TypeOK /\ OwnAnswer /\ (Tainted \/ Lockstep)

\* read_message retries with a buffer it never shortens, so it retries in
\* vain: a call that has retried once ends only when stdout does or fails.
RetryNeverAnswers ==
  [][buf # <<>> /\ results' # results
       => results'[cur].kind \in {"closed", "readError"}]_vars

\* A call ends with the decoder's end-of-data error only if the child died in
\* the middle of its answer.
PartialOnlyOfTheDead ==
  [][results' # results /\ results'[cur].kind = "partial"
       => sstate = "exited"]_vars

\* Every call gets its own answer, whatever errors the calls before it returned
\* for what the child or a callback did.
EveryAnswerOwn ==
  (\A i \in DOMAIN results : results[i].kind # "readError")
  => \A i \in DOMAIN results : results[i].of # 0 => results[i].of = i

\* A call of request returns, or the child is stopped in a write to stderr, or
\* read_message has begun to retry.
CallsReturn ==
  phase \in {"reading", "calling"} /\ ~Tainted
    ~> phase = "idle" \/ sstate = "blocked" \/ buf # <<>>

\* A call that retries returns: the rest of the message will come.
RetriesReturn ==
  buf # <<>> /\ ~Tainted ~> phase = "idle" \/ sstate = "blocked"

=============================================================================
