---------------------------- MODULE ClientSession ----------------------------
(***************************************************************************)
(* One life of a Client (tsgo-client/src/client.rs), from Client::new to   *)
(* the end of the child process: the threads, the worker and the handles   *)
(* of TransportClient, composed with the pipes and the child of            *)
(* TsgoTransport.  A step of one of the two leaves the other alone, except *)
(* where worker_loop calls the transport and where the transport returns.  *)
(*                                                                         *)
(* The registry owns a handle as long as any user of the client does, so   *)
(* that Client::close never finds itself the only owner: Shutdown is never *)
(* sent, and the transport is never closed, only dropped.                  *)
(***************************************************************************)
EXTENDS Integers, Sequences, FiniteSets

CONSTANTS
  Threads, MaxCalls,   \* as in TransportClient
  registry,            \* the ObjectRegistry, which owns a handle
  fs,                  \* the user's file system, which may own one
  MaxRequests, MaxLen, ReadCap, PipeCap, StderrCap,
  NoMethod, Answers,   \* as in TsgoTransport
  Called               \* bound: the methods tsgo calls, if it is told their names

\* Every call can be served: configure and all calls fit under the bound.
ASSUME SessionAssumption ==
  /\ registry # fs
  /\ MaxRequests > MaxCalls * Cardinality(Threads)

Objects == {registry, fs}

VARIABLES
  handles, pc, calls, reply, returned, queue, worker, serving, child, closed,
  phase, callbacks, buf, calling, results, stdin, stream,
  sstate, sreq, sout, stderr,
  stage,   \* how far TransportClient::new has come, or how the client is stuck
  hasFs,   \* options.fs: the user gave a file system
  asked    \* asked[k]: the command whose request is the transport's k-th

\* The methods of VirtualFileSystem that tsgo calls.
Methods ==
  {"readFile", "fileExists", "directoryExists", "realpath", "getAccessibleEntries"}

C == INSTANCE TransportClient
T == INSTANCE TsgoTransport

ASSUME ComponentAssumption == C!ClientAssumption /\ T!TransportAssumption

clientVars == <<handles, pc, calls, reply, returned, queue, worker, serving,
                child, closed>>
transportVars == <<phase, callbacks, buf, calling, results, stdin, stream,
                   sstate, sreq, sout, stderr>>
vars == <<clientVars, transportVars, stage, hasFs, asked>>

Configuration == [kind |-> "Configure"]

Init ==
  /\ C!Init /\ handles \in {{t, registry} : t \in Threads}
  /\ T!Init
  /\ stage = "new" /\ hasFs \in BOOLEAN /\ asked = <<>>

\* Only the transport, or only the client, takes a step.
Transport(A) == A /\ UNCHANGED <<clientVars, stage, hasFs, asked>>
Client(A) == A /\ stage \in {"ready", "stuck"} /\ UNCHANGED <<transportVars, stage, hasFs, asked>>

\* The transport is dropped, by the owner's return or in the middle of a call.
DropTransport ==
  /\ phase' = "dropped" /\ buf' = <<>> /\ calling' = NoMethod
  /\ UNCHANGED <<callbacks, results, stdin, stream, sstate, sreq, sout, stderr>>

-----------------------------------------------------------------------------
(* TransportClient::new, on the thread that calls it.                      *)

\* Changed: one of the callbacks is forgotten.
FsCallbacksOneShort == {"readFile", "fileExists", "directoryExists", "realpath"}

\* The callbacks of register_fs_callbacks ...
FsCallbacks ==
  {"readFile", "fileExists", "directoryExists", "realpath", "getAccessibleEntries"}

\* ... and callback_names, the list that configure tells the child.
CallbackNames ==
  IF hasFs
  THEN {"readFile", "fileExists", "directoryExists", "realpath", "getAccessibleEntries"}
  ELSE {}

Register(m) ==
  /\ stage = "new" /\ hasFs /\ m \in FsCallbacks
  /\ Transport(T!RegisterCallback(m))

Configure ==
  /\ stage = "new" /\ (hasFs => FsCallbacks \subseteq callbacks) /\ stage' = "configuring"
  /\ T!Request /\ asked' = <<Configuration>>
  /\ UNCHANGED <<clientVars, hasFs>>

\* configure has returned, and the worker thread is spawned ...
Spawn ==
  /\ stage = "configuring" /\ phase = "idle" /\ results[1].kind = "ok"
  /\ stage' = "ready"
  /\ UNCHANGED <<clientVars, transportVars, hasFs, asked>>

\* Changed: the transport outlives a failed configure.
FailKeeping ==
  /\ stage = "configuring" /\ phase = "idle" /\ results[1].kind # "ok"
  /\ stage' = "failed"
  /\ UNCHANGED <<clientVars, transportVars, hasFs, asked>>

\* ... or new fails, by an error or the panic of a callback.
Fail ==
  /\ stage = "configuring"
  /\ \/ phase = "idle" /\ results[1].kind # "ok"
     \/ phase = "calling" /\ calling \in callbacks
  /\ stage' = "failed" /\ DropTransport
  /\ UNCHANGED <<clientVars, hasFs, asked>>

-----------------------------------------------------------------------------
(* The threads.                                                            *)

Call(t) == Client(C!Request(t))
Receive(t) == Client(C!Receive(t))

Share(t, o) == Client(C!Share(t, o))

\* The registry goes with the last user, a thread or fs.  A user owns the Client,
\* or a wrapper, which holds the registry and calls (release) through it.
DropHandle(o) ==
  /\ o = registry => handles = {registry}
  /\ o = fs => stage # "stuck"
  /\ Client(C!DropHandle(o))

Close(t) == handles \ {registry} = {t} /\ Client(C!ClientClose(t))

-----------------------------------------------------------------------------
(* worker_loop.                                                            *)

\* A command is taken and its request sent.
Serve ==
  /\ stage = "ready" /\ C!Take /\ (T!Request \/ T!RejectPayload)
  /\ asked' = Append(asked, Head(queue))
  /\ UNCHANGED <<stage, hasFs>>

Running == (stage = "ready" /\ worker = "busy") \/ stage = "configuring"

\* transport.request at work.
Read == Running /\ Transport(\E n \in 1 .. ReadCap : T!Read(n))
ReadEof == Running /\ Transport(T!ReadEof)
ReadFails == Running /\ Transport(T!ReadFails)
HandleCallback ==
  Running /\ Transport(T!CallbackSucceeds \/ T!CallbackFails \/ T!UnknownCallback)

\* Changed: the reply does not wait for the transport.
ReplyEarly ==
  /\ stage = "ready" /\ C!Finish
  /\ UNCHANGED <<transportVars, stage, hasFs, asked>>

\* transport.request has returned, and its result goes to the thread.
Reply ==
  /\ stage = "ready" /\ phase = "idle" /\ C!Finish
  /\ reply'[serving.thread].kind =
       IF results[Len(results)].kind = "ok" THEN "ok" ELSE "error"
  /\ UNCHANGED <<transportVars, stage, hasFs, asked>>

\* A callback of fs calls the client it serves: the worker waits for a reply
\* that only the worker could send, and the command stays in the channel.
Reenter ==
  /\ stage = "ready" /\ phase = "calling" /\ calling \in callbacks
  /\ worker = "busy" /\ fs \in handles
  /\ stage' = "stuck"
  /\ UNCHANGED <<clientVars, transportVars, hasFs, asked>>

Panic ==
  /\ stage = "ready" /\ phase = "calling" /\ calling \in callbacks /\ C!Panic
  /\ UNCHANGED <<transportVars, stage, hasFs, asked>>

Unwind == C!Unwind /\ DropTransport /\ UNCHANGED <<stage, hasFs, asked>>

\* Changed: the pipes stay open when the worker ends.
DisconnectKeeping ==
  stage = "ready" /\ C!Disconnect /\ UNCHANGED <<transportVars, stage, hasFs, asked>>

Disconnect ==
  stage = "ready" /\ C!Disconnect /\ T!Drop /\ UNCHANGED <<stage, hasFs, asked>>

-----------------------------------------------------------------------------
(* The child (external): TsgoTransport's, which calls back by the names it *)
(* was given, once it has accepted configure.                              *)

CallBack == T!CallBack /\ Head(sout').msg.method \in CallbackNames \cap Called

Child ==
  Transport(\/ T!Accept \/ T!Answer \/ CallBack \/ T!TakeReply \/ T!Interrupted
            \/ T!Refuse \/ T!WriteUnit \/ T!Log \/ T!Die \/ T!SeeEof)

Next ==
  \/ \E m \in Methods : Register(m)
  \/ Configure \/ Spawn \/ Fail
  \/ \E t \in Threads : Call(t) \/ Receive(t) \/ Close(t)
  \/ \E t \in Threads, o \in Threads \cup {fs} : Share(t, o)
  \/ \E o \in C!Owners : DropHandle(o)
  \/ Serve \/ Read \/ ReadEof \/ ReadFails \/ HandleCallback \/ Reply
  \/ Reenter \/ Panic \/ Unwind \/ Disconnect
  \/ Child

Spec == Init /\ [][Next]_vars

\* The fairness of the components: what a thread of the client executes goes
\* on, the child goes on and answers after finitely many callbacks.
Fairness ==
  /\ WF_vars(Spawn) /\ WF_vars(Fail) /\ WF_vars(Unwind) /\ WF_vars(Disconnect)
  /\ \A t \in Threads : WF_vars(Receive(t))
  /\ WF_vars(Serve) /\ WF_vars(Reply)
  /\ WF_vars(Read) /\ WF_vars(ReadEof)
  /\ WF_vars(HandleCallback)
  /\ WF_vars(Transport(T!Accept)) /\ SF_vars(Transport(T!Answer))
  /\ WF_vars(Transport(T!TakeReply)) /\ WF_vars(Transport(T!Interrupted))
  /\ WF_vars(Transport(T!Refuse)) /\ WF_vars(Transport(T!WriteUnit))
  /\ WF_vars(Transport(T!SeeEof))

FairSpec == Spec /\ Fairness

-----------------------------------------------------------------------------
(* Correctness.                                                            *)

\* Both components keep their types, and the worker is in the transport
\* exactly while it serves a command.
TypeOK ==
  /\ C!TypeOK /\ T!TypeOK
  /\ stage \in {"new", "configuring", "ready", "stuck", "failed"}
  /\ hasFs \in BOOLEAN
  /\ asked \in Seq(C!Commands \cup {Configuration})
  /\ phase \in {"reading", "calling"} =>
       stage = "configuring" \/ worker \in {"busy", "unwinding"}
  /\ worker = "exited" <=> phase = "dropped" /\ stage # "failed"

\* From end to end: when a thread's n-th call succeeds, the child has answered
\* the request that the worker sent for exactly this call, unless an earlier
\* request had ended in the middle of its exchange.
AnswersOwnCall ==
  \A t \in Threads : \A n \in DOMAIN returned[t] :
    returned[t][n].kind = "ok" =>
      \E k \in DOMAIN asked \cap DOMAIN results :
        /\ asked[k] = C!Cmd(t, n) /\ results[k].kind = "ok"
        /\ results[k].of = k \/ \E j \in 1 .. k - 1 : results[j].kind \in T!Desync

\* No call of the child meets a callback that is not registered.
NoUnknownCallback == \A k \in DOMAIN results : results[k].kind # "unknown"

\* read_message has met a message that it retries to decode.
Retrying == buf # <<>>

\* TransportClient::new returns, and so does every call, whatever the callbacks
\* do and wherever earlier calls have left the child, but for three cases: a file
\* system called its own client, the child is stopped in a write to stderr, or
\* read_message retries for ever, as it does on an answer that is not UTF-8.
EveryCallReturns ==
  /\ stage = "configuring"
       ~> stage \in {"ready", "failed"} \/ sstate = "blocked" \/ []Retrying
  /\ \A t \in Threads :
       pc[t] = "receiving"
         ~> pc[t] = "idle" \/ stage = "stuck" \/ sstate = "blocked" \/ []Retrying

\* Without an owner the child ends, wherever it is, and so does the child of a
\* client that could not be made.
ChildEnds == handles = {} \/ stage = "failed" ~> sstate = "exited"
=============================================================================
