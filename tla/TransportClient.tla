-------------------------- MODULE TransportClient ---------------------------
(***************************************************************************)
(* TransportClient of tsgo-client/src/client.rs: threads that share one    *)
(* handle put commands on an unbounded channel, each with a one-shot reply *)
(* channel, and block on that; one worker thread owns the TsgoTransport    *)
(* and serves the commands in order.                                       *)
(*                                                                         *)
(* The Rust handle is an Arc<TransportClient>: handles is the set of its   *)
(* owners, threads or other objects such as the ObjectRegistry.  A command *)
(* carries the number of the call, which the code cannot see, and so does  *)
(* a result.  What happens inside transport.request is TsgoTransport's     *)
(* matter: here it succeeds, fails, or panics in a file-system callback.   *)
(***************************************************************************)
EXTENDS Integers, Sequences, FiniteSets, Functions

CONSTANTS
  Threads,   \* threads that call the client
  Objects,   \* owners of a handle that never call, such as the registry
  MaxCalls   \* bound: calls of one thread

ASSUME ClientAssumption ==
  /\ MaxCalls \in Nat /\ IsFiniteSet(Threads) /\ Threads # {}
  /\ Threads \cap Objects = {}

Owners == Threads \cup Objects

VARIABLES
  handles,   \* owners of a clone of the Arc
  pc,        \* pc[t]: "idle", or "receiving" while t blocks on its reply
  calls,     \* calls[t]: calls t has made
  reply,     \* reply[t]: t's one-shot channel
  returned,  \* returned[t]: what t's calls returned
  queue,     \* commands sent and not yet received
  worker,    \* the worker thread
  serving,   \* the command the worker is serving
  child,     \* the child process, as the worker leaves it
  closed     \* close has returned

user == <<pc, calls, returned>>
vars == <<handles, user, reply, queue, worker, serving, child, closed>>

Shutdown == [kind |-> "Shutdown"]
Cmd(t, n) == [kind |-> "Request", thread |-> t, call |-> n]
Commands == {Cmd(t, n) : t \in Threads, n \in 1 .. MaxCalls} \cup {Shutdown}

None == [kind |-> "None"]
Empty == [kind |-> "empty", call |-> 0]   \* the sender is somewhere
Dropped == [kind |-> "closed", call |-> 0] \* the sender was dropped unused
Result == [kind : {"ok", "error"}, call : 1 .. MaxCalls]

Init ==
  /\ handles \in SUBSET Owners /\ handles \cap Threads # {}
  /\ pc = [t \in Threads |-> "idle"] /\ calls = [t \in Threads |-> 0]
  /\ reply = [t \in Threads |-> Empty]
  /\ returned = [t \in Threads |-> <<>>]
  /\ queue = <<>> /\ worker = "waiting" /\ serving = None
  /\ child = "running" /\ closed = FALSE

-----------------------------------------------------------------------------
(* The threads that hold a handle.                                         *)

\* Changed: the client keeps a clone of the receiver.
AlwaysConnected == TRUE

\* The receiver of the channel lives in the worker's stack frame.
Connected == worker # "exited"

Returns(t, r) ==
  /\ returned' = [returned EXCEPT ![t] = Append(@, r)]
  /\ pc' = [pc EXCEPT ![t] = "idle"]

\* Changed: a thread keeps one reply channel for all its calls.
RequestReusingChannel(t) ==
  /\ t \in handles /\ pc[t] = "idle" /\ calls[t] < MaxCalls
  /\ calls' = [calls EXCEPT ![t] = @ + 1]
  /\ IF Connected
     THEN /\ queue' = Append(queue, Cmd(t, calls[t] + 1))
          /\ pc' = [pc EXCEPT ![t] = "receiving"] /\ UNCHANGED returned
     ELSE Returns(t, Dropped) /\ UNCHANGED queue
  /\ UNCHANGED <<handles, reply, worker, serving, child, closed>>

\* request, request_binary, echo_binary: send the command ...
Request(t) ==
  /\ t \in handles /\ pc[t] = "idle" /\ calls[t] < MaxCalls
  /\ calls' = [calls EXCEPT ![t] = @ + 1]
  /\ IF Connected
     THEN /\ queue' = Append(queue, Cmd(t, calls[t] + 1))
          /\ reply' = [reply EXCEPT ![t] = Empty]
          /\ pc' = [pc EXCEPT ![t] = "receiving"] /\ UNCHANGED returned
     ELSE Returns(t, Dropped) /\ UNCHANGED <<queue, reply>>
  /\ UNCHANGED <<handles, worker, serving, child, closed>>

\* Changed: the thread gives up waiting after a while.
ReceiveTimeout(t) ==
  /\ pc[t] = "receiving"
  /\ Returns(t, IF reply[t] = Empty THEN Dropped ELSE reply[t])
  /\ UNCHANGED <<handles, calls, reply, queue, worker, serving, child, closed>>

\* ... and block until the reply is there, or its sender is dropped.
Receive(t) ==
  /\ pc[t] = "receiving" /\ reply[t] # Empty
  /\ Returns(t, reply[t])
  /\ UNCHANGED <<handles, calls, reply, queue, worker, serving, child, closed>>

\* Arc::clone for another owner, and the drop of an owner's Arc.
Share(t, o) ==
  /\ t \in handles /\ o \notin handles
  /\ handles' = handles \cup {o}
  /\ UNCHANGED <<user, reply, queue, worker, serving, child, closed>>

DropHandle(o) ==
  /\ o \in handles /\ (o \in Threads => pc[o] = "idle")
  /\ handles' = handles \ {o}
  /\ UNCHANGED <<user, reply, queue, worker, serving, child, closed>>

\* Changed: close takes the client by reference.
CloseShared(t) ==
  /\ t \in handles /\ pc[t] = "idle"
  /\ queue' = IF Connected THEN Append(queue, Shutdown) ELSE queue
  /\ handles' = handles \ {t} /\ closed' = TRUE
  /\ UNCHANGED <<user, reply, worker, serving, child>>

\* close takes the client by value: no other owner, and no call under way.
Close(t) ==
  /\ handles = {t} /\ pc[t] = "idle"
  /\ queue' = IF Connected THEN Append(queue, Shutdown) ELSE queue
  /\ handles' = {} /\ closed' = TRUE
  /\ UNCHANGED <<user, reply, worker, serving, child>>

\* Client::close: the client is unwrapped only if nobody else owns it.
ClientClose(t) ==
  \/ Close(t)
  \/ /\ t \in handles /\ handles # {t} /\ pc[t] = "idle"
     /\ handles' = handles \ {t} /\ closed' = TRUE
     /\ UNCHANGED <<user, reply, queue, worker, serving, child>>

-----------------------------------------------------------------------------
(* worker_loop.                                                            *)

Take ==
  /\ worker = "waiting" /\ queue # <<>>
  /\ queue' = Tail(queue)
  /\ IF Head(queue) = Shutdown
     THEN worker' = "closing" /\ UNCHANGED serving
     ELSE worker' = "busy" /\ serving' = Head(queue)
  /\ UNCHANGED <<handles, user, reply, child, closed>>

Finish ==
  /\ worker = "busy"
  /\ \E kind \in {"ok", "error"} :
       reply' = [reply EXCEPT ![serving.thread] =
                   [kind |-> kind, call |-> serving.call]]
  /\ worker' = "waiting" /\ serving' = None
  /\ UNCHANGED <<handles, user, queue, child, closed>>

\* The threads whose sender is in one of these commands lose it.
DropSenders(cmds) ==
  reply' = [t \in Threads |->
              IF \E c \in cmds : c.kind = "Request" /\ c.thread = t
              THEN Dropped ELSE reply[t]]

\* Changed: the commands in the channel outlive the receiver.
ExitLeavingQueue(how) ==
  /\ worker' = "exited" /\ serving' = None /\ queue' = <<>> /\ child' = how
  /\ UNCHANGED reply

\* The receiver goes, and with it every command still queued.
ExitWorker(how) ==
  /\ worker' = "exited" /\ serving' = None /\ queue' = <<>> /\ child' = how
  /\ DropSenders(Range(queue))

\* Shutdown: transport.close waits for the child, then the loop breaks.
Finalize ==
  /\ worker = "closing" /\ ExitWorker("reaped")
  /\ UNCHANGED <<handles, user, closed>>

\* Changed: the worker polls, and takes a disconnected channel for an empty one.
DisconnectUnseen ==
  worker = "waiting" /\ queue = <<>> /\ handles = {} /\ UNCHANGED vars

\* The last sender is gone: the loop ends and drops the transport.
Disconnect ==
  /\ worker = "waiting" /\ queue = <<>> /\ handles = {}
  /\ ExitWorker("dropped")
  /\ UNCHANGED <<handles, user, closed>>

\* Changed: the panic is caught, but the worker is still marked as serving.
PanicCaught ==
  /\ worker = "busy" /\ worker' = "waiting" /\ DropSenders({serving})
  /\ UNCHANGED <<handles, user, queue, serving, child, closed>>

\* A callback panics inside transport.request: the unwinding drops the sender
\* of the command, and then the receiver and the transport.
Panic ==
  /\ worker = "busy" /\ worker' = "unwinding" /\ serving' = None
  /\ DropSenders({serving})
  /\ UNCHANGED <<handles, user, queue, child, closed>>

Unwind ==
  /\ worker = "unwinding" /\ ExitWorker("dropped")
  /\ UNCHANGED <<handles, user, closed>>

-----------------------------------------------------------------------------
Next ==
  \/ \E t \in Threads : Request(t) \/ Receive(t) \/ ClientClose(t)
  \/ \E t \in Threads, o \in Owners : Share(t, o)
  \/ \E o \in Owners : DropHandle(o)
  \/ Take \/ Finish \/ Finalize \/ Disconnect \/ Panic \/ Unwind

Spec == Init /\ [][Next]_vars

\* Threads that are not blocked run, and transport.request returns (which
\* TsgoTransport shows for a child that is not stopped in a write).
Fairness ==
  /\ \A t \in Threads : WF_vars(Receive(t))
  /\ WF_vars(Take) /\ WF_vars(Finish) /\ WF_vars(Finalize)
  /\ WF_vars(Disconnect) /\ WF_vars(Unwind)

FairSpec == Spec /\ Fairness

-----------------------------------------------------------------------------
(* Correctness.                                                            *)

Exited == worker = "exited"

\* Every variable has its type; the worker serves a command while it is busy.
TypeOK ==
  /\ handles \subseteq Owners
  /\ pc \in [Threads -> {"idle", "receiving"}]
  /\ calls \in [Threads -> 0 .. MaxCalls]
  /\ reply \in [Threads -> Result \cup {Empty, Dropped}]
  /\ returned \in [Threads -> Seq(Result \cup {Dropped})]
  /\ queue \in Seq(Commands)
  /\ worker \in {"waiting", "busy", "closing", "unwinding", "exited"}
  /\ serving \in (Commands \ {Shutdown}) \cup {None}
  /\ worker = "busy" <=> serving # None
  /\ child \in {"running", "reaped", "dropped"} /\ closed \in BOOLEAN

\* The commands of thread t that the channel or the worker holds.
Held(t) ==
  {i \in DOMAIN queue : queue[i].kind = "Request" /\ queue[i].thread = t}
    \cup (IF serving # None /\ serving.thread = t THEN {0} ELSE {})

\* A blocked thread has its reply, or exactly one command of it is still with
\* the channel or the worker and is of its present call; a thread that is not
\* blocked has none.  Nobody waits for a sender that no longer exists.
NoOrphan ==
  \A t \in Threads :
    /\ pc[t] = "receiving" /\ reply[t] = Empty =>
         /\ Cardinality(Held(t)) = 1
         /\ \A i \in Held(t) :
              (IF i = 0 THEN serving ELSE queue[i]).call = calls[t]
    /\ pc[t] = "idle" \/ reply[t] # Empty => Held(t) = {}

\* The n-th call of a thread returns the result of the n-th command that this
\* thread sent, or that the connection is closed.
OwnReplies ==
  \A t \in Threads :
    /\ Len(returned[t]) = calls[t] - (IF pc[t] = "receiving" THEN 1 ELSE 0)
    /\ \A i \in DOMAIN returned[t] : returned[t][i].call \in {0, i}

\* Shutdown and the drop of the last handle discard no call: when the worker
\* ends otherwise than by a panic, no thread has a call under way.
EndsLoseNothing ==
  [][~Exited /\ Exited' /\ worker # "unwinding"
       => \A t \in Threads : pc[t] = "idle"]_vars

\* Every blocked thread is woken, also when the worker panics.
Woken == \A t \in Threads : pc[t] = "receiving" ~> pc[t] = "idle"

\* Without an owner the worker ends, after close and after a drop alike.
WorkerEnds == handles = {} ~> Exited

\* Where the call of each thread is, as the service sees it.
CallOf(control, channel) ==
  CASE control = "idle" -> "idle"
    [] control # "idle" /\ channel = Empty -> "pending"
    [] control # "idle" /\ channel.kind = "ok" -> "answered"
    [] control # "idle" /\ channel.kind \in {"error", "closed"} -> "failed"

Progress == [t \in Threads |-> CallOf(pc[t], reply[t])]

Service == INSTANCE RequestService WITH up <- Connected, call <- Progress

\* The client implements the request service its users rely on.
ServiceSpec == Service!Spec
=============================================================================
