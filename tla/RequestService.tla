--------------------------- MODULE RequestService ---------------------------
(***************************************************************************)
(* What TransportClient (tsgo-client/src/client.rs) promises to the        *)
(* threads that share it: each call of request is served once, or fails,   *)
(* and only then it returns; when the worker ends, the calls it has not    *)
(* served fail, and later calls fail at once.                              *)
(***************************************************************************)
CONSTANT Threads

VARIABLES
  call,  \* call[t]: where thread t's call is
  up     \* the worker still takes calls

States == {"idle", "pending", "answered", "failed"}

Init == call = [t \in Threads |-> "idle"] /\ up = TRUE

Move(t, from, to) == call[t] \in from /\ call' = [call EXCEPT ![t] = to]

Call(t) == up /\ Move(t, {"idle"}, "pending") /\ UNCHANGED up

\* A call to a worker that is gone returns at once.
Reject(t) == ~up /\ call[t] = "idle" /\ UNCHANGED <<call, up>>

Serve(t, verdict) ==
  up /\ Move(t, {"pending"}, verdict) /\ UNCHANGED up

Return(t) == Move(t, {"answered", "failed"}, "idle") /\ UNCHANGED up

\* The worker ends; whatever it has not served fails.
Stop ==
  /\ up /\ up' = FALSE
  /\ call' = [t \in Threads |->
                IF call[t] = "pending" THEN "failed" ELSE call[t]]

Next ==
  \/ \E t \in Threads :
       \/ Call(t) \/ Reject(t) \/ Return(t)
       \/ \E v \in {"answered", "failed"} : Serve(t, v)
  \/ Stop

Served(t) == Stop \/ \E v \in {"answered", "failed"} : Serve(t, v)

Fairness == \A t \in Threads :
  WF_call(Return(t)) /\ WF_<<call, up>>(call[t] = "pending" /\ Served(t))

Safety == Init /\ [][Next]_<<call, up>>

Spec == Safety /\ Fairness
=============================================================================
