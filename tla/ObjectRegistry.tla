--------------------------- MODULE ObjectRegistry ---------------------------
(***************************************************************************)
(* tsgo-client/src/registry.rs: the wrappers (Project, Symbol, Type) of    *)
(* server-side handles, the registry's map from ids to weak references to  *)
(* them, and the release requests that the wrappers send when they are     *)
(* disposed or dropped.  The threads talk to the server through a          *)
(* RequestService, which TransportClient implements.                       *)
(*                                                                         *)
(* A lookup and the insertion that follows it lock the map separately, and *)
(* a wrapper whose last reference is gone sends its release without the    *)
(* map knowing: both are steps other threads come between.                 *)
(***************************************************************************)
EXTENDS Integers, Sequences, FiniteSets

CONSTANTS
  Threads,      \* threads that use one Client
  Ids,          \* ids of server-side handles
  Disposable,   \* the ids of symbols and types, which can be disposed
  MaxWrappers   \* bound: wrappers ever created

ASSUME RegistryAssumption ==
  /\ Ids # {} /\ Disposable \subseteq Ids
  /\ MaxWrappers \in Nat

VARIABLES
  call, up,     \* the RequestService
  pc,           \* pc[t]: what t is doing
  arg,          \* arg[t]: the id, and the wrapper if there is one, t works on
  wrap,         \* the wrappers in the order of their creation
  map,          \* map[id]: the wrapper the registry has a weak reference to
  handles,      \* ids the server has a handle for
  lost,         \* history: ids with a load that took effect and was answered
                \* with an error, or ended in a wrapper already disposed
  raced         \* ids for which two threads created wrappers at once

service == <<call, up>>
server == <<handles, lost>>
vars == <<service, pc, arg, wrap, map, server, raced>>

Service == INSTANCE RequestService

NoWrapper == 0
Live(w) == wrap[w].refs # {}
Upgrades(w) == w \in {v \in DOMAIN wrap : Live(v)}
Wrapper == [id : Ids, disposed : BOOLEAN, refs : SUBSET Threads, releases : Nat]
Arg == [id : Ids, wrapper : 0 .. MaxWrappers]

NoArg == [id |-> CHOOSE i \in Ids : TRUE, wrapper |-> NoWrapper]

Init ==
  /\ Service!Init
  /\ pc = [t \in Threads |-> "idle"]
  /\ arg = [t \in Threads |-> NoArg]
  /\ wrap = <<>> /\ map = [i \in Ids |-> NoWrapper]
  /\ handles = {} /\ lost = {} /\ raced = {}

Goto(t, l) == pc' = [pc EXCEPT ![t] = l]
Idle(t) == pc[t] = "idle"

\* The call returns to the user, and its local variables go.
Done(t) == Goto(t, "idle") /\ arg' = [arg EXCEPT ![t] = NoArg]

-----------------------------------------------------------------------------
(* Loading: Client::load_project, get_symbol, get_type_from_response.      *)

\* A request by t on behalf of a; a service that is down fails it at once.
Ask(t, l, a) ==
  \/ Service!Call(t) /\ Goto(t, l) /\ arg' = [arg EXCEPT ![t] = a]
  \/ Service!Reject(t) /\ UNCHANGED <<pc, arg>>

Load(t, id) ==
  /\ Idle(t) /\ Len(wrap) < MaxWrappers
  /\ Ask(t, "loading", [id |-> id, wrapper |-> NoWrapper])
  /\ UNCHANGED <<wrap, map, server, raced>>

LoadFails(t) ==
  /\ pc[t] = "loading" /\ call[t] = "failed" /\ Service!Return(t)
  /\ Done(t)
  /\ UNCHANGED <<wrap, map, server, raced>>

\* The answer is there; under the lock, the weak reference is upgraded ...
Reuse(t) ==
  LET w == map[arg[t].id] IN
  /\ pc[t] = "loading" /\ call[t] = "answered" /\ Service!Return(t)
  /\ Upgrades(w)
  /\ wrap' = [wrap EXCEPT ![w].refs = @ \cup {t}]
  /\ lost' = IF wrap[w].disposed THEN lost \cup {arg[t].id} ELSE lost
  /\ Done(t)
  /\ UNCHANGED <<map, handles, raced>>

\* ... or, without one that still lives, a wrapper is created.
Create(t) ==
  LET a == arg[t]
      w == map[a.id]
  IN
  /\ pc[t] = "loading" /\ call[t] = "answered" /\ Service!Return(t)
  /\ ~Upgrades(w)
  /\ Len(wrap) < MaxWrappers
  /\ wrap' = Append(wrap, [id |-> a.id, disposed |-> FALSE, refs |-> {t},
                           releases |-> 0])
  /\ Goto(t, "inserting") /\ arg' = [arg EXCEPT ![t].wrapper = Len(wrap) + 1]
  /\ raced' = raced \cup {id \in {a.id} :
                            \E u \in Threads : pc[u] = "inserting" /\ arg[u].id = id}
  /\ UNCHANGED <<map, server>>

\* Changed: insert only where the map has no entry yet.
InsertIfAbsent(t) ==
  /\ pc[t] = "inserting"
  /\ map' = [map EXCEPT ![arg[t].id] = IF @ = NoWrapper THEN arg[t].wrapper ELSE @]
  /\ Done(t)
  /\ UNCHANGED <<service, wrap, server, raced>>

Insert(t) ==
  /\ pc[t] = "inserting"
  /\ map' = [map EXCEPT ![arg[t].id] = arg[t].wrapper]
  /\ Done(t)
  /\ UNCHANGED <<service, wrap, server, raced>>

-----------------------------------------------------------------------------
(* Using and releasing a wrapper.                                          *)

\* Arc::clone, handed to another thread.
Clone(t, u, w) ==
  /\ Idle(t) /\ t \in wrap[w].refs /\ u \notin wrap[w].refs
  /\ wrap' = [wrap EXCEPT ![w].refs = @ \cup {u}]
  /\ UNCHANGED <<service, pc, arg, map, server, raced>>

\* Project::reload loads the project again; load_data ignores the answer.
Reload(t, w) ==
  /\ Idle(t) /\ t \in wrap[w].refs /\ wrap[w].id \notin Disposable
  /\ Ask(t, "reloading", [id |-> wrap[w].id, wrapper |-> w])
  /\ UNCHANGED <<wrap, map, server, raced>>

Reloaded(t) ==
  /\ pc[t] = "reloading" /\ Service!Return(t) /\ Done(t)
  /\ UNCHANGED <<wrap, map, server, raced>>

\* Changed: the release is sent, but its answer is not awaited.
ReleaseAsync(t, w, refs) ==
  /\ wrap' = [wrap EXCEPT ![w].refs = refs, ![w].disposed = TRUE,
                          ![w].releases = IF up THEN @ + 1 ELSE @]
  /\ Service!Call(t) \/ Service!Reject(t)
  /\ UNCHANGED <<pc, arg>>

\* disposed goes from false to true, and the release is sent and awaited.
Release(t, w, refs) ==
  /\ wrap' = [wrap EXCEPT ![w].refs = refs, ![w].disposed = TRUE,
                          ![w].releases = IF up THEN @ + 1 ELSE @]
  /\ Ask(t, "releasing", [id |-> wrap[w].id, wrapper |-> w])

Dispose(t, w) ==
  /\ Idle(t) /\ t \in wrap[w].refs /\ wrap[w].id \in Disposable
  /\ ~wrap[w].disposed
  /\ Release(t, w, wrap[w].refs)
  /\ UNCHANGED <<map, server, raced>>

\* Changed: dropping the last reference releases, disposed or not.
DropUnchecked(t, w) ==
  /\ Idle(t) /\ t \in wrap[w].refs
  /\ LET rest == wrap[w].refs \ {t} IN
     IF rest = {}
     THEN Release(t, w, rest)
     ELSE wrap' = [wrap EXCEPT ![w].refs = rest] /\ UNCHANGED <<service, pc, arg>>
  /\ UNCHANGED <<map, server, raced>>

\* Changed: only the wrapper the map knows releases the handle.
DropIfMapped(t, w) ==
  /\ Idle(t) /\ t \in wrap[w].refs
  /\ LET rest == wrap[w].refs \ {t} IN
     IF rest = {} /\ ~wrap[w].disposed /\ map[wrap[w].id] = w
     THEN Release(t, w, rest)
     ELSE wrap' = [wrap EXCEPT ![w].refs = rest] /\ UNCHANGED <<service, pc, arg>>
  /\ UNCHANGED <<map, server, raced>>

\* A thread drops its reference; the last one runs the wrapper's Drop.
Drop(t, w) ==
  /\ Idle(t) /\ t \in wrap[w].refs
  /\ LET rest == wrap[w].refs \ {t} IN
     IF rest = {} /\ ~wrap[w].disposed
     THEN Release(t, w, rest)
     ELSE wrap' = [wrap EXCEPT ![w].refs = rest] /\ UNCHANGED <<service, pc, arg>>
  /\ UNCHANGED <<map, server, raced>>

Released(t) ==
  /\ pc[t] = "releasing" /\ Service!Return(t) /\ Done(t)
  /\ UNCHANGED <<wrap, map, server, raced>>

-----------------------------------------------------------------------------
(* The server (external): one table of handles, an entry for each id.      *)

ServeLoad(t) ==
  /\ pc[t] \in {"loading", "reloading"} /\ Service!Serve(t, "answered")
  /\ handles' = handles \cup {arg[t].id}
  /\ UNCHANGED <<pc, arg, wrap, map, lost, raced>>

\* An error answer, or one that the client cannot decode.
ServeLoadBadly(t) ==
  /\ pc[t] \in {"loading", "reloading"} /\ Service!Serve(t, "failed")
  /\ \/ UNCHANGED <<handles, lost>>
     \/ /\ handles' = handles \cup {arg[t].id}
        /\ lost' = IF pc[t] = "loading" THEN lost \cup {arg[t].id} ELSE lost
  /\ UNCHANGED <<pc, arg, wrap, map, raced>>

ServeRelease(t) ==
  /\ pc[t] = "releasing"
  /\ \E v \in {"answered", "failed"} : Service!Serve(t, v)
  /\ handles' = handles \ {arg[t].id}
  /\ UNCHANGED <<pc, arg, wrap, map, lost, raced>>

\* The worker ends by a panic, and the child with it.
GoDown ==
  /\ Service!Stop /\ handles' = {}
  /\ UNCHANGED <<pc, arg, wrap, map, lost, raced>>

-----------------------------------------------------------------------------
Next ==
  \/ \E t \in Threads :
       \/ \E id \in Ids : Load(t, id)
       \/ LoadFails(t) \/ Reuse(t) \/ Create(t) \/ Insert(t)
       \/ Reloaded(t) \/ Released(t)
       \/ ServeLoad(t) \/ ServeLoadBadly(t) \/ ServeRelease(t)
       \/ \E w \in DOMAIN wrap :
            \/ Reload(t, w) \/ Dispose(t, w) \/ Drop(t, w)
            \/ \E u \in Threads : Clone(t, u, w)
  \/ GoDown

Spec == Init /\ [][Next]_vars

-----------------------------------------------------------------------------
(* Correctness.                                                            *)

\* Every variable has its type, and a thread is in a request exactly while its
\* place in the code is one of those that wait for an answer.
TypeOK ==
  /\ call \in [Threads -> Service!States] /\ up \in BOOLEAN
  /\ pc \in [Threads -> {"idle", "loading", "inserting", "reloading", "releasing"}]
  /\ \A t \in Threads : call[t] = "idle" <=> pc[t] \in {"idle", "inserting"}
  /\ arg \in [Threads -> Arg]
  /\ wrap \in Seq(Wrapper) /\ Len(wrap) <= MaxWrappers
  /\ map \in [Ids -> 0 .. Len(wrap)]
  /\ handles \subseteq Ids
  /\ lost \subseteq Ids /\ raced \subseteq Ids

\* A wrapper asks for the release of its handle at most once, dispose and drop
\* taken together, and never while it is neither disposed nor dropped.
ReleasedOnce ==
  \A w \in DOMAIN wrap :
    /\ wrap[w].releases <= 1
    /\ wrap[w].releases = 1 => wrap[w].disposed
    /\ wrap[w].refs = {} => wrap[w].disposed

\* When every wrapper has been dropped and nothing is under way, the server
\* holds no handle, unless a load failed after it took effect, or returned a
\* wrapper that was disposed and will not release a second time.
NoLeak ==
  (\A t \in Threads : Idle(t)) /\ (\A w \in DOMAIN wrap : ~Live(w))
    => handles \subseteq lost

\* As long as no two threads created a wrapper of the same id at once, an id
\* has at most one wrapper that lives.
UniqueUnlessRaced ==
  \A v, w \in DOMAIN wrap :
    wrap[v].id = wrap[w].id /\ Live(v) /\ Live(w) /\ wrap[v].id \notin raced
      => v = w

\* The server still has the handle of every wrapper that is in use.
HandleAlive ==
  up => \A w \in DOMAIN wrap :
          Live(w) /\ ~wrap[w].disposed => wrap[w].id \in handles
=============================================================================
