------------------------ MODULE ObjectRegistryProofs ------------------------
(***************************************************************************)
(* What holds of ObjectRegistry for every set of threads and of ids and    *)
(* every number of wrappers: a handle is released at most once, none is    *)
(* left on the server but those that are accounted for, and an id has one  *)
(* living wrapper unless two threads raced to create it.                   *)
(***************************************************************************)
EXTENDS ObjectRegistry, SequenceTheorems, TLAPS

\* Wrapper w is in use and has not asked for the release of its handle.
InUse(w) == Live(w) /\ ~wrap[w].disposed

\* The server keeps a table only while it runs.
NoServerNoHandles == ~up => handles = {}

\* The map refers to a wrapper of the id.
MapIsOfId == \A id \in Ids : map[id] # NoWrapper => wrap[map[id]].id = id

\* A thread keeps the wrapper that it inserts or reloads, and works on its id.
Holds(t) ==
  /\ arg[t].wrapper \in DOMAIN wrap
  /\ t \in wrap[arg[t].wrapper].refs
  /\ wrap[arg[t].wrapper].id = arg[t].id
InsertersHold == \A t \in Threads : pc[t] = "inserting" => Holds(t)
ReloadersHold ==
  \A t \in Threads : pc[t] = "reloading" => Holds(t) /\ arg[t].id \notin Disposable

\* Only a symbol or a type is disposed while it is referenced.
DisposedInUse ==
  \A w \in DOMAIN wrap : Live(w) /\ wrap[w].disposed => wrap[w].id \in Disposable

\* Who will see to it that the server's handle of id goes: a wrapper in use, an
\* answered load that becomes one, or a release on its way.
Loaded(t, id) == pc[t] = "loading" /\ call[t] = "answered" /\ arg[t].id = id
Releasing(t, id) == pc[t] = "releasing" /\ call[t] = "pending" /\ arg[t].id = id
Accounted(id) ==
  \/ \E w \in DOMAIN wrap : InUse(w) /\ wrap[w].id = id
  \/ \E t \in Threads : Loaded(t, id) \/ Releasing(t, id)
HandlesAccounted == \A id \in handles \ lost : Accounted(id)

\* A living wrapper of an id nobody raced for is in the map or on its way, ...
LiveAreKnown ==
  \A w \in DOMAIN wrap : Live(w) /\ wrap[w].id \notin raced =>
    \/ map[wrap[w].id] = w
    \/ \E t \in Threads : pc[t] = "inserting" /\ arg[t].wrapper = w

\* ... two that are on their way at once are of an id that is raced for, ...
InsertersRace ==
  \A t, u \in Threads :
    pc[t] = "inserting" /\ pc[u] = "inserting" /\ arg[t].id = arg[u].id /\ t # u
      => arg[t].id \in raced

\* ... and one that is on its way is the only one of its id.
InsertedIsOnly ==
  \A t \in Threads : pc[t] = "inserting" /\ arg[t].id \notin raced =>
    \A w \in DOMAIN wrap : Live(w) /\ wrap[w].id = arg[t].id => w = arg[t].wrapper

Custody ==
  /\ NoServerNoHandles /\ MapIsOfId /\ InsertersHold /\ ReloadersHold
  /\ DisposedInUse
Known == LiveAreKnown /\ InsertersRace /\ InsertedIsOnly

RegistryInv == TypeOK /\ ReleasedOnce /\ Custody /\ HandlesAccounted /\ Known

-----------------------------------------------------------------------------
(* What the actions do to the wrappers.                                    *)

\* Wrapper w gets these references and this flag; the others stay.
Alters(w, refs, disposed) ==
  /\ w \in DOMAIN wrap /\ DOMAIN wrap' = DOMAIN wrap
  /\ wrap'[w].id = wrap[w].id /\ wrap'[w].refs = refs
  /\ wrap'[w].disposed = disposed
  /\ \A v \in DOMAIN wrap \ {w} : wrap'[v] = wrap[v]

\* One wrapper of a sequence of wrappers is replaced.
LEMMA ReplaceWrapper ==
  ASSUME TypeOK, NEW w \in DOMAIN wrap, NEW r \in Wrapper,
         wrap' = [wrap EXCEPT ![w] = r]
  PROVE  /\ wrap' \in Seq(Wrapper) /\ Len(wrap') = Len(wrap)
         /\ DOMAIN wrap' = DOMAIN wrap
         /\ wrap'[w] = r /\ \A v \in DOMAIN wrap \ {w} : wrap'[v] = wrap[v]
  <1>1. wrap \in Seq(Wrapper) /\ DOMAIN wrap = 1 .. Len(wrap)
    BY LenProperties DEF TypeOK
  <1>2. /\ wrap' \in Seq(Wrapper) /\ Len(wrap') = Len(wrap)
        /\ \A v \in 1 .. Len(wrap) : wrap'[v] = IF v = w THEN r ELSE wrap[v]
    BY <1>1, ExceptSeq
  <1>3. DOMAIN wrap' = 1 .. Len(wrap')
    BY <1>2, LenProperties
  <1> QED
    BY <1>1, <1>2, <1>3

\* Every wrapper is a record of its type.
LEMMA WrapperType ==
  ASSUME TypeOK, NEW w \in DOMAIN wrap
  PROVE  /\ wrap[w] \in Wrapper /\ wrap[w].id \in Ids
         /\ wrap[w].refs \subseteq Threads /\ wrap[w].disposed \in BOOLEAN
         /\ wrap[w].releases \in Nat
  <1>1. wrap[w] \in Wrapper
    BY LenProperties, ElementOfSeq DEF TypeOK
  <1> QED
    BY <1>1 DEF Wrapper

\* A wrapper with new references is otherwise the same wrapper.
LEMMA RefsEffect ==
  ASSUME TypeOK, NEW w \in DOMAIN wrap, NEW refs \in SUBSET Threads,
         wrap' = [wrap EXCEPT ![w].refs = refs]
  PROVE  /\ wrap' \in Seq(Wrapper) /\ Len(wrap') = Len(wrap)
         /\ Alters(w, refs, wrap[w].disposed)
         /\ wrap'[w].releases = wrap[w].releases
  <1> DEFINE r == [wrap[w] EXCEPT !.refs = refs]
  <1>1. /\ r \in Wrapper /\ r.id = wrap[w].id /\ r.refs = refs
        /\ r.disposed = wrap[w].disposed /\ r.releases = wrap[w].releases
    BY WrapperType DEF Wrapper
  <1>2. wrap' = [wrap EXCEPT ![w] = r]
    OBVIOUS
  <1> HIDE DEF r
  <1> QED
    BY <1>1, <1>2, ReplaceWrapper DEF Alters

\* A release marks the wrapper and counts one request if the service is up.
LEMMA ReleaseEffect ==
  ASSUME TypeOK, NEW t \in Threads, NEW w \in DOMAIN wrap,
         NEW refs \in SUBSET Threads, Release(t, w, refs)
  PROVE  /\ wrap' \in Seq(Wrapper) /\ Len(wrap') = Len(wrap)
         /\ Alters(w, refs, TRUE)
         /\ wrap'[w].releases = IF up THEN wrap[w].releases + 1 ELSE wrap[w].releases
  <1> DEFINE n == IF up THEN wrap[w].releases + 1 ELSE wrap[w].releases
             r == [wrap[w] EXCEPT !.refs = refs, !.disposed = TRUE, !.releases = n]
  <1>0. n \in Nat
    BY WrapperType
  <1>1. wrap' = [wrap EXCEPT ![w] = r]
    BY DEF Release
  <1> HIDE DEF n
  <1>2. /\ r \in Wrapper /\ r.id = wrap[w].id /\ r.refs = refs
        /\ r.disposed = TRUE /\ r.releases = n
    BY <1>0, WrapperType DEF Wrapper
  <1> HIDE DEF r
  <1>3. /\ wrap' \in Seq(Wrapper) /\ Len(wrap') = Len(wrap)
        /\ DOMAIN wrap' = DOMAIN wrap
        /\ wrap'[w] = r /\ \A v \in DOMAIN wrap \ {w} : wrap'[v] = wrap[v]
    BY <1>1, <1>2, ReplaceWrapper
  <1> QED
    BY <1>2, <1>3 DEF Alters, n

\* A new wrapper comes last.
LEMMA CreateEffect ==
  ASSUME TypeOK, NEW t \in Threads, Create(t)
  PROVE  /\ wrap' \in Seq(Wrapper) /\ Len(wrap') = Len(wrap) + 1
         /\ Len(wrap) \in Nat /\ Len(wrap) < MaxWrappers
         /\ DOMAIN wrap' = 1 .. Len(wrap) + 1 /\ DOMAIN wrap = 1 .. Len(wrap)
         /\ \A v \in DOMAIN wrap : wrap'[v] = wrap[v]
         /\ wrap'[Len(wrap) + 1] =
              [id |-> arg[t].id, disposed |-> FALSE, refs |-> {t}, releases |-> 0]
  <1> DEFINE r == [id |-> arg[t].id, disposed |-> FALSE, refs |-> {t}, releases |-> 0]
  <1>1. r \in Wrapper
    BY DEF TypeOK, Arg, Wrapper
  <1>2. wrap' = Append(wrap, r) /\ wrap \in Seq(Wrapper) /\ Len(wrap) < MaxWrappers
    BY DEF Create, TypeOK
  <1> HIDE DEF r
  <1>3. /\ wrap' \in Seq(Wrapper) /\ Len(wrap') = Len(wrap) + 1
        /\ \A v \in 1 .. Len(wrap) : wrap'[v] = wrap[v]
        /\ wrap'[Len(wrap) + 1] = r
    BY <1>1, <1>2, AppendProperties
  <1>4. /\ Len(wrap) \in Nat /\ DOMAIN wrap = 1 .. Len(wrap)
        /\ DOMAIN wrap' = 1 .. Len(wrap')
    BY <1>2, <1>3, LenProperties
  <1> QED
    BY <1>2, <1>3, <1>4 DEF r

\* An answered load that finds a living wrapper holds it from now on.
LEMMA ReuseEffect ==
  ASSUME TypeOK, NEW t \in Threads, Reuse(t)
  PROVE  LET w == map[arg[t].id] IN
         /\ wrap' \in Seq(Wrapper) /\ Len(wrap') = Len(wrap) /\ Live(w)
         /\ w \in DOMAIN wrap /\ Alters(w, wrap[w].refs \cup {t}, wrap[w].disposed)
         /\ wrap'[w].releases = wrap[w].releases
  <1> DEFINE w == map[arg[t].id]
  <1>1. w \in DOMAIN wrap /\ Live(w)
    BY DEF Reuse, Upgrades
  <1>2. wrap[w].refs \cup {t} \in SUBSET Threads
    BY <1>1, WrapperType
  <1>3. wrap' = [wrap EXCEPT ![w].refs = wrap[w].refs \cup {t}]
    BY DEF Reuse
  <1> HIDE DEF w
  <1> QED
    BY <1>1, <1>2, <1>3, RefsEffect DEF w

\* A thread that lets go of a wrapper releases it if it was the last one.
LEMMA DropEffect ==
  ASSUME TypeOK, NEW t \in Threads, NEW w \in DOMAIN wrap, Drop(t, w)
  PROVE  /\ wrap' \in Seq(Wrapper) /\ Len(wrap') = Len(wrap)
         /\ \/ /\ Release(t, w, {}) /\ ~wrap[w].disposed
               /\ Alters(w, {}, TRUE)
               /\ wrap'[w].releases =
                    IF up THEN wrap[w].releases + 1 ELSE wrap[w].releases
            \/ /\ wrap[w].disposed \/ wrap[w].refs \ {t} # {}
               /\ UNCHANGED <<service, pc, arg>>
               /\ Alters(w, wrap[w].refs \ {t}, wrap[w].disposed)
               /\ wrap'[w].releases = wrap[w].releases
  <1>1. wrap[w].refs \ {t} \in SUBSET Threads /\ {} \in SUBSET Threads
    BY WrapperType
  <1>2. CASE wrap[w].refs \ {t} = {} /\ ~wrap[w].disposed
    <2>1. Release(t, w, {})
      BY <1>2 DEF Drop
    <2> QED
      BY <1>1, <1>2, <2>1, ReleaseEffect
  <1>3. CASE ~(wrap[w].refs \ {t} = {} /\ ~wrap[w].disposed)
    <2>1. /\ wrap' = [wrap EXCEPT ![w].refs = wrap[w].refs \ {t}]
          /\ UNCHANGED <<service, pc, arg>>
      BY <1>3 DEF Drop
    <2> QED
      BY <1>1, <1>3, <2>1, RefsEffect
  <1> QED
    BY <1>2, <1>3

\* Another thread gets a reference to a wrapper in use.
LEMMA CloneEffect ==
  ASSUME TypeOK, NEW t \in Threads, NEW u \in Threads, NEW w \in DOMAIN wrap,
         Clone(t, u, w)
  PROVE  /\ wrap' \in Seq(Wrapper) /\ Len(wrap') = Len(wrap) /\ Live(w)
         /\ Alters(w, wrap[w].refs \cup {u}, wrap[w].disposed)
         /\ wrap'[w].releases = wrap[w].releases
  <1>1. wrap[w].refs \cup {u} \in SUBSET Threads /\ Live(w)
    BY WrapperType DEF Clone, Live
  <1>2. wrap' = [wrap EXCEPT ![w].refs = wrap[w].refs \cup {u}]
    BY DEF Clone
  <1> QED
    BY <1>1, <1>2, RefsEffect

-----------------------------------------------------------------------------
(* Types, and that a handle is released once.                              *)

\* The part of TypeOK about the threads and their calls.
ThreadsOK ==
  /\ call \in [Threads -> Service!States] /\ up \in BOOLEAN
  /\ pc \in [Threads -> {"idle", "loading", "inserting", "reloading", "releasing"}]
  /\ \A t \in Threads : call[t] = "idle" <=> pc[t] \in {"idle", "inserting"}
  /\ arg \in [Threads -> Arg]

\* The argument of a thread that works on nothing is one of the type.
LEMMA NoArgType == NoArg \in Arg
  BY RegistryAssumption DEF NoArg, Arg, NoWrapper

\* A request puts the thread where it waits for the answer.
LEMMA AskType ==
  ASSUME TypeOK, NEW t \in Threads, Idle(t), NEW a \in Arg,
         NEW l \in {"loading", "reloading", "releasing"}, Ask(t, l, a)
  PROVE  ThreadsOK'
  BY DEF TypeOK, ThreadsOK, Ask, Goto, Idle, Service!Call, Service!Reject,
         Service!Move, Service!States

\* A call that returns ends the thread's work on its argument.
LEMMA DoneType ==
  ASSUME TypeOK, NEW t \in Threads,
         \/ Service!Return(t)
         \/ pc[t] = "inserting" /\ UNCHANGED service,
         Done(t)
  PROVE  ThreadsOK'
  BY NoArgType
     DEF TypeOK, ThreadsOK, Done, Goto, service, Service!Return, Service!Move,
         Service!States

\* An answer of the server, or the end of the service, leaves no call idle.
LEMMA ServeType ==
  ASSUME TypeOK, UNCHANGED <<pc, arg>>,
         \/ \E t \in Threads, v \in {"answered", "failed"} : Service!Serve(t, v)
         \/ Service!Stop
  PROVE  ThreadsOK'
  <1>1. CASE Service!Stop
    BY <1>1 DEF TypeOK, ThreadsOK, Service!Stop, Service!States
  <1>2. ASSUME NEW t \in Threads, NEW v \in {"answered", "failed"},
               Service!Serve(t, v)
        PROVE  ThreadsOK'
    BY <1>2 DEF TypeOK, ThreadsOK, Service!Serve, Service!Move, Service!States
  <1> QED
    BY <1>1, <1>2

\* The initial state is typed, and nothing is released yet.
LEMMA TypeInit == Init => TypeOK /\ ReleasedOnce
  <1> SUFFICES ASSUME Init PROVE TypeOK /\ ReleasedOnce
    OBVIOUS
  <1>1. wrap = <<>> /\ wrap \in Seq(Wrapper) /\ Len(wrap) = 0 /\ DOMAIN wrap = {}
    BY EmptySeq DEF Init
  <1>2. map \in [Ids -> 0 .. Len(wrap)]
    BY <1>1 DEF Init, NoWrapper
  <1>3. ThreadsOK
    BY NoArgType DEF Init, ThreadsOK, Service!Init, Service!States
  <1> QED
    BY <1>1, <1>2, <1>3, RegistryAssumption DEF Init, TypeOK, ThreadsOK, ReleasedOnce

\* Every step keeps the types: what is inserted is a wrapper.
LEMMA TypeStep == TypeOK /\ InsertersHold /\ [Next]_vars => TypeOK'
  <1> SUFFICES ASSUME TypeOK, InsertersHold, [Next]_vars PROVE TypeOK'
    OBVIOUS
  <1>1. Len(wrap) \in Nat /\ DOMAIN wrap = 1 .. Len(wrap) /\ MaxWrappers \in Nat
    BY LenProperties, RegistryAssumption DEF TypeOK
  <1>2. ASSUME ThreadsOK', wrap' \in Seq(Wrapper), Len(wrap') = Len(wrap),
               UNCHANGED <<map, raced>>, handles' \subseteq Ids, lost' \subseteq Ids
        PROVE  TypeOK'
    BY <1>2 DEF TypeOK, ThreadsOK
  <1>3. handles \subseteq Ids /\ lost \subseteq Ids /\ wrap \in Seq(Wrapper)
        /\ \A t \in Threads : arg[t] \in Arg /\ arg[t].id \in Ids
    BY DEF TypeOK, Arg
  <1>4. ASSUME NEW t \in Threads, NEW id \in Ids, Load(t, id) PROVE TypeOK'
    <2>1. [id |-> id, wrapper |-> NoWrapper] \in Arg
      BY <1>1 DEF Arg, NoWrapper
    <2> QED
      BY <1>2, <1>3, <1>4, <2>1, AskType DEF Load, server
  <1>5. ASSUME NEW t \in Threads, LoadFails(t) \/ Reloaded(t) \/ Released(t)
        PROVE  TypeOK'
    BY <1>2, <1>3, <1>5, DoneType DEF LoadFails, Reloaded, Released, server
  <1>6. ASSUME NEW t \in Threads, Reuse(t) PROVE TypeOK'
    <2>1. ThreadsOK' /\ UNCHANGED <<map, handles, raced>> /\ lost' \subseteq Ids
      BY <1>3, <1>6, DoneType DEF Reuse
    <2> QED
      BY <1>2, <1>3, <1>6, <2>1, ReuseEffect
  <1>7. ASSUME NEW t \in Threads, Create(t) PROVE TypeOK'
    <2>1. /\ wrap' \in Seq(Wrapper) /\ Len(wrap') = Len(wrap) + 1
          /\ Len(wrap) < MaxWrappers
      BY <1>7, CreateEffect
    <2>2. ThreadsOK'
      <3>1. arg' = [arg EXCEPT ![t].wrapper = Len(wrap) + 1]
            /\ Len(wrap) + 1 \in 0 .. MaxWrappers
        BY <1>1, <1>7, <2>1 DEF Create
      <3>2. arg' \in [Threads -> Arg]
        BY <3>1 DEF TypeOK, Arg
      <3> QED
        BY <1>7, <3>2
           DEF Create, Goto, TypeOK, ThreadsOK, Service!Return, Service!Move,
               Service!States
    <2>3. map' \in [Ids -> 0 .. Len(wrap')] /\ Len(wrap') <= MaxWrappers
      BY <1>1, <1>7, <2>1 DEF Create, TypeOK
    <2>4. raced' \subseteq Ids /\ UNCHANGED server
      BY <1>3, <1>7 DEF Create, TypeOK
    <2> QED
      BY <1>3, <2>1, <2>2, <2>3, <2>4 DEF TypeOK, ThreadsOK, server
  <1>8. ASSUME NEW t \in Threads, Insert(t) PROVE TypeOK'
    <2>1. ThreadsOK' /\ arg[t].wrapper \in 0 .. Len(wrap)
      BY <1>1, <1>8, DoneType DEF Insert, InsertersHold, Holds
    <2> QED
      BY <1>8, <2>1 DEF Insert, TypeOK, ThreadsOK, server, service
  <1>9. ASSUME NEW t \in Threads, NEW w \in DOMAIN wrap, Reload(t, w) PROVE TypeOK'
    <2>1. [id |-> wrap[w].id, wrapper |-> w] \in Arg
      BY <1>1, WrapperType DEF Arg, TypeOK
    <2> QED
      BY <1>2, <1>3, <1>9, <2>1, AskType DEF Reload, server
  <1>10. ASSUME NEW t \in Threads, NEW w \in DOMAIN wrap, Idle(t),
                NEW refs, Release(t, w, refs)
         PROVE  ThreadsOK'
    <2>1. [id |-> wrap[w].id, wrapper |-> w] \in Arg
      BY <1>1, WrapperType DEF Arg, TypeOK
    <2> QED
      BY <1>10, <2>1, AskType DEF Release
  <1>11. ASSUME NEW t \in Threads, NEW w \in DOMAIN wrap, Dispose(t, w) PROVE TypeOK'
    <2>1. Release(t, w, wrap[w].refs) /\ Idle(t) /\ UNCHANGED <<map, server, raced>>
      BY <1>11 DEF Dispose
    <2>2. wrap' \in Seq(Wrapper) /\ Len(wrap') = Len(wrap)
      BY <2>1, ReleaseEffect, WrapperType
    <2> QED
      BY <1>2, <1>3, <1>10, <2>1, <2>2 DEF server
  <1>12. ASSUME NEW t \in Threads, NEW w \in DOMAIN wrap, Drop(t, w) PROVE TypeOK'
    <2>1. Idle(t) /\ UNCHANGED <<map, server, raced>>
      BY <1>12 DEF Drop
    <2>2. wrap' \in Seq(Wrapper) /\ Len(wrap') = Len(wrap)
      BY <1>12, DropEffect
    <2>3. ThreadsOK'
      <3>1. Release(t, w, {}) \/ UNCHANGED <<service, pc, arg>>
        BY <1>12, DropEffect
      <3>2. CASE UNCHANGED <<service, pc, arg>>
        BY <3>2 DEF TypeOK, ThreadsOK, service
      <3> QED
        BY <1>10, <2>1, <3>1, <3>2
    <2> QED
      BY <1>2, <1>3, <2>1, <2>2, <2>3 DEF server
  <1>13. ASSUME NEW t \in Threads, NEW u \in Threads, NEW w \in DOMAIN wrap,
                Clone(t, u, w)
         PROVE  TypeOK'
    <2>1. wrap' \in Seq(Wrapper) /\ Len(wrap') = Len(wrap)
      BY <1>13, CloneEffect
    <2>2. ThreadsOK' /\ UNCHANGED <<map, server, raced>>
      BY <1>13 DEF Clone, TypeOK, ThreadsOK, service
    <2> QED
      BY <1>2, <1>3, <2>1, <2>2 DEF server
  <1>14. ASSUME NEW t \in Threads, ServeLoad(t) \/ ServeLoadBadly(t) \/ ServeRelease(t)
         PROVE  TypeOK'
    <2>1. ThreadsOK' /\ UNCHANGED <<wrap, map, raced>>
      BY <1>14, ServeType DEF ServeLoad, ServeLoadBadly, ServeRelease
    <2>2. handles' \subseteq Ids /\ lost' \subseteq Ids
      BY <1>3, <1>14 DEF ServeLoad, ServeLoadBadly, ServeRelease
    <2> QED
      BY <1>2, <1>3, <2>1, <2>2
  <1>15. CASE GoDown
    BY <1>2, <1>3, <1>15, ServeType DEF GoDown
  <1>16. CASE UNCHANGED vars
    BY <1>16 DEF TypeOK, vars, service, server
  <1> QED
    BY <1>4, <1>5, <1>6, <1>7, <1>8, <1>9, <1>11, <1>12, <1>13, <1>14, <1>15, <1>16
       DEF Next

\* A release is counted only of a wrapper that is not yet disposed.
LEMMA ReleasedOnceStep ==
  ASSUME TypeOK, ReleasedOnce, [Next]_vars
  PROVE  ReleasedOnce'
  <1>1. ASSUME NEW w \in DOMAIN wrap, NEW refs, NEW disposed \in BOOLEAN,
               Alters(w, refs, disposed),
               \/ /\ ~wrap[w].disposed /\ disposed
                  /\ wrap'[w].releases \in {wrap[w].releases, wrap[w].releases + 1}
               \/ /\ disposed = wrap[w].disposed /\ (refs # {} \/ disposed)
                  /\ wrap'[w].releases = wrap[w].releases
        PROVE  ReleasedOnce'
    <2>1. wrap[w].releases \in Nat /\ wrap[w].releases <= 1
          /\ (wrap[w].releases = 1 => wrap[w].disposed)
      BY WrapperType DEF ReleasedOnce
    <2>2. wrap'[w].releases <= 1 /\ (wrap'[w].releases = 1 => wrap'[w].disposed)
          /\ (wrap'[w].refs = {} => wrap'[w].disposed)
      <3>1. CASE /\ ~wrap[w].disposed /\ disposed
                 /\ wrap'[w].releases \in {wrap[w].releases, wrap[w].releases + 1}
        <4>1. wrap[w].releases = 0
          BY <2>1, <3>1
        <4>2. wrap'[w].releases \in {0, 1}
          BY <3>1, <4>1
        <4>3. wrap'[w].disposed
          BY <1>1, <3>1 DEF Alters
        <4> QED
          BY <4>2, <4>3
      <3>2. CASE /\ disposed = wrap[w].disposed /\ (refs # {} \/ disposed)
                 /\ wrap'[w].releases = wrap[w].releases
        BY <1>1, <2>1, <3>2 DEF Alters
      <3> QED
        BY <1>1, <3>1, <3>2
    <2> QED
      BY <1>1, <2>2 DEF ReleasedOnce, Alters
  <1>2. ASSUME NEW t \in Threads, NEW w \in DOMAIN wrap, Dispose(t, w)
        PROVE  ReleasedOnce'
    <2>1. wrap[w].refs \in SUBSET Threads /\ wrap[w].releases \in Nat
      BY WrapperType
    <2>2. Alters(w, wrap[w].refs, TRUE) /\ ~wrap[w].disposed
          /\ wrap'[w].releases \in {wrap[w].releases, wrap[w].releases + 1}
      BY <1>2, <2>1, ReleaseEffect DEF Dispose
    <2> QED
      BY <1>1, <2>2
  <1>3. ASSUME NEW t \in Threads, NEW w \in DOMAIN wrap, Drop(t, w)
        PROVE  ReleasedOnce'
    <2>1. CASE /\ ~wrap[w].disposed /\ Alters(w, {}, TRUE)
               /\ wrap'[w].releases =
                    IF up THEN wrap[w].releases + 1 ELSE wrap[w].releases
      BY <1>1, <2>1
    <2>2. CASE /\ wrap[w].disposed \/ wrap[w].refs \ {t} # {}
               /\ Alters(w, wrap[w].refs \ {t}, wrap[w].disposed)
               /\ wrap'[w].releases = wrap[w].releases
      BY <1>1, <2>2, WrapperType
    <2> QED
      BY <1>3, <2>1, <2>2, DropEffect
  <1>4. ASSUME NEW t \in Threads, NEW u \in Threads, NEW w \in DOMAIN wrap,
               Clone(t, u, w)
        PROVE  ReleasedOnce'
    BY <1>1, <1>4, CloneEffect, WrapperType DEF Live
  <1>5. ASSUME NEW t \in Threads, Reuse(t) PROVE ReleasedOnce'
    BY <1>1, <1>5, ReuseEffect, WrapperType DEF Live
  <1>6. ASSUME NEW t \in Threads, Create(t) PROVE ReleasedOnce'
    <2> SUFFICES ASSUME NEW v \in DOMAIN wrap'
                 PROVE  /\ wrap'[v].releases <= 1
                        /\ wrap'[v].releases = 1 => wrap'[v].disposed
                        /\ wrap'[v].refs = {} => wrap'[v].disposed
      BY DEF ReleasedOnce
    <2>0. /\ Len(wrap) \in Nat /\ DOMAIN wrap = 1 .. Len(wrap)
          /\ DOMAIN wrap' = 1 .. Len(wrap) + 1
          /\ \A x \in DOMAIN wrap : wrap'[x] = wrap[x]
          /\ wrap'[Len(wrap) + 1] =
               [id |-> arg[t].id, disposed |-> FALSE, refs |-> {t}, releases |-> 0]
      BY <1>6, CreateEffect
    <2>1. v \in DOMAIN wrap \/ v = Len(wrap) + 1
      BY <2>0
    <2>2. CASE v \in DOMAIN wrap
      BY <2>0, <2>2 DEF ReleasedOnce
    <2>3. CASE v = Len(wrap) + 1
      BY <2>0, <2>3
    <2> QED
      BY <2>1, <2>2, <2>3
  <1>7. CASE UNCHANGED wrap
    BY <1>7 DEF ReleasedOnce
  <1> QED
    BY <1>2, <1>3, <1>4, <1>5, <1>6, <1>7
       DEF Next, Load, LoadFails, Insert, Reload, Reloaded, Released, ServeLoad,
           ServeLoadBadly, ServeRelease, GoDown, vars

-----------------------------------------------------------------------------
(* What a step may do, seen from one thread, one wrapper, one handle.      *)

\* A thread goes on only by a step of its own.
LEMMA ThreadSteps ==
  ASSUME TypeOK, [Next]_vars, NEW u \in Threads
  PROVE  \/ pc'[u] = pc[u] /\ arg'[u] = arg[u]
         \/ pc[u] = "inserting" /\ pc'[u] = "idle" /\ Insert(u)
         \/ pc[u] = "loading" /\ (Create(u) \/ pc'[u] = "idle")
         \/ pc[u] \in {"reloading", "releasing"} /\ pc'[u] = "idle"
         \/ /\ pc[u] = "idle"
            /\ \/ pc'[u] \in {"loading", "releasing"}
               \/ \E w \in DOMAIN wrap : Reload(u, w)
  <1> DEFINE Goal == \/ pc'[u] = pc[u] /\ arg'[u] = arg[u]
                     \/ pc[u] = "inserting" /\ pc'[u] = "idle" /\ Insert(u)
                     \/ pc[u] = "loading" /\ (Create(u) \/ pc'[u] = "idle")
                     \/ pc[u] \in {"reloading", "releasing"} /\ pc'[u] = "idle"
                     \/ /\ pc[u] = "idle"
                        /\ \/ pc'[u] \in {"loading", "releasing"}
                           \/ \E w \in DOMAIN wrap : Reload(u, w)
  <1>0. pc = [t \in Threads |-> pc[t]] /\ arg = [t \in Threads |-> arg[t]]
    BY DEF TypeOK
  <1>1. ASSUME NEW t \in Threads, NEW l, NEW a, Ask(t, l, a)
        PROVE  /\ t # u => pc'[u] = pc[u] /\ arg'[u] = arg[u]
               /\ t = u => \/ pc'[u] = l
                           \/ pc'[u] = pc[u] /\ arg'[u] = arg[u]
    BY <1>0, <1>1 DEF Ask, Goto
  <1>2. ASSUME NEW t \in Threads, Done(t)
        PROVE  /\ t # u => pc'[u] = pc[u] /\ arg'[u] = arg[u]
               /\ t = u => pc'[u] = "idle"
    BY <1>0, <1>2 DEF Done, Goto
  <1>3. ASSUME NEW t \in Threads, NEW id \in Ids, Load(t, id) PROVE Goal
    BY <1>1, <1>3 DEF Load, Idle
  <1>4. ASSUME NEW t \in Threads,
               LoadFails(t) \/ Reuse(t) \/ Insert(t) \/ Reloaded(t) \/ Released(t)
        PROVE  Goal
    BY <1>2, <1>4 DEF LoadFails, Reuse, Insert, Reloaded, Released
  <1>5. ASSUME NEW t \in Threads, Create(t) PROVE Goal
    BY <1>0, <1>5 DEF Create, Goto
  <1>6. ASSUME NEW t \in Threads, NEW w \in DOMAIN wrap, Reload(t, w) PROVE Goal
    BY <1>1, <1>6 DEF Reload, Idle
  <1>7. ASSUME NEW t \in Threads, NEW w \in DOMAIN wrap, Dispose(t, w) \/ Drop(t, w)
        PROVE  Goal
    <2>1. \/ \E refs : Release(t, w, refs)
          \/ UNCHANGED <<pc, arg>>
      BY <1>7 DEF Dispose, Drop
    <2>2. pc[t] = "idle"
      BY <1>7 DEF Dispose, Drop, Idle
    <2> QED
      BY <1>1, <2>1, <2>2 DEF Release
  <1>8. CASE UNCHANGED <<pc, arg>>
    BY <1>8
  <1> QED
    BY <1>3, <1>4, <1>5, <1>6, <1>7, <1>8
       DEF Next, Clone, ServeLoad, ServeLoadBadly, ServeRelease, GoDown, vars

\* Wrapper w gets one more reference, ...
Gains(w) ==
  Live(w) /\ \E u \in Threads : Alters(w, wrap[w].refs \cup {u}, wrap[w].disposed)

\* ... or loses that of t, which is not the one that releases, ...
Loses(t, w) ==
  /\ pc[t] = "idle" /\ t \in wrap[w].refs
  /\ wrap[w].disposed \/ wrap[w].refs \ {t} # {}
  /\ Alters(w, wrap[w].refs \ {t}, wrap[w].disposed)

\* ... or is released by t, on its last drop or when it is disposed.
Releases(t, w, refs) ==
  /\ pc[t] = "idle" /\ t \in wrap[w].refs /\ ~wrap[w].disposed
  /\ \/ refs = {} /\ wrap[w].refs = {t}
     \/ refs = wrap[w].refs /\ wrap[w].id \in Disposable
  /\ Release(t, w, refs) /\ UNCHANGED server
  /\ Alters(w, refs, TRUE)

\* There is no other way that a step touches the wrappers, but to create one.
LEMMA WrapperSteps ==
  ASSUME TypeOK, [Next]_vars
  PROVE  \/ UNCHANGED wrap
         \/ \E t \in Threads : Create(t)
         \/ \E w \in DOMAIN wrap : Gains(w)
         \/ \E t \in Threads, w \in DOMAIN wrap :
              Loses(t, w) \/ \E refs \in SUBSET Threads : Releases(t, w, refs)
  <1>1. ASSUME NEW t \in Threads, Reuse(t)
        PROVE  \E w \in DOMAIN wrap : Gains(w)
    BY <1>1, ReuseEffect DEF Gains
  <1>2. ASSUME NEW t \in Threads, NEW u \in Threads, NEW w \in DOMAIN wrap,
               Clone(t, u, w)
        PROVE  Gains(w)
    BY <1>2, CloneEffect DEF Gains
  <1>3. ASSUME NEW t \in Threads, NEW w \in DOMAIN wrap, Dispose(t, w)
        PROVE  wrap[w].refs \in SUBSET Threads /\ Releases(t, w, wrap[w].refs)
    BY <1>3, ReleaseEffect, WrapperType DEF Dispose, Idle, Releases
  <1>4. ASSUME NEW t \in Threads, NEW w \in DOMAIN wrap, Drop(t, w)
        PROVE  Releases(t, w, {}) \/ Loses(t, w)
    <2>1. pc[t] = "idle" /\ t \in wrap[w].refs /\ UNCHANGED server
      BY <1>4 DEF Drop, Idle
    <2>2. CASE wrap[w].refs \ {t} = {} /\ ~wrap[w].disposed
      <3>1. Release(t, w, {}) /\ wrap[w].refs = {t}
        BY <1>4, <2>1, <2>2 DEF Drop
      <3> QED
        BY <2>1, <2>2, <3>1, ReleaseEffect DEF Releases
    <2>3. CASE ~(wrap[w].refs \ {t} = {} /\ ~wrap[w].disposed)
      <3>1. /\ wrap' = [wrap EXCEPT ![w].refs = wrap[w].refs \ {t}]
            /\ wrap[w].refs \ {t} \in SUBSET Threads
        BY <1>4, <2>3, WrapperType DEF Drop
      <3> QED
        BY <2>1, <2>3, <3>1, RefsEffect DEF Loses
    <2> QED
      BY <2>2, <2>3
  <1>5. \/ UNCHANGED wrap
        \/ \E t \in Threads : Create(t) \/ Reuse(t)
        \/ \E t \in Threads, w \in DOMAIN wrap :
             Dispose(t, w) \/ Drop(t, w) \/ \E u \in Threads : Clone(t, u, w)
    BY DEF Next, Load, LoadFails, Insert, Reload, Reloaded, Released, ServeLoad,
           ServeLoadBadly, ServeRelease, GoDown, vars
  <1>6. {} \in SUBSET Threads
    OBVIOUS
  <1> QED
    BY <1>1, <1>2, <1>3, <1>4, <1>5, <1>6

\* A wrapper stays, with its id.
LEMMA IdsStay ==
  ASSUME TypeOK, [Next]_vars, NEW w \in DOMAIN wrap
  PROVE  w \in DOMAIN wrap' /\ wrap'[w].id = wrap[w].id
  <1>1. CASE \E t \in Threads : Create(t)
    <2>1. /\ Len(wrap) \in Nat /\ DOMAIN wrap = 1 .. Len(wrap)
          /\ DOMAIN wrap' = 1 .. Len(wrap) + 1 /\ wrap'[w] = wrap[w]
      BY <1>1, CreateEffect
    <2> QED
      BY <2>1
  <1> QED
    BY <1>1, WrapperSteps DEF Gains, Loses, Releases, Alters

\* A thread that is busy keeps its references.
LEMMA BusyKeep ==
  ASSUME TypeOK, [Next]_vars, NEW w \in DOMAIN wrap, NEW u \in wrap[w].refs,
         pc[u] # "idle"
  PROVE  u \in wrap'[w].refs
  <1>1. CASE \E t \in Threads : Create(t)
    BY <1>1, CreateEffect
  <1> QED
    BY <1>1, WrapperSteps DEF Gains, Loses, Releases, Alters

\* A wrapper that lives lived before, or is the new one; and if it is disposed
\* then it was, or it may be.
LEMMA OnlyLiveLive ==
  ASSUME TypeOK, [Next]_vars, NEW w \in DOMAIN wrap', Live(w)'
  PROVE  \/ /\ w \in DOMAIN wrap /\ Live(w)
            /\ wrap'[w].disposed => wrap[w].disposed \/ wrap[w].id \in Disposable
         \/ /\ w \notin DOMAIN wrap /\ w = Len(wrap) + 1 /\ ~wrap'[w].disposed
            /\ \E t \in Threads : Create(t)
  <1>1. ASSUME NEW t \in Threads, Create(t)
        PROVE  \/ w \in DOMAIN wrap /\ wrap'[w] = wrap[w]
               \/ w \notin DOMAIN wrap /\ w = Len(wrap) + 1 /\ ~wrap'[w].disposed
    <2>1. /\ Len(wrap) \in Nat /\ DOMAIN wrap = 1 .. Len(wrap)
          /\ DOMAIN wrap' = 1 .. Len(wrap) + 1
          /\ \A x \in DOMAIN wrap : wrap'[x] = wrap[x]
          /\ wrap'[Len(wrap) + 1] =
               [id |-> arg[t].id, disposed |-> FALSE, refs |-> {t}, releases |-> 0]
      BY <1>1, CreateEffect
    <2> QED
      BY <2>1
  <1>2. ASSUME NEW v \in DOMAIN wrap, Gains(v)
        PROVE  w \in DOMAIN wrap /\ Live(w) /\ wrap'[w].disposed = wrap[w].disposed
    BY <1>2 DEF Gains, Alters, Live
  <1>3. ASSUME NEW v \in DOMAIN wrap, NEW t \in Threads, Loses(t, v)
        PROVE  w \in DOMAIN wrap /\ Live(w) /\ wrap'[w].disposed = wrap[w].disposed
    BY <1>3 DEF Loses, Alters, Live
  <1>4. ASSUME NEW v \in DOMAIN wrap, NEW t \in Threads, NEW refs,
               Releases(t, v, refs)
        PROVE  /\ w \in DOMAIN wrap /\ Live(w)
               /\ wrap[w].id \in Disposable \/ wrap'[w].disposed = wrap[w].disposed
    BY <1>4 DEF Releases, Alters, Live
  <1>5. CASE \E t \in Threads : Create(t)
    BY <1>1, <1>5 DEF Live
  <1> QED
    BY <1>2, <1>3, <1>4, <1>5, WrapperSteps DEF Live

-----------------------------------------------------------------------------
(* The invariant is inductive.                                             *)

\* Who inserts did so before or has just created its wrapper; who reloads did
\* so before or has just asked, of a wrapper that it holds.
LEMMA HoldersStep ==
  ASSUME TypeOK, InsertersHold, ReloadersHold, [Next]_vars
  PROVE  InsertersHold' /\ ReloadersHold'
  <1>1. ASSUME NEW u \in Threads, Holds(u), pc[u] # "idle", arg'[u] = arg[u]
        PROVE  Holds(u)'
    <2>1. /\ arg[u].wrapper \in DOMAIN wrap' /\ u \in wrap'[arg[u].wrapper].refs
          /\ wrap'[arg[u].wrapper].id = arg[u].id
      BY <1>1, IdsStay, BusyKeep DEF Holds
    <2> QED
      BY <1>1, <2>1 DEF Holds
  <1>2. ASSUME NEW u \in Threads, pc'[u] = "inserting" PROVE Holds(u)'
    <2>1. CASE Create(u)
      <3>1. /\ Len(wrap) \in Nat /\ DOMAIN wrap' = 1 .. Len(wrap) + 1
            /\ wrap'[Len(wrap) + 1] =
                 [id |-> arg[u].id, disposed |-> FALSE, refs |-> {u}, releases |-> 0]
        BY <2>1, CreateEffect
      <3>2. arg'[u].wrapper = Len(wrap) + 1 /\ arg'[u].id = arg[u].id
        BY <2>1 DEF Create, TypeOK, Arg
      <3>3. Len(wrap) + 1 \in DOMAIN wrap'
        BY <3>1
      <3> QED
        BY <3>1, <3>2, <3>3 DEF Holds
    <2>2. CASE pc[u] = "inserting" /\ arg'[u] = arg[u]
      BY <1>1, <2>2 DEF InsertersHold
    <2>3. ~\E w \in DOMAIN wrap : Reload(u, w) /\ pc[u] = "idle"
      BY <1>2 DEF Reload, Ask, Goto, TypeOK
    <2> QED
      BY <1>2, <2>1, <2>2, <2>3, ThreadSteps
  <1>3. ASSUME NEW u \in Threads, pc'[u] = "reloading"
        PROVE  Holds(u)' /\ arg'[u].id \notin Disposable
    <2>1. ASSUME NEW w \in DOMAIN wrap, Reload(u, w)
          PROVE  Holds(u)' /\ arg'[u].id \notin Disposable
      <3>1. /\ wrap' = wrap /\ u \in wrap[w].refs /\ wrap[w].id \notin Disposable
            /\ arg'[u] = [id |-> wrap[w].id, wrapper |-> w]
        BY <1>3, <2>1 DEF Reload, Ask, Idle, TypeOK
      <3> QED
        BY <3>1 DEF Holds
    <2>2. CASE pc[u] = "reloading" /\ arg'[u] = arg[u]
      BY <1>1, <2>2 DEF ReloadersHold
    <2>3. ~(Create(u) /\ pc[u] = "loading")
      BY <1>3 DEF Create, Goto, TypeOK
    <2> QED
      BY <1>3, <2>1, <2>2, <2>3, ThreadSteps
  <1> QED
    BY <1>2, <1>3 DEF InsertersHold, ReloadersHold

\* Only a service that is up lets the server act.
LEMMA HandlesGoDown ==
  ASSUME TypeOK, NoServerNoHandles, [Next]_vars
  PROVE  NoServerNoHandles'
  <1>1. ASSUME NEW t \in Threads, NEW l, NEW a, Ask(t, l, a) PROVE UNCHANGED up
    BY <1>1 DEF Ask, Service!Call, Service!Reject
  <1>2. ASSUME NEW t \in Threads, ServeLoad(t) \/ ServeLoadBadly(t) \/ ServeRelease(t)
        PROVE  up'
    BY <1>2 DEF ServeLoad, ServeLoadBadly, ServeRelease, Service!Serve
  <1>3. GoDown => handles' = {}
    BY DEF GoDown
  <1>4. CASE UNCHANGED <<up, handles>>
    BY <1>4 DEF NoServerNoHandles
  <1>5. ASSUME NEW t \in Threads, Service!Return(t) PROVE UNCHANGED up
    BY <1>5 DEF Service!Return
  <1>6. ASSUME NEW t \in Threads, NEW w \in DOMAIN wrap,
               Reload(t, w) \/ Dispose(t, w) \/ Drop(t, w)
               \/ \E u \in Threads : Clone(t, u, w)
        PROVE  UNCHANGED <<up, handles>>
    BY <1>1, <1>6 DEF Reload, Dispose, Drop, Clone, Release, service, server
  <1>7. ASSUME NEW t \in Threads,
               \/ \E id \in Ids : Load(t, id)
               \/ LoadFails(t) \/ Reuse(t) \/ Create(t) \/ Insert(t)
               \/ Reloaded(t) \/ Released(t)
        PROVE  UNCHANGED <<up, handles>>
    BY <1>1, <1>5, <1>7
       DEF Load, LoadFails, Reuse, Create, Insert, Reloaded, Released, service, server
  <1>8. UNCHANGED vars => UNCHANGED <<up, handles>>
    BY DEF vars, service, server
  <1>9. CASE \E t \in Threads : ServeLoad(t) \/ ServeLoadBadly(t) \/ ServeRelease(t)
    BY <1>2, <1>9 DEF NoServerNoHandles
  <1>10. CASE GoDown
    BY <1>3, <1>10 DEF NoServerNoHandles
  <1> QED
    BY <1>4, <1>6, <1>7, <1>8, <1>9, <1>10 DEF Next

\* The map keeps to the ids, and only symbols and types are disposed in use.
LEMMA CustodyStep ==
  ASSUME TypeOK, Custody, [Next]_vars
  PROVE  Custody'
  <1>1. MapIsOfId'
    <2>1. ASSUME NEW t \in Threads, Insert(t) PROVE MapIsOfId'
      <3>1. /\ map' = [map EXCEPT ![arg[t].id] = arg[t].wrapper] /\ wrap' = wrap
            /\ Holds(t)
        BY <2>1 DEF Insert, Custody, InsertersHold
      <3> QED
        BY <3>1 DEF Holds, Custody, MapIsOfId, TypeOK
    <2>2. CASE UNCHANGED map
      <3> SUFFICES ASSUME NEW id \in Ids, map[id] # NoWrapper
                   PROVE  wrap'[map[id]].id = id
        BY <2>2 DEF MapIsOfId
      <3>1. map[id] \in DOMAIN wrap
        BY LenProperties DEF TypeOK, NoWrapper
      <3> QED
        BY <3>1, IdsStay DEF Custody, MapIsOfId
    <2>3. UNCHANGED map \/ \E t \in Threads : Insert(t)
      BY DEF Next, Load, LoadFails, Reuse, Create, Reload, Reloaded, Dispose, Drop,
             Clone, Released, ServeLoad, ServeLoadBadly, ServeRelease, GoDown, vars
    <2> QED
      BY <2>1, <2>2, <2>3
  <1>2. DisposedInUse'
    <2> SUFFICES ASSUME NEW w \in DOMAIN wrap', Live(w)', wrap'[w].disposed
                 PROVE  wrap'[w].id \in Disposable
      BY DEF DisposedInUse
    <2> QED
      BY OnlyLiveLive, IdsStay DEF Custody, DisposedInUse
  <1> QED
    BY <1>1, <1>2, HoldersStep, HandlesGoDown DEF Custody

\* A wrapper in use stays so, or its release is on its way, or there is no
\* server any more.
LEMMA InUseEnds ==
  ASSUME TypeOK, Custody, [Next]_vars, NEW w \in DOMAIN wrap, InUse(w)
  PROVE  \/ InUse(w)' \/ handles' = {}
         \/ \E t \in Threads : Releasing(t, wrap[w].id)'
  <1>1. ASSUME NEW t \in Threads, Create(t) PROVE InUse(w)'
    BY <1>1, CreateEffect DEF InUse, Live
  <1>2. ASSUME NEW v \in DOMAIN wrap, Gains(v) PROVE InUse(w)'
    BY <1>2 DEF Gains, Alters, InUse, Live
  <1>3. ASSUME NEW v \in DOMAIN wrap, NEW t \in Threads, Loses(t, v)
        PROVE  InUse(w)'
    BY <1>3 DEF Loses, Alters, InUse, Live
  <1>4. ASSUME NEW v \in DOMAIN wrap, NEW t \in Threads, NEW refs, Releases(t, v, refs)
        PROVE  InUse(w)' \/ handles' = {} \/ Releasing(t, wrap[w].id)'
    <2>1. CASE v # w
      BY <1>4, <2>1 DEF Releases, Alters, InUse, Live
    <2>2. CASE v = w
      <3>1. /\ Ask(t, "releasing", [id |-> wrap[w].id, wrapper |-> w])
            /\ handles' = handles
        BY <1>4, <2>2 DEF Releases, Release, server
      <3>2. CASE Service!Reject(t)
        BY <3>1, <3>2 DEF Service!Reject, Custody, NoServerNoHandles
      <3>3. CASE Service!Call(t) /\ Goto(t, "releasing")
                 /\ arg' = [arg EXCEPT ![t] = [id |-> wrap[w].id, wrapper |-> w]]
        <4>1. /\ pc'[t] = "releasing" /\ call'[t] = "pending"
              /\ arg'[t] = [id |-> wrap[w].id, wrapper |-> w]
          BY <3>3 DEF Service!Call, Service!Move, Goto, TypeOK
        <4> QED
          BY <4>1, IdsStay DEF Releasing
      <3>4. \/ Service!Reject(t)
            \/ /\ Service!Call(t) /\ Goto(t, "releasing")
               /\ arg' = [arg EXCEPT ![t] = [id |-> wrap[w].id, wrapper |-> w]]
        BY <3>1 DEF Ask
      <3> QED
        BY <3>2, <3>3, <3>4
    <2> QED
      BY <2>1, <2>2
  <1>5. CASE UNCHANGED wrap
    BY <1>5 DEF InUse, Live
  <1> QED
    BY <1>1, <1>2, <1>3, <1>4, <1>5, WrapperSteps

\* An answered load stays so, or it ends in a wrapper in use, or its handle is
\* one of those that are lost.
LEMMA LoadedEnds ==
  ASSUME TypeOK, Custody, [Next]_vars, NEW t \in Threads, NEW id, Loaded(t, id)
  PROVE  \/ Loaded(t, id)' \/ id \in lost'
         \/ \E w \in DOMAIN wrap' : InUse(w)' /\ wrap'[w].id = id
  <1>1. ASSUME Reuse(t)
        PROVE  id \in lost' \/ \E w \in DOMAIN wrap' : InUse(w)' /\ wrap'[w].id = id
    <2> DEFINE w == map[arg[t].id]
    <2>1. /\ w \in DOMAIN wrap /\ Live(w) /\ arg[t].id = id
          /\ Alters(w, wrap[w].refs \cup {t}, wrap[w].disposed)
          /\ lost' = IF wrap[w].disposed THEN lost \cup {id} ELSE lost
      BY <1>1, ReuseEffect DEF Loaded, Reuse
    <2>2. wrap[w].id = id
      <3>1. w # NoWrapper /\ id \in Ids
        BY <2>1, LenProperties DEF NoWrapper, TypeOK, Arg
      <3> QED
        BY <2>1, <3>1 DEF Custody, MapIsOfId
    <2> HIDE DEF w
    <2> QED
      BY <2>1, <2>2 DEF Alters, InUse, Live
  <1>2. ASSUME Create(t)
        PROVE  \E w \in DOMAIN wrap' : InUse(w)' /\ wrap'[w].id = id
    <2>1. /\ Len(wrap) \in Nat /\ DOMAIN wrap' = 1 .. Len(wrap) + 1
          /\ wrap'[Len(wrap) + 1] =
               [id |-> arg[t].id, disposed |-> FALSE, refs |-> {t}, releases |-> 0]
      BY <1>2, CreateEffect
    <2>2. Len(wrap) + 1 \in DOMAIN wrap' /\ arg[t].id = id
      BY <2>1 DEF Loaded
    <2>3. /\ wrap'[Len(wrap) + 1].refs # {} /\ ~wrap'[Len(wrap) + 1].disposed
          /\ wrap'[Len(wrap) + 1].id = id
      BY <2>1, <2>2
    <2> QED
      BY <2>2, <2>3 DEF InUse, Live
  <1>3. pc[t] = "loading" /\ call[t] = "answered" /\ arg[t].id = id
    BY DEF Loaded
  <1>4. ASSUME NEW u \in Threads, u # t,
               \/ Service!Call(u) \/ Service!Reject(u) \/ Service!Return(u)
               \/ \E v \in {"answered", "failed"} : Service!Serve(u, v)
        PROVE  call'[t] = call[t]
    BY <1>4
       DEF Service!Call, Service!Reject, Service!Return, Service!Serve, Service!Move,
           TypeOK
  <1>5. ASSUME Service!Stop PROVE call'[t] = call[t]
    BY <1>3, <1>5 DEF Service!Stop
  <1>6. ASSUME Service!Call(t) \/ (\E v \in {"answered", "failed"} : Service!Serve(t, v))
        PROVE  FALSE
    BY <1>3, <1>6 DEF Service!Call, Service!Serve, Service!Move
  <1>7. \/ Reuse(t) \/ Create(t) \/ call'[t] = call[t]
    <2>1. ASSUME NEW u \in Threads, NEW id1 \in Ids, Load(u, id1)
          PROVE  call'[t] = call[t]
      BY <1>3, <1>4, <2>1 DEF Load, Ask, Idle
    <2>2. ASSUME NEW u \in Threads, LoadFails(u) \/ Reloaded(u) \/ Released(u)
          PROVE  call'[t] = call[t]
      BY <1>3, <1>4, <2>2 DEF LoadFails, Reloaded, Released
    <2>3. ASSUME NEW u \in Threads, Reuse(u) \/ Create(u)
          PROVE  \/ Reuse(t) \/ Create(t) \/ call'[t] = call[t]
      BY <1>4, <2>3 DEF Reuse, Create
    <2>4. ASSUME NEW u \in Threads, NEW w \in DOMAIN wrap,
                 Reload(u, w) \/ Dispose(u, w) \/ Drop(u, w)
          PROVE  call'[t] = call[t]
      BY <1>3, <1>4, <2>4 DEF Reload, Dispose, Drop, Release, Ask, Idle, service
    <2>5. ASSUME NEW u \in Threads, ServeLoad(u) \/ ServeLoadBadly(u) \/ ServeRelease(u)
          PROVE  call'[t] = call[t]
      BY <1>4, <1>6, <2>5 DEF ServeLoad, ServeLoadBadly, ServeRelease
    <2>6. \/ UNCHANGED call \/ GoDown
          \/ \E u \in Threads :
               \/ \E id1 \in Ids : Load(u, id1)
               \/ LoadFails(u) \/ Reloaded(u) \/ Released(u) \/ Reuse(u) \/ Create(u)
               \/ \E w \in DOMAIN wrap : Reload(u, w) \/ Dispose(u, w) \/ Drop(u, w)
               \/ ServeLoad(u) \/ ServeLoadBadly(u) \/ ServeRelease(u)
      BY DEF Next, Clone, Insert, vars, service
    <2> QED
      BY <1>5, <2>1, <2>2, <2>3, <2>4, <2>5, <2>6 DEF GoDown
  <1>8. CASE call'[t] = call[t]
    <2>1. pc'[t] \notin {"idle", "inserting"}
      BY <1>3, <1>8, TypeStep DEF Custody, TypeOK
    <2>2. pc'[t] = pc[t] /\ arg'[t] = arg[t]
      BY <1>3, <2>1, ThreadSteps DEF Create, Goto, TypeOK
    <2> QED
      BY <1>3, <1>8, <2>2 DEF Loaded
  <1> QED
    BY <1>1, <1>2, <1>7, <1>8

\* A release on its way stays so, or the handle goes.
LEMMA ReleasingEnds ==
  ASSUME TypeOK, Custody, [Next]_vars, NEW t \in Threads, NEW id, Releasing(t, id)
  PROVE  Releasing(t, id)' \/ id \notin handles'
  <1>1. pc[t] = "releasing" /\ call[t] = "pending" /\ arg[t].id = id
    BY DEF Releasing
  <1>2. ASSUME NEW u \in Threads, u # t,
               \/ Service!Call(u) \/ Service!Reject(u) \/ Service!Return(u)
               \/ \E v \in {"answered", "failed"} : Service!Serve(u, v)
        PROVE  call'[t] = call[t]
    BY <1>2
       DEF Service!Call, Service!Reject, Service!Return, Service!Serve, Service!Move,
           TypeOK
  <1>3. ~Service!Call(t) /\ ~Service!Return(t)
    BY <1>1 DEF Service!Call, Service!Return, Service!Move
  <1>4. call'[t] = call[t] \/ GoDown \/ ServeRelease(t)
    <2>1. ASSUME NEW u \in Threads, NEW id1 \in Ids, Load(u, id1)
          PROVE  call'[t] = call[t]
      BY <1>1, <1>2, <2>1 DEF Load, Ask, Idle
    <2>2. ASSUME NEW u \in Threads,
                 LoadFails(u) \/ Reloaded(u) \/ Released(u) \/ Reuse(u) \/ Create(u)
          PROVE  call'[t] = call[t]
      BY <1>2, <1>3, <2>2 DEF LoadFails, Reloaded, Released, Reuse, Create
    <2>3. ASSUME NEW u \in Threads, NEW w \in DOMAIN wrap,
                 Reload(u, w) \/ Dispose(u, w) \/ Drop(u, w)
          PROVE  call'[t] = call[t]
      BY <1>1, <1>2, <2>3 DEF Reload, Dispose, Drop, Release, Ask, Idle, service
    <2>4. ASSUME NEW u \in Threads, ServeLoad(u) \/ ServeLoadBadly(u) \/ ServeRelease(u)
          PROVE  call'[t] = call[t] \/ ServeRelease(t)
      BY <1>1, <1>2, <2>4 DEF ServeLoad, ServeLoadBadly, ServeRelease
    <2>5. \/ UNCHANGED call \/ GoDown
          \/ \E u \in Threads :
               \/ \E id1 \in Ids : Load(u, id1)
               \/ LoadFails(u) \/ Reloaded(u) \/ Released(u) \/ Reuse(u) \/ Create(u)
               \/ \E w \in DOMAIN wrap : Reload(u, w) \/ Dispose(u, w) \/ Drop(u, w)
               \/ ServeLoad(u) \/ ServeLoadBadly(u) \/ ServeRelease(u)
      BY DEF Next, Clone, Insert, vars, service
    <2> QED
      BY <2>1, <2>2, <2>3, <2>4, <2>5
  <1>5. CASE call'[t] = call[t]
    <2>1. pc'[t] \notin {"idle", "inserting"}
      BY <1>1, <1>5, TypeStep DEF Custody, TypeOK
    <2>2. pc'[t] = pc[t] /\ arg'[t] = arg[t]
      BY <1>1, <2>1, ThreadSteps
    <2> QED
      BY <1>1, <1>5, <2>2 DEF Releasing
  <1>6. CASE GoDown \/ ServeRelease(t)
    BY <1>1, <1>6 DEF GoDown, ServeRelease
  <1> QED
    BY <1>4, <1>5, <1>6

\* A handle that is new comes from a load, whose answer, or whose wrapper if
\* it is a reload, accounts for it, or is lost.
LEMMA NewHandles ==
  ASSUME TypeOK, Custody, [Next]_vars, NEW id \in handles' \ lost', id \notin handles
  PROVE  \/ \E t \in Threads : Loaded(t, id)'
         \/ \E w \in DOMAIN wrap' : InUse(w)' /\ wrap'[w].id = id
  <1>1. \E t \in Threads : ServeLoad(t) \/ ServeLoadBadly(t)
    BY DEF Next, Load, LoadFails, Reuse, Create, Insert, Reload, Reloaded, Dispose,
           Drop, Clone, Released, ServeRelease, GoDown, vars, server
  <1>2. PICK t \in Threads : ServeLoad(t) \/ ServeLoadBadly(t)
    BY <1>1
  <1>3. arg[t].id = id /\ UNCHANGED <<pc, arg, wrap>>
    BY <1>2 DEF ServeLoad, ServeLoadBadly
  <1>4. CASE pc[t] = "loading"
    <2>1. ServeLoad(t)
      BY <1>2, <1>3, <1>4 DEF ServeLoadBadly
    <2>2. call'[t] = "answered"
      BY <2>1 DEF ServeLoad, Service!Serve, Service!Move, TypeOK
    <2> QED
      BY <1>3, <1>4, <2>2 DEF Loaded
  <1>5. CASE pc[t] = "reloading"
    <2> DEFINE w == arg[t].wrapper
    <2>1. w \in DOMAIN wrap /\ Live(w) /\ wrap[w].id = id /\ id \notin Disposable
      BY <1>3, <1>5 DEF Custody, ReloadersHold, Holds, Live
    <2>2. ~wrap[w].disposed
      BY <2>1 DEF Custody, DisposedInUse
    <2> HIDE DEF w
    <2> QED
      BY <1>3, <2>1, <2>2 DEF InUse, Live
  <1> QED
    BY <1>2, <1>4, <1>5 DEF ServeLoad, ServeLoadBadly

\* Every handle stays accounted for.
LEMMA AccountedStep ==
  ASSUME TypeOK, Custody, HandlesAccounted, [Next]_vars
  PROVE  HandlesAccounted'
  <1>1. lost \subseteq lost'
    BY ZenonT(30) DEF Next, Load, LoadFails, Reuse, Create, Insert, Reload, Reloaded, Dispose,
           Drop, Clone, Released, ServeLoad, ServeLoadBadly, ServeRelease, GoDown,
           vars, server
  <1>2. ASSUME NEW id \in handles' \ lost',
               \/ \E w \in DOMAIN wrap' : InUse(w)' /\ wrap'[w].id = id
               \/ \E t \in Threads : Loaded(t, id)' \/ Releasing(t, id)'
        PROVE  Accounted(id)'
    BY <1>2 DEF Accounted
  <1>3. ASSUME NEW id \in handles' \ lost', id \in handles \ lost
        PROVE  \/ \E w \in DOMAIN wrap' : InUse(w)' /\ wrap'[w].id = id
               \/ \E t \in Threads : Loaded(t, id)' \/ Releasing(t, id)'
    <2>1. Accounted(id)
      BY <1>3 DEF HandlesAccounted
    <2>2. ASSUME NEW w \in DOMAIN wrap, InUse(w), wrap[w].id = id
          PROVE  \/ \E v \in DOMAIN wrap' : InUse(v)' /\ wrap'[v].id = id
                 \/ \E t \in Threads : Releasing(t, id)'
      <3>1. w \in DOMAIN wrap' /\ wrap'[w].id = id
        BY <2>2, IdsStay
      <3>2. CASE InUse(w)'
        BY <3>1, <3>2
      <3>3. ASSUME NEW t \in Threads, Releasing(t, wrap[w].id)'
            PROVE  Releasing(t, id)'
        BY <3>1, <3>3 DEF Releasing
      <3> QED
        BY <1>3, <2>2, <3>2, <3>3, InUseEnds
    <2>3. ASSUME NEW t \in Threads, Loaded(t, id)
          PROVE  \/ Loaded(t, id)'
                 \/ \E w \in DOMAIN wrap' : InUse(w)' /\ wrap'[w].id = id
      BY <1>3, <2>3, LoadedEnds
    <2>4. ASSUME NEW t \in Threads, Releasing(t, id) PROVE Releasing(t, id)'
      BY <1>3, <2>4, ReleasingEnds
    <2> QED
      BY <2>1, <2>2, <2>3, <2>4 DEF Accounted
  <1>4. ASSUME NEW id \in handles' \ lost' PROVE Accounted(id)'
    <2>1. CASE id \in handles
      BY <1>1, <1>2, <1>3, <2>1
    <2>2. CASE id \notin handles
      BY <1>2, <2>2, NewHandles
    <2> QED
      BY <2>1, <2>2
  <1> QED
    BY <1>4 DEF HandlesAccounted

\* Ids stay raced for, and one becomes so when a second wrapper of it is made
\* while the first is not yet in the map.
LEMMA RacedGrows ==
  ASSUME [Next]_vars
  PROVE  /\ raced \subseteq raced'
         /\ \A t, u \in Threads :
              Create(t) /\ pc[u] = "inserting" /\ arg[u].id = arg[t].id
                => arg[t].id \in raced'
  <1>1. \A t \in Threads : Create(t) =>
          raced' = raced \cup {id \in {arg[t].id} :
                     \E u \in Threads : pc[u] = "inserting" /\ arg[u].id = id}
    BY DEF Create
  <1>2. UNCHANGED raced \/ \E t \in Threads : Create(t)
    BY DEF Next, Load, LoadFails, Reuse, Insert, Reload, Reloaded, Dispose, Drop,
           Clone, Released, ServeLoad, ServeLoadBadly, ServeRelease, GoDown, vars
  <1> QED
    BY <1>1, <1>2

\* Who is about to insert was so before, or has just created its wrapper.
LEMMA InsertersWere ==
  ASSUME TypeOK, [Next]_vars, NEW u \in Threads, pc'[u] = "inserting"
  PROVE  \/ pc[u] = "inserting" /\ arg'[u] = arg[u]
         \/ /\ Create(u) /\ pc[u] = "loading" /\ arg'[u].id = arg[u].id
            /\ arg'[u].wrapper = Len(wrap) + 1
            /\ \A v \in Threads : Create(v) => v = u
  <1>1. ~\E w \in DOMAIN wrap : Reload(u, w) /\ pc[u] = "idle"
    BY DEF Reload, Ask, Goto, TypeOK
  <1>2. CASE Create(u)
    <2>1. /\ pc[u] = "loading" /\ pc' = [pc EXCEPT ![u] = "inserting"]
          /\ arg'[u].id = arg[u].id /\ arg'[u].wrapper = Len(wrap) + 1
      BY <1>2 DEF Create, Goto, TypeOK, Arg
    <2>2. ASSUME NEW v \in Threads, Create(v), v # u PROVE FALSE
      BY <2>1, <2>2 DEF Create, Goto, TypeOK
    <2> QED
      BY <1>2, <2>1, <2>2
  <1> QED
    BY <1>1, <1>2, ThreadSteps

\* One living wrapper of an id, as long as nobody raced for it.
LEMMA KnownStep ==
  ASSUME TypeOK, Custody, Known, [Next]_vars
  PROVE  Known'
  <1>1. LiveAreKnown'
    <2> SUFFICES ASSUME NEW w \in DOMAIN wrap', Live(w)', wrap'[w].id \notin raced'
                 PROVE  \/ map'[wrap'[w].id] = w
                        \/ \E t \in Threads : pc'[t] = "inserting" /\ arg'[t].wrapper = w
      BY DEF LiveAreKnown
    <2>1. CASE w \in DOMAIN wrap /\ Live(w)
      <3> DEFINE id == wrap[w].id
      <3>1. wrap'[w].id = id /\ id \notin raced /\ id \in Ids
        BY <2>1, IdsStay, RacedGrows, WrapperType
      <3>2. \/ map[id] = w
            \/ \E t \in Threads : pc[t] = "inserting" /\ arg[t].wrapper = w
        BY <2>1, <3>1 DEF Known, LiveAreKnown
      <3>3. ASSUME NEW t \in Threads, Insert(t), arg[t].id = id PROVE map'[id] = w
        <4>1. map'[id] = arg[t].wrapper /\ pc[t] = "inserting"
          BY <3>1, <3>3 DEF Insert, TypeOK
        <4>2. w = arg[t].wrapper
          BY <2>1, <3>1, <3>3, <4>1 DEF Known, InsertedIsOnly
        <4> QED
          BY <4>1, <4>2
      <3>4. CASE map[id] = w
        <4>1. map'[id] = map[id] \/ \E t \in Threads : Insert(t) /\ arg[t].id = id
          <5>1. UNCHANGED map \/ \E t \in Threads : Insert(t)
            BY ZenonT(30) DEF Next, Load, LoadFails, Reuse, Create, Reload, Reloaded, Dispose,
                   Drop, Clone, Released, ServeLoad, ServeLoadBadly, ServeRelease,
                   GoDown, vars
          <5> QED
            BY <3>1, <5>1 DEF Insert, TypeOK
        <4> QED
          BY <3>1, <3>3, <3>4, <4>1
      <3>5. ASSUME NEW t \in Threads, pc[t] = "inserting", arg[t].wrapper = w
            PROVE  map'[id] = w \/ (pc'[t] = "inserting" /\ arg'[t].wrapper = w)
        <4>1. arg[t].id = id
          BY <3>5 DEF Custody, InsertersHold, Holds
        <4>2. CASE Insert(t)
          BY <3>3, <4>1, <4>2
        <4> QED
          BY <3>5, <4>2, ThreadSteps
      <3> QED
        BY <3>1, <3>2, <3>4, <3>5
    <2>2. CASE w = Len(wrap) + 1 /\ \E t \in Threads : Create(t)
      <3>1. PICK t \in Threads : Create(t)
        BY <2>2
      <3>2. pc'[t] = "inserting" /\ arg'[t].wrapper = Len(wrap) + 1
        BY <3>1 DEF Create, Goto, TypeOK, Arg
      <3> QED
        BY <2>2, <3>2
    <2> QED
      BY <2>1, <2>2, OnlyLiveLive
  <1>2. InsertersRace'
    <2> SUFFICES ASSUME NEW t \in Threads, NEW u \in Threads, pc'[t] = "inserting",
                        pc'[u] = "inserting", arg'[t].id = arg'[u].id, t # u
                 PROVE  arg'[t].id \in raced'
      BY DEF InsertersRace
    <2>1. CASE /\ pc[t] = "inserting" /\ arg'[t] = arg[t]
               /\ pc[u] = "inserting" /\ arg'[u] = arg[u]
      BY <2>1, RacedGrows DEF Known, InsertersRace
    <2>2. CASE Create(t) /\ arg'[t].id = arg[t].id /\ pc[u] = "inserting"
               /\ arg'[u] = arg[u]
      BY <2>2, RacedGrows
    <2>3. CASE Create(u) /\ arg'[u].id = arg[u].id /\ pc[t] = "inserting"
               /\ arg'[t] = arg[t]
      BY <2>3, RacedGrows
    <2> QED
      BY <2>1, <2>2, <2>3, InsertersWere
  <1>3. InsertedIsOnly'
    <2> SUFFICES ASSUME NEW t \in Threads, pc'[t] = "inserting", arg'[t].id \notin raced',
                        NEW w \in DOMAIN wrap', Live(w)', wrap'[w].id = arg'[t].id
                 PROVE  w = arg'[t].wrapper
      BY DEF InsertedIsOnly
    <2>1. CASE pc[t] = "inserting" /\ arg'[t] = arg[t]
      <3>1. CASE w \in DOMAIN wrap /\ Live(w)
        BY <2>1, <3>1, IdsStay, RacedGrows DEF Known, InsertedIsOnly
      <3>2. CASE w = Len(wrap) + 1 /\ \E u \in Threads : Create(u)
        <4>1. PICK u \in Threads : Create(u)
          BY <3>2
        <4>2. wrap'[w].id = arg[u].id
          <5>1. wrap'[Len(wrap) + 1] =
                  [id |-> arg[u].id, disposed |-> FALSE, refs |-> {u}, releases |-> 0]
            BY <4>1, CreateEffect
          <5> QED
            BY <3>2, <5>1
        <4> QED
          BY <2>1, <4>1, <4>2, RacedGrows
      <3> QED
        BY <3>1, <3>2, OnlyLiveLive
    <2>2. CASE /\ Create(t) /\ arg'[t].id = arg[t].id
               /\ arg'[t].wrapper = Len(wrap) + 1
      <3>1. ASSUME w \in DOMAIN wrap, Live(w) PROVE FALSE
        <4>1. wrap[w].id = arg[t].id /\ arg[t].id \notin raced
          BY <2>2, <3>1, IdsStay, RacedGrows
        <4>2. map[arg[t].id] # w
          BY <2>2, <3>1 DEF Create, Upgrades
        <4>3. PICK u \in Threads : pc[u] = "inserting" /\ arg[u].wrapper = w
          BY <3>1, <4>1, <4>2 DEF Known, LiveAreKnown
        <4>4. arg[u].id = arg[t].id
          BY <4>1, <4>3 DEF Custody, InsertersHold, Holds
        <4> QED
          BY <2>2, <4>3, <4>4, RacedGrows
      <3> QED
        BY <2>2, <3>1, OnlyLiveLive
    <2> QED
      BY <2>1, <2>2, InsertersWere
  <1> QED
    BY <1>1, <1>2, <1>3 DEF Known

\* The invariant holds at the start, ...
LEMMA RegistryInit == Init => RegistryInv
  <1> SUFFICES ASSUME Init PROVE RegistryInv
    OBVIOUS
  <1>1. DOMAIN wrap = {} /\ handles = {}
        /\ (\A t \in Threads : pc[t] = "idle") /\ \A id \in Ids : map[id] = NoWrapper
    BY EmptySeq DEF Init
  <1>2. Custody
    BY <1>1 DEF Custody, NoServerNoHandles, MapIsOfId, InsertersHold, ReloadersHold,
                DisposedInUse
  <1>3. HandlesAccounted /\ Known
    BY <1>1 DEF HandlesAccounted, Known, LiveAreKnown, InsertersRace, InsertedIsOnly
  <1> QED
    BY <1>2, <1>3, TypeInit DEF RegistryInv

\* ... and every step keeps it.
LEMMA RegistryStep == RegistryInv /\ [Next]_vars => RegistryInv'
  <1> SUFFICES ASSUME RegistryInv, [Next]_vars PROVE RegistryInv'
    OBVIOUS
  <1>1. TypeOK /\ InsertersHold
    BY DEF RegistryInv, Custody
  <1> QED
    BY <1>1, TypeStep, ReleasedOnceStep, CustodyStep, AccountedStep, KnownStep
       DEF RegistryInv

\* The inductive invariant holds always: every handle of the server, every
\* wrapper and every release under way is accounted for.
THEOREM RegistryInvariant == Spec => []RegistryInv
  BY RegistryInit, RegistryStep, PTL DEF Spec

-----------------------------------------------------------------------------
(* The properties of ObjectRegistry.                                       *)

\* TypeOK: every variable keeps its type, and a thread is in a request exactly
\* while its place in the code waits for an answer.
THEOREM TypeCorrect == Spec => []TypeOK
  <1>1. RegistryInv => TypeOK
    BY DEF RegistryInv
  <1> QED
    BY <1>1, RegistryInvariant, PTL

\* ReleasedOnce: dispose and drop together ask for a release at most once.
THEOREM HandlesReleasedOnce == Spec => []ReleasedOnce
  <1>1. RegistryInv => ReleasedOnce
    BY DEF RegistryInv
  <1> QED
    BY <1>1, RegistryInvariant, PTL

\* NoLeak: when nothing is under way and every wrapper is dropped, the server
\* holds no handle but the lost ones.
THEOREM NoHandleLeaks == Spec => []NoLeak
  <1>1. RegistryInv => NoLeak
    BY DEF RegistryInv, HandlesAccounted, Accounted, InUse, Loaded, Releasing, NoLeak,
           Idle
  <1> QED
    BY <1>1, RegistryInvariant, PTL

\* UniqueUnlessRaced: an id has one living wrapper unless two threads created
\* wrappers of it at once.
THEOREM OneWrapperPerId == Spec => []UniqueUnlessRaced
  <1>1. RegistryInv => UniqueUnlessRaced
    <2> SUFFICES ASSUME RegistryInv, NEW v \in DOMAIN wrap, NEW w \in DOMAIN wrap,
                        wrap[v].id = wrap[w].id, Live(v), Live(w),
                        wrap[v].id \notin raced
                 PROVE  v = w
      BY DEF UniqueUnlessRaced
    <2>1. ASSUME NEW x \in DOMAIN wrap, NEW y \in DOMAIN wrap, wrap[x].id = wrap[y].id,
                 Live(x), wrap[x].id \notin raced,
                 NEW t \in Threads, pc[t] = "inserting", arg[t].wrapper = y
          PROVE  x = y
      <3>1. arg[t].id = wrap[y].id
        BY <2>1 DEF RegistryInv, Custody, InsertersHold, Holds
      <3> QED
        BY <2>1, <3>1 DEF RegistryInv, Known, InsertedIsOnly
    <2>2. /\ map[wrap[v].id] = v
             \/ \E t \in Threads : pc[t] = "inserting" /\ arg[t].wrapper = v
          /\ map[wrap[w].id] = w
             \/ \E t \in Threads : pc[t] = "inserting" /\ arg[t].wrapper = w
      BY DEF RegistryInv, Known, LiveAreKnown
    <2> QED
      BY <2>1, <2>2
  <1> QED
    BY <1>1, RegistryInvariant, PTL
=============================================================================
