----------------------- MODULE TransportClientProofs ------------------------
(***************************************************************************)
(* What holds of TransportClient for every set of threads and of other     *)
(* owners and every number of calls: each blocked thread is waited for by  *)
(* exactly one command, each gets the result of its own call, only a panic *)
(* loses calls, and every step is one that RequestService allows.          *)
(***************************************************************************)
EXTENDS TransportClient, FiniteSetTheorems, SequenceTheorems, TLAPS

IsCall(c) == c.kind = "Request"

\* The thread that sent c is blocked in the call that c is of, without a reply.
Open(c) ==
  /\ pc[c.thread] = "receiving" /\ reply[c.thread] = Empty
  /\ c.call = calls[c.thread]

\* Commands that have not been served are of open calls, ...
QueuedAreOpen == \A i \in 1 .. Len(queue) : IsCall(queue[i]) => Open(queue[i])
ServedIsOpen == serving # None => IsCall(serving) /\ Open(serving)

\* ... no two of them are of one thread, ...
OnePerThread ==
  /\ \A i, j \in 1 .. Len(queue) :
       /\ IsCall(queue[i]) /\ IsCall(queue[j]) /\ queue[i].thread = queue[j].thread
       => i = j
  /\ serving # None =>
       \A i \in 1 .. Len(queue) :
         IsCall(queue[i]) => queue[i].thread # serving.thread

\* ... and every open call has one.
OpenAreHeld ==
  \A t \in Threads : pc[t] = "receiving" /\ reply[t] = Empty =>
    \/ serving # None /\ serving.thread = t
    \/ \E i \in 1 .. Len(queue) : IsCall(queue[i]) /\ queue[i].thread = t

\* A reply that waits to be received is of the present call.
ReplyIsCurrent ==
  \A t \in Threads : pc[t] = "receiving" => reply[t].call \in {0, calls[t]}

\* A blocked thread owns a handle, and nobody does once Shutdown was sent.
BlockedOwn == \A t \in Threads : pc[t] = "receiving" => t \in handles
ShutdownIsLast ==
  worker = "closing" \/ (\E i \in 1 .. Len(queue) : queue[i] = Shutdown)
    => handles = {}

ClientInv ==
  /\ TypeOK /\ OwnReplies
  /\ QueuedAreOpen /\ ServedIsOpen /\ OnePerThread /\ OpenAreHeld
  /\ ReplyIsCurrent /\ BlockedOwn /\ ShutdownIsLast

-----------------------------------------------------------------------------
(* Types.                                                                  *)

\* A command is Shutdown or a call, of a thread and a number in the bound.
LEMMA CommandShape ==
  ASSUME NEW c \in Commands
  PROVE  /\ IsCall(c) <=> c # Shutdown
         /\ IsCall(c) => /\ c.thread \in Threads /\ c.call \in 1 .. MaxCalls
                         /\ c = Cmd(c.thread, c.call)
         /\ c # None
  BY DEF Commands, Cmd, Shutdown, IsCall, None

\* The sentinels of a reply channel are no results and differ.
LEMMA ReplyShape ==
  /\ Empty # Dropped /\ Empty \notin Result /\ Dropped \notin Result
  /\ Empty.call = 0 /\ Dropped.call = 0
  BY DEF Empty, Dropped, Result

\* Commands that lose their senders leave the channels typed.
LEMMA DropSendersType ==
  ASSUME TypeOK, NEW cmds, DropSenders(cmds)
  PROVE  reply' \in [Threads -> Result \cup {Empty, Dropped}]
  BY DEF TypeOK, DropSenders

\* A result or the end of the connection is handed to the caller.
LEMMA ReturnsType ==
  ASSUME TypeOK, NEW t \in Threads, NEW r \in Result \cup {Dropped}, Returns(t, r)
  PROVE  /\ pc' \in [Threads -> {"idle", "receiving"}]
         /\ returned' \in [Threads -> Seq(Result \cup {Dropped})]
  BY AppendProperties DEF TypeOK, Returns

\* The initial state is typed.
LEMMA TypeInit == Init => TypeOK
  <1> SUFFICES ASSUME Init PROVE TypeOK
    OBVIOUS
  <1>1. queue \in Seq(Commands)
    BY EmptySeq DEF Init
  <1>2. returned \in [Threads -> Seq(Result \cup {Dropped})]
    BY EmptySeq DEF Init
  <1>3. calls \in [Threads -> 0 .. MaxCalls]
    BY ClientAssumption DEF Init
  <1>4. /\ handles \subseteq Owners
        /\ pc \in [Threads -> {"idle", "receiving"}]
        /\ reply \in [Threads -> Result \cup {Empty, Dropped}]
    BY DEF Init
  <1> QED
    BY <1>1, <1>2, <1>3, <1>4 DEF Init, TypeOK

\* Every step keeps the types.
LEMMA TypeStep == TypeOK /\ [Next]_vars => TypeOK'
  <1> SUFFICES ASSUME TypeOK, [Next]_vars PROVE TypeOK'
    OBVIOUS
  <1>1. ASSUME NEW t \in Threads, Request(t) PROVE TypeOK'
    <2>0. calls[t] \in 0 .. MaxCalls /\ calls[t] < MaxCalls /\ MaxCalls \in Nat
      BY <1>1, ClientAssumption DEF Request, TypeOK
    <2>1. Cmd(t, calls[t] + 1) \in Commands /\ calls[t] + 1 \in 0 .. MaxCalls
      <3>1. calls[t] + 1 \in 1 .. MaxCalls
        BY <2>0
      <3> QED
        BY <3>1, <2>0 DEF Commands
    <2>2. CASE Connected
      <3>1. queue' = Append(queue, Cmd(t, calls[t] + 1)) /\ queue \in Seq(Commands)
        BY <1>1, <2>2 DEF Request, TypeOK
      <3>2. queue' \in Seq(Commands)
        BY <2>1, <3>1, AppendProperties
      <3> QED
        BY <1>1, <2>1, <2>2, <3>2 DEF Request, TypeOK
    <2>3. CASE ~Connected
      BY <1>1, <2>1, <2>3, ReturnsType DEF Request, TypeOK
    <2> QED
      BY <2>2, <2>3
  <1>2. ASSUME NEW t \in Threads, Receive(t) PROVE TypeOK'
    BY <1>2, ReturnsType DEF Receive, TypeOK
  <1>3. ASSUME NEW t \in Threads, ClientClose(t) PROVE TypeOK'
    <2>1. Shutdown \in Commands
      BY DEF Commands
    <2>2. CASE Close(t)
      <3>1. queue' \in Seq(Commands)
        BY <2>1, <2>2, AppendProperties DEF Close, TypeOK
      <3> QED
        BY <2>2, <3>1 DEF Close, TypeOK, user
    <2> QED
      BY <1>3, <2>2 DEF ClientClose, TypeOK, user
  <1>4. ASSUME NEW t \in Threads, NEW o \in Owners, Share(t, o) PROVE TypeOK'
    BY <1>4 DEF Share, TypeOK, user
  <1>5. ASSUME NEW o \in Owners, DropHandle(o) PROVE TypeOK'
    BY <1>5 DEF DropHandle, TypeOK, user
  <1>6. CASE Take
    <2>1. Head(queue) \in Commands /\ Tail(queue) \in Seq(Commands)
      BY <1>6, HeadTailProperties DEF Take, TypeOK
    <2>2. Head(queue) # None
      BY <2>1, CommandShape
    <2> QED
      BY <1>6, <2>1, <2>2 DEF Take, TypeOK, user
  <1>7. CASE Finish
    <2>1. PICK kind \in {"ok", "error"} :
            reply' = [reply EXCEPT ![serving.thread] =
                        [kind |-> kind, call |-> serving.call]]
      BY <1>7 DEF Finish
    <2>2. [kind |-> kind, call |-> serving.call] \in Result
      BY <1>7, CommandShape DEF Finish, TypeOK, Result
    <2> QED
      BY <1>7, <2>1, <2>2 DEF Finish, TypeOK, user
  <1>8. CASE Finalize
    BY <1>8, DropSendersType, EmptySeq DEF Finalize, ExitWorker, TypeOK, user
  <1>9. CASE Disconnect
    BY <1>9, DropSendersType, EmptySeq DEF Disconnect, ExitWorker, TypeOK, user
  <1>10. CASE Panic
    BY <1>10, DropSendersType DEF Panic, TypeOK, user
  <1>11. CASE Unwind
    BY <1>11, DropSendersType, EmptySeq DEF Unwind, ExitWorker, TypeOK, user
  <1>12. CASE UNCHANGED vars
    BY <1>12 DEF TypeOK, vars, user
  <1> QED
    BY <1>1, <1>2, <1>3, <1>4, <1>5, <1>6, <1>7, <1>8, <1>9, <1>10, <1>11, <1>12
       DEF Next

-----------------------------------------------------------------------------
(* The inductive invariant.                                                *)

\* The invariant without the types and the results, which have lemmas of
\* their own.
Custody ==
  /\ QueuedAreOpen /\ ServedIsOpen /\ OnePerThread /\ OpenAreHeld
  /\ ReplyIsCurrent /\ BlockedOwn /\ ShutdownIsLast

\* What the queue holds after a command is appended.
LEMMA AppendToQueue ==
  ASSUME TypeOK, NEW c \in Commands, queue' = Append(queue, c)
  PROVE  /\ Len(queue) \in Nat /\ Len(queue') = Len(queue) + 1
         /\ queue'[Len(queue) + 1] = c
         /\ \A i \in 1 .. Len(queue) : queue'[i] = queue[i] /\ queue[i] \in Commands
  BY AppendProperties, LenProperties, ElementOfSeq DEF TypeOK

\* What the queue holds after its head is taken.
LEMMA TailOfQueue ==
  ASSUME TypeOK, queue # <<>>, queue' = Tail(queue)
  PROVE  /\ Len(queue) \in Nat \ {0} /\ Len(queue') = Len(queue) - 1
         /\ Head(queue) = queue[1] /\ Head(queue) \in Commands
         /\ \A i \in 1 .. Len(queue') : queue'[i] = queue[i + 1]
         /\ \A i \in 1 .. Len(queue) : queue[i] \in Commands
  <1>1. queue \in Seq(Commands)
    BY DEF TypeOK
  <1>2. Len(queue) \in Nat /\ Len(queue) # 0 /\ Head(queue) = queue[1]
    BY <1>1, LenProperties, EmptySeq, HeadTailProperties
  <1>3. /\ Len(queue') = Len(queue) - 1 /\ Head(queue) \in Commands
        /\ \A i \in 1 .. Len(queue') : queue'[i] = queue[i + 1]
    BY <1>1, HeadTailProperties
  <1>4. \A i \in 1 .. Len(queue) : queue[i] \in Commands
    BY <1>1, ElementOfSeq
  <1> QED
    BY <1>2, <1>3, <1>4

\* Whoever is not blocked has no command with the channel or the worker.
LEMMA IdleHoldNothing ==
  ASSUME TypeOK, Custody, NEW t \in Threads, pc[t] # "receiving" \/ reply[t] # Empty
  PROVE  /\ \A i \in 1 .. Len(queue) : IsCall(queue[i]) => queue[i].thread # t
         /\ serving # None => serving.thread # t
  BY DEF Custody, QueuedAreOpen, ServedIsOpen, Open

\* Every step that sends a command, or that only moves handles, keeps custody.
LEMMA CustodyByThreads ==
  ASSUME TypeOK, Custody,
         \/ \E t \in Threads : Request(t) \/ Receive(t) \/ ClientClose(t)
         \/ \E t \in Threads, o \in Owners : Share(t, o)
         \/ \E o \in Owners : DropHandle(o)
  PROVE  Custody'
  <1>1. ASSUME NEW t \in Threads, Request(t), Connected PROVE Custody'
    <2> DEFINE c == Cmd(t, calls[t] + 1)
    <2>1. c \in Commands /\ c # Shutdown /\ IsCall(c) /\ c.thread = t
          /\ c.call = calls[t] + 1
      BY <1>1, ClientAssumption DEF Request, TypeOK, Commands, Cmd, Shutdown, IsCall
    <2>2. queue' = Append(queue, c)
      BY <1>1 DEF Request
    <2>3. /\ Len(queue) \in Nat /\ Len(queue') = Len(queue) + 1
          /\ queue'[Len(queue) + 1] = c
          /\ \A i \in 1 .. Len(queue) : queue'[i] = queue[i] /\ queue[i] \in Commands
      BY <2>1, <2>2, AppendToQueue
    <2>4. /\ \A i \in 1 .. Len(queue) : IsCall(queue[i]) => queue[i].thread # t
          /\ serving # None => serving.thread # t
      BY <1>1, IdleHoldNothing DEF Request
    <2>5. /\ pc' = [pc EXCEPT ![t] = "receiving"]
          /\ calls' = [calls EXCEPT ![t] = @ + 1]
          /\ reply' = [reply EXCEPT ![t] = Empty]
          /\ t \in handles /\ UNCHANGED <<handles, serving, worker>>
      BY <1>1 DEF Request
    <2>6. \A d \in Commands : IsCall(d) => d.thread \in Threads
      BY CommandShape
    <2> HIDE DEF c
    <2>7. QueuedAreOpen'
      <3> SUFFICES ASSUME NEW i \in 1 .. Len(queue'), IsCall(queue'[i])
                   PROVE  /\ pc'[queue'[i].thread] = "receiving"
                          /\ reply'[queue'[i].thread] = Empty
                          /\ queue'[i].call = calls'[queue'[i].thread]
        BY DEF QueuedAreOpen, Open, IsCall
      <3>1. CASE i = Len(queue) + 1
        BY <3>1, <2>1, <2>3, <2>5 DEF TypeOK
      <3>2. CASE i # Len(queue) + 1
        <4>1. i \in 1 .. Len(queue)
          BY <3>2, <2>3
        <4>2. Open(queue[i]) /\ queue'[i] = queue[i] /\ queue[i].thread # t
              /\ queue[i].thread \in Threads
          BY <4>1, <2>3, <2>4, <2>6 DEF Custody, QueuedAreOpen
        <4> QED
          BY <4>2, <2>5 DEF Open, TypeOK
      <3> QED
        BY <3>1, <3>2
    <2>8. ServedIsOpen'
      BY <2>4, <2>5, <2>6 DEF Custody, ServedIsOpen, Open, TypeOK
    <2>9. OnePerThread'
      BY <2>1, <2>3, <2>4, <2>5 DEF Custody, OnePerThread
    <2>10. OpenAreHeld'
      <3> SUFFICES ASSUME NEW u \in Threads, pc'[u] = "receiving", reply'[u] = Empty,
                          ~(serving # None /\ serving.thread = u)
                   PROVE  \E i \in 1 .. Len(queue') :
                            IsCall(queue'[i]) /\ queue'[i].thread = u
        BY <2>5 DEF OpenAreHeld, IsCall
      <3>1. CASE u = t
        <4>1. Len(queue) + 1 \in 1 .. Len(queue')
          BY <2>3
        <4> QED
          BY <4>1, <3>1, <2>1, <2>3
      <3>2. CASE u # t
        <4>1. PICK i \in 1 .. Len(queue) : IsCall(queue[i]) /\ queue[i].thread = u
          BY <3>2, <2>5 DEF Custody, OpenAreHeld, TypeOK
        <4>2. i \in 1 .. Len(queue') /\ queue'[i] = queue[i]
          BY <2>3
        <4> QED
          BY <4>1, <4>2
      <3> QED
        BY <3>1, <3>2
    <2>11. ReplyIsCurrent' /\ BlockedOwn'
      BY <2>5, ReplyShape DEF Custody, ReplyIsCurrent, BlockedOwn, TypeOK
    <2>12. ShutdownIsLast'
      BY <2>1, <2>3, <2>5 DEF Custody, ShutdownIsLast
    <2> QED
      BY <2>7, <2>8, <2>9, <2>10, <2>11, <2>12 DEF Custody
  <1>2. ASSUME NEW t \in Threads, Request(t), ~Connected PROVE Custody'
    <2>1. /\ pc' = [pc EXCEPT ![t] = "idle"] /\ pc[t] = "idle"
          /\ calls' = [calls EXCEPT ![t] = @ + 1]
          /\ UNCHANGED <<handles, queue, reply, serving, worker>>
      BY <1>2 DEF Request, Returns
    <2>2. pc' = pc
      BY <2>1 DEF TypeOK
    <2>3. \A u \in Threads : u # t => calls'[u] = calls[u]
      BY <2>1 DEF TypeOK
    <2>4. \A cmd : Open(cmd) => cmd.thread # t
      BY <2>1 DEF Open
    <2>5. \A cmd : Open(cmd) /\ cmd.thread \in Threads => Open(cmd)'
      BY <2>1, <2>2, <2>3, <2>4 DEF Open
    <2>6. QueuedAreOpen' /\ ServedIsOpen'
      BY <2>1, <2>5 DEF Custody, QueuedAreOpen, ServedIsOpen, IsCall, Open
    <2>7. ReplyIsCurrent'
      BY <2>1, <2>2, <2>3 DEF Custody, ReplyIsCurrent
    <2> QED
      BY <2>1, <2>2, <2>6, <2>7
         DEF Custody, OnePerThread, OpenAreHeld, BlockedOwn, ShutdownIsLast
  <1>3. ASSUME NEW t \in Threads, Receive(t) PROVE Custody'
    <2>1. /\ pc' = [pc EXCEPT ![t] = "idle"] /\ reply[t] # Empty
          /\ UNCHANGED <<handles, calls, queue, reply, serving, worker>>
      BY <1>3 DEF Receive, Returns
    <2>2. QueuedAreOpen' /\ ServedIsOpen'
      BY <2>1 DEF Custody, QueuedAreOpen, ServedIsOpen, Open, TypeOK
    <2>3. OpenAreHeld' /\ ReplyIsCurrent' /\ BlockedOwn'
      BY <2>1 DEF Custody, OpenAreHeld, ReplyIsCurrent, BlockedOwn, TypeOK
    <2> QED
      BY <2>1, <2>2, <2>3 DEF Custody, OnePerThread, ShutdownIsLast
  <1>4. ASSUME NEW t \in Threads, Close(t) PROVE Custody'
    <2>1. \A u \in Threads : pc[u] # "receiving"
      BY <1>4 DEF Close, Custody, BlockedOwn
    <2>2. /\ handles' = {} /\ UNCHANGED <<pc, calls, reply, serving, worker>>
      BY <1>4 DEF Close, user
    <2>3. \A i \in 1 .. Len(queue') : ~IsCall(queue'[i])
      <3>1. \A i \in 1 .. Len(queue) : ~IsCall(queue[i])
        <4>1. \A i \in 1 .. Len(queue) : queue[i] \in Commands
          BY ElementOfSeq DEF TypeOK
        <4> QED
          BY <2>1, <4>1, CommandShape DEF Custody, QueuedAreOpen, Open
      <3>2. Shutdown \in Commands /\ ~IsCall(Shutdown)
        BY DEF Commands, Shutdown, IsCall
      <3>3. CASE queue' = Append(queue, Shutdown)
        BY <3>1, <3>2, <3>3, AppendToQueue
      <3> QED
        BY <1>4, <3>1, <3>3 DEF Close
    <2>4. ServedIsOpen'
      BY <2>2 DEF Custody, ServedIsOpen, Open
    <2> QED
      BY <2>1, <2>2, <2>3, <2>4
         DEF Custody, QueuedAreOpen, OnePerThread, OpenAreHeld, ReplyIsCurrent,
             BlockedOwn, ShutdownIsLast
  <1>5. ASSUME NEW o \in Owners, o \in Threads => pc[o] = "idle",
               handles' = handles \ {o},
               UNCHANGED <<user, reply, queue, worker, serving>>
        PROVE  Custody'
    BY <1>5
       DEF Custody, QueuedAreOpen, ServedIsOpen, OnePerThread, OpenAreHeld,
           ReplyIsCurrent, BlockedOwn, ShutdownIsLast, Open, user
  <1>6. ASSUME NEW t \in Threads, NEW o \in Owners, Share(t, o) PROVE Custody'
    BY <1>6
       DEF Share, Custody, QueuedAreOpen, ServedIsOpen, OnePerThread, OpenAreHeld,
           ReplyIsCurrent, BlockedOwn, ShutdownIsLast, Open, user
  <1> QED
    BY <1>1, <1>2, <1>3, <1>4, <1>5, <1>6 DEF ClientClose, DropHandle, Owners

\* Every step of the worker keeps custody.
LEMMA CustodyByWorker ==
  ASSUME TypeOK, Custody,
         Take \/ Finish \/ Finalize \/ Disconnect \/ Panic \/ Unwind
  PROVE  Custody'
  <1>1. CASE Take
    <2>1. /\ Len(queue) \in Nat \ {0} /\ Len(queue') = Len(queue) - 1
          /\ Head(queue) = queue[1] /\ Head(queue) \in Commands
          /\ \A i \in 1 .. Len(queue') : queue'[i] = queue[i + 1]
          /\ \A i \in 1 .. Len(queue) : queue[i] \in Commands
      BY <1>1, TailOfQueue DEF Take
    <2>2. serving = None /\ UNCHANGED <<handles, pc, calls, reply>>
          /\ worker # "closing" /\ 1 \in 1 .. Len(queue)
          /\ \A i \in 1 .. Len(queue') : i + 1 \in 1 .. Len(queue)
      BY <1>1, <2>1 DEF Take, TypeOK, user
    <2>3. QueuedAreOpen'
      BY <2>1, <2>2 DEF Custody, QueuedAreOpen, Open
    <2>4. CASE Head(queue) = Shutdown
      <3>1. worker' = "closing" /\ serving' = None /\ handles = {}
        BY <1>1, <2>1, <2>2, <2>4 DEF Take, Custody, ShutdownIsLast
      <3>2. \A t \in Threads : pc[t] # "receiving"
        BY <3>1 DEF Custody, BlockedOwn
      <3>3. \A i \in 1 .. Len(queue) : ~IsCall(queue[i])
        BY <3>2, <2>1, CommandShape DEF Custody, QueuedAreOpen, Open
      <3>4. \A i \in 1 .. Len(queue') : ~IsCall(queue'[i])
        BY <3>3, <2>1, <2>2
      <3> QED
        BY <2>2, <2>3, <3>1, <3>2, <3>4
           DEF Custody, ServedIsOpen, OnePerThread, OpenAreHeld, ReplyIsCurrent,
               BlockedOwn, ShutdownIsLast
    <2>5. CASE Head(queue) # Shutdown
      <3>1. worker' = "busy" /\ serving' = queue[1] /\ IsCall(queue[1])
            /\ queue[1] # None
        BY <1>1, <2>1, <2>5, CommandShape DEF Take
      <3>2. ServedIsOpen'
        BY <2>2, <3>1 DEF Custody, QueuedAreOpen, ServedIsOpen, Open
      <3>3. OnePerThread'
        BY SMTT(30), <2>1, <2>2, <3>1 DEF Custody, OnePerThread
      <3>4. OpenAreHeld'
        <4> SUFFICES ASSUME NEW t \in Threads, pc'[t] = "receiving", reply'[t] = Empty,
                            serving'.thread # t
                     PROVE  \E i \in 1 .. Len(queue') :
                              IsCall(queue'[i]) /\ queue'[i].thread = t
          BY <3>1 DEF OpenAreHeld, IsCall
        <4>1. PICK i \in 1 .. Len(queue) : IsCall(queue[i]) /\ queue[i].thread = t
          BY <2>2 DEF Custody, OpenAreHeld
        <4>2. i # 1 /\ i - 1 \in 1 .. Len(queue') /\ (i - 1) + 1 = i
          BY <4>1, <3>1, <2>1
        <4> QED
          BY <4>1, <4>2, <2>1
      <3>5. ReplyIsCurrent' /\ BlockedOwn'
        BY <2>2 DEF Custody, ReplyIsCurrent, BlockedOwn
      <3>6. ShutdownIsLast'
        BY <2>1, <2>2, <3>1 DEF Custody, ShutdownIsLast
      <3> QED
        BY <2>3, <3>2, <3>3, <3>4, <3>5, <3>6 DEF Custody
    <2> QED
      BY <2>4, <2>5
  <1>2. CASE Finish
    <2>1. PICK kind \in {"ok", "error"} :
            reply' = [reply EXCEPT ![serving.thread] =
                        [kind |-> kind, call |-> serving.call]]
      BY <1>2 DEF Finish
    <2>2. /\ serving # None /\ serving' = None /\ worker' = "waiting"
          /\ UNCHANGED <<handles, pc, calls, queue>>
          /\ serving.thread \in Threads /\ serving.call = calls[serving.thread]
      BY <1>2, CommandShape DEF Finish, TypeOK, user, Custody, ServedIsOpen, Open
    <2>3. \A i \in 1 .. Len(queue) : IsCall(queue[i]) =>
            queue[i].thread # serving.thread /\ queue[i].thread \in Threads
      BY <2>2, ElementOfSeq, CommandShape DEF Custody, OnePerThread, TypeOK
    <2>4. QueuedAreOpen'
      BY <2>1, <2>2, <2>3 DEF Custody, QueuedAreOpen, Open, TypeOK
    <2>5. OpenAreHeld'
      <3>1. [kind |-> kind, call |-> serving.call] # Empty
        BY <2>1 DEF Empty
      <3>2. reply'[serving.thread] # Empty
            /\ \A t \in Threads : t # serving.thread => reply'[t] = reply[t]
        BY <3>1, <2>1, <2>2 DEF TypeOK
      <3> QED
        BY <2>2, <3>2 DEF Custody, OpenAreHeld
    <2>6. ReplyIsCurrent'
      BY <2>1, <2>2 DEF Custody, ReplyIsCurrent, TypeOK
    <2> QED
      BY <2>2, <2>4, <2>5, <2>6
         DEF Custody, ServedIsOpen, OnePerThread, BlockedOwn, ShutdownIsLast
  <1>3. ASSUME NEW how, serving = None, ExitWorker(how), UNCHANGED <<handles, user>>
        PROVE  Custody'
    <2>1. /\ queue' = <<>> /\ serving' = None /\ worker' = "exited"
          /\ UNCHANGED <<handles, pc, calls>>
          /\ 1 .. Len(queue') = {}
      BY <1>3 DEF ExitWorker, user
    <2>2. \A t \in Threads : reply'[t] \in {reply[t], Dropped}
      BY <1>3 DEF ExitWorker, DropSenders
    <2>3. OpenAreHeld'
      <3> SUFFICES ASSUME NEW t \in Threads, pc[t] = "receiving"
                   PROVE  reply'[t] # Empty
        BY <2>1 DEF OpenAreHeld
      <3>1. CASE reply[t] = Empty
        <4>1. PICK i \in 1 .. Len(queue) : IsCall(queue[i]) /\ queue[i].thread = t
          BY <3>1, <1>3 DEF Custody, OpenAreHeld
        <4>2. queue[i] \in Range(queue)
          BY <4>1 DEF Range, TypeOK
        <4> QED
          BY <4>1, <4>2, <1>3, ReplyShape DEF ExitWorker, DropSenders, IsCall
      <3> QED
        BY <3>1, <2>2, ReplyShape
    <2>4. ReplyIsCurrent'
      BY <2>1, <2>2, ReplyShape DEF Custody, ReplyIsCurrent
    <2> QED
      BY <2>1, <2>3, <2>4
         DEF Custody, QueuedAreOpen, ServedIsOpen, OnePerThread, BlockedOwn,
             ShutdownIsLast
  <1>4. CASE Panic
    <2>1. /\ serving # None /\ serving' = None /\ worker' = "unwinding"
          /\ UNCHANGED <<handles, pc, calls, queue>> /\ IsCall(serving)
      BY <1>4 DEF Panic, TypeOK, user, Custody, ServedIsOpen
    <2>2. reply' = [t \in Threads |->
                      IF serving.thread = t THEN Dropped ELSE reply[t]]
      BY <1>4, <2>1 DEF Panic, DropSenders, IsCall
    <2>3. \A i \in 1 .. Len(queue) : IsCall(queue[i]) =>
            queue[i].thread # serving.thread /\ queue[i].thread \in Threads
      BY <2>1, ElementOfSeq, CommandShape DEF Custody, OnePerThread, TypeOK
    <2>4. QueuedAreOpen'
      BY <2>1, <2>2, <2>3 DEF Custody, QueuedAreOpen, Open
    <2>5. OpenAreHeld' /\ ReplyIsCurrent'
      BY <2>1, <2>2, ReplyShape DEF Custody, OpenAreHeld, ReplyIsCurrent
    <2> QED
      BY <2>1, <2>4, <2>5
         DEF Custody, ServedIsOpen, OnePerThread, BlockedOwn, ShutdownIsLast
  <1>5. Finalize \/ Disconnect \/ Unwind => serving = None
    BY DEF Finalize, Disconnect, Unwind, TypeOK
  <1> QED
    BY <1>1, <1>2, <1>3, <1>4, <1>5 DEF Finalize, Disconnect, Unwind

\* A call that returns appends its own result.
LEMMA OwnRepliesStep ==
  ASSUME TypeOK, Custody, OwnReplies, [Next]_vars
  PROVE  OwnReplies'
  <1>1. ASSUME NEW t \in Threads, NEW r \in Result \cup {Dropped}, Returns(t, r),
               calls' \in [Threads -> Nat],
               \A u \in Threads \ {t} : calls'[u] = calls[u],
               calls'[t] = Len(returned[t]) + 1, r.call \in {0, calls'[t]}
        PROVE  OwnReplies'
    <2>1. /\ pc' = [pc EXCEPT ![t] = "idle"]
          /\ returned' = [returned EXCEPT ![t] = Append(@, r)]
      BY <1>1 DEF Returns
    <2>2. \A u \in Threads \ {t} : pc'[u] = pc[u] /\ returned'[u] = returned[u]
      BY <2>1 DEF TypeOK
    <2>3. /\ pc'[t] = "idle" /\ returned'[t] = Append(returned[t], r)
          /\ returned[t] \in Seq(Result \cup {Dropped})
      BY <2>1 DEF TypeOK
    <2>4. /\ Len(returned[t]) \in Nat /\ Len(returned'[t]) = Len(returned[t]) + 1
          /\ DOMAIN returned[t] = 1 .. Len(returned[t])
          /\ DOMAIN returned'[t] = 1 .. Len(returned'[t])
          /\ returned'[t][Len(returned[t]) + 1] = r
          /\ \A i \in 1 .. Len(returned[t]) : returned'[t][i] = returned[t][i]
      BY <2>3, AppendProperties, LenProperties
    <2>5. \A i \in DOMAIN returned'[t] : returned'[t][i].call \in {0, i}
      BY <2>4, <1>1 DEF OwnReplies
    <2> QED
      <3> SUFFICES ASSUME NEW u \in Threads
                   PROVE  /\ Len(returned'[u]) =
                               calls'[u] - (IF pc'[u] = "receiving" THEN 1 ELSE 0)
                          /\ \A i \in DOMAIN returned'[u] : returned'[u][i].call \in {0, i}
        BY DEF OwnReplies
      <3>1. CASE u = t
        BY <3>1, <1>1, <2>3, <2>4, <2>5
      <3>2. CASE u # t
        BY <3>2, <1>1, <2>2 DEF OwnReplies
      <3> QED
        BY <3>1, <3>2
  <1>2. \A t \in Threads : calls[t] \in Nat
    BY ClientAssumption DEF TypeOK
  <1>3. ASSUME NEW t \in Threads, Request(t), Connected PROVE OwnReplies'
    <2>1. /\ pc' = [pc EXCEPT ![t] = "receiving"] /\ pc[t] = "idle"
          /\ calls' = [calls EXCEPT ![t] = @ + 1] /\ UNCHANGED returned
      BY <1>3 DEF Request
    <2>2. /\ pc'[t] = "receiving" /\ calls'[t] = calls[t] + 1
          /\ \A u \in Threads \ {t} : pc'[u] = pc[u] /\ calls'[u] = calls[u]
      BY <2>1 DEF TypeOK
    <2>3. Len(returned[t]) = calls[t] + 1 - 1
      BY <2>1, <1>2 DEF OwnReplies
    <2> QED
      <3> SUFFICES ASSUME NEW u \in Threads
                   PROVE  /\ Len(returned'[u]) =
                               calls'[u] - (IF pc'[u] = "receiving" THEN 1 ELSE 0)
                          /\ \A i \in DOMAIN returned'[u] : returned'[u][i].call \in {0, i}
        BY DEF OwnReplies
      <3>1. CASE u = t
        <4>1. Len(returned'[u]) = calls'[u] - 1 /\ pc'[u] = "receiving"
          BY <3>1, <1>2, <2>1, <2>2, <2>3
        <4>2. \A i \in DOMAIN returned[u] : returned[u][i].call \in {0, i}
          BY DEF OwnReplies
        <4> QED
          BY <4>1, <4>2, <2>1
      <3>2. CASE u # t
        BY <3>2, <2>1, <2>2 DEF OwnReplies
      <3> QED
        BY <3>1, <3>2
  <1>4. ASSUME NEW t \in Threads, Request(t), ~Connected PROVE OwnReplies'
    <2>1. /\ Returns(t, Dropped) /\ pc[t] = "idle"
          /\ calls' = [calls EXCEPT ![t] = @ + 1]
      BY <1>4 DEF Request
    <2>2. /\ calls'[t] = calls[t] + 1 /\ calls' \in [Threads -> Nat]
          /\ \A u \in Threads \ {t} : calls'[u] = calls[u]
      BY <2>1, <1>2 DEF TypeOK
    <2>3. Len(returned[t]) = calls[t]
      BY <2>1, <1>2 DEF OwnReplies
    <2> QED
      BY <1>1, <2>1, <2>2, <2>3, ReplyShape
  <1>5. ASSUME NEW t \in Threads, Receive(t) PROVE OwnReplies'
    <2>1. /\ pc[t] = "receiving" /\ reply[t] \in Result \cup {Dropped}
          /\ Returns(t, reply[t]) /\ calls' = calls
      BY <1>5 DEF Receive, TypeOK
    <2>2. calls[t] = Len(returned[t]) + 1 /\ calls \in [Threads -> Nat]
      <3>1. Len(returned[t]) = calls[t] - 1
        BY <2>1 DEF OwnReplies
      <3> QED
        BY <3>1, <1>2 DEF TypeOK
    <2>3. reply[t].call \in {0, calls[t]}
      BY <2>1 DEF Custody, ReplyIsCurrent
    <2> QED
      BY <1>1, <2>1, <2>2, <2>3
  <1>6. CASE UNCHANGED user
    BY <1>6 DEF OwnReplies, user
  <1> QED
    BY <1>3, <1>4, <1>5, <1>6
       DEF Next, ClientClose, Close, Share, DropHandle, Take, Finish, Finalize,
           Disconnect, Panic, Unwind, vars

\* The invariant holds at the start, and every step keeps it.
LEMMA ClientInit == Init => ClientInv
  <1> SUFFICES ASSUME Init PROVE ClientInv
    OBVIOUS
  <1>1. /\ Len(queue) = 0 /\ serving = None /\ worker = "waiting"
        /\ \A t \in Threads : pc[t] = "idle" /\ calls[t] = 0 /\ returned[t] = <<>>
    BY DEF Init
  <1>2. OwnReplies
    BY <1>1 DEF OwnReplies
  <1> QED
    BY <1>1, <1>2, TypeInit
       DEF ClientInv, QueuedAreOpen, ServedIsOpen, OnePerThread, OpenAreHeld,
           ReplyIsCurrent, BlockedOwn, ShutdownIsLast

\* Every step keeps the invariant: types and replies on their own, custody of
\* the commands by the steps of threads and of the worker.
LEMMA ClientStep == ClientInv /\ [Next]_vars => ClientInv'
  <1> SUFFICES ASSUME ClientInv, [Next]_vars PROVE ClientInv'
    OBVIOUS
  <1>1. TypeOK /\ Custody /\ OwnReplies
    BY DEF ClientInv, Custody
  <1>2. TypeOK' /\ OwnReplies'
    BY <1>1, TypeStep, OwnRepliesStep
  <1>3. Custody'
    <2>1. CASE Next
      BY <1>1, <2>1, CustodyByThreads, CustodyByWorker DEF Next
    <2>2. CASE UNCHANGED vars
      BY <1>1, <2>2
         DEF Custody, QueuedAreOpen, ServedIsOpen, OnePerThread, OpenAreHeld,
             ReplyIsCurrent, BlockedOwn, ShutdownIsLast, Open, vars, user
    <2> QED
      BY <2>1, <2>2
  <1> QED
    BY <1>2, <1>3 DEF ClientInv, Custody

\* The inductive invariant holds always: a command is in the custody of the
\* channel or of the worker until its thread has its reply.
THEOREM ClientInvariant == Spec => []ClientInv
  BY ClientInit, ClientStep, PTL DEF Spec

-----------------------------------------------------------------------------
(* The properties of TransportClient.                                      *)

\* TypeOK: every variable keeps its type, and the worker serves a command
\* exactly while it is busy.
THEOREM TypeCorrect == Spec => []TypeOK
  <1>1. ClientInv => TypeOK
    BY DEF ClientInv
  <1> QED
    BY <1>1, ClientInvariant, PTL

\* NoOrphan: exactly one command, of its present call, stands for each thread
\* that is blocked without a reply, and none for any other thread.
THEOREM NobodyIsOrphaned == Spec => []NoOrphan
  <1>1. ClientInv => NoOrphan
    <2> SUFFICES ASSUME ClientInv, NEW t \in Threads
                 PROVE  /\ pc[t] = "receiving" /\ reply[t] = Empty =>
                             /\ Cardinality(Held(t)) = 1
                             /\ \A i \in Held(t) :
                                  (IF i = 0 THEN serving ELSE queue[i]).call = calls[t]
                        /\ pc[t] = "idle" \/ reply[t] # Empty => Held(t) = {}
      BY DEF NoOrphan
    <2>1. TypeOK /\ Custody /\ DOMAIN queue = 1 .. Len(queue) /\ 0 \notin DOMAIN queue
      <3>1. TypeOK /\ Custody /\ queue \in Seq(Commands)
        BY DEF ClientInv, Custody, TypeOK
      <3> QED
        BY <3>1, LenProperties
    <2>2. ASSUME pc[t] = "receiving", reply[t] = Empty
          PROVE  \E i : Held(t) = {i} /\ (i = 0 => serving # None)
      <3>1. CASE serving # None /\ serving.thread = t
        <4>1. Held(t) = {0}
          BY <3>1, <2>1 DEF Held, Custody, OnePerThread, IsCall
        <4> QED
          BY <4>1, <3>1
      <3>2. CASE ~(serving # None /\ serving.thread = t)
        <4>1. PICK i \in 1 .. Len(queue) : IsCall(queue[i]) /\ queue[i].thread = t
          BY <3>2, <2>1, <2>2 DEF Custody, OpenAreHeld
        <4>2. Held(t) = {i}
          BY <4>1, <3>2, <2>1 DEF Held, Custody, OnePerThread, IsCall
        <4> QED
          BY <4>1, <4>2
      <3> QED
        BY <3>1, <3>2
    <2>3. ASSUME NEW i \in Held(t)
          PROVE  /\ (IF i = 0 THEN serving ELSE queue[i]).call = calls[t]
                 /\ pc[t] = "receiving" /\ reply[t] = Empty
      <3>1. CASE i = 0
        BY <3>1, <2>1, <2>3 DEF Held, Custody, ServedIsOpen, Open
      <3>2. CASE i # 0
        BY <3>2, <2>1, <2>3 DEF Held, Custody, QueuedAreOpen, Open, IsCall
      <3> QED
        BY <3>1, <3>2
    <2>4. pc[t] = "receiving" /\ reply[t] = Empty => Cardinality(Held(t)) = 1
      BY <2>2, FS_Singleton
    <2>5. pc[t] = "idle" \/ reply[t] # Empty => Held(t) = {}
      BY <2>3
    <2> QED
      BY <2>3, <2>4, <2>5
  <1> QED
    BY <1>1, ClientInvariant, PTL

\* OwnReplies: the n-th call of a thread returns the result of the n-th
\* command it sent, or that the connection is closed.
THEOREM RepliesAreOwn == Spec => []OwnReplies
  <1>1. ClientInv => OwnReplies
    BY DEF ClientInv
  <1> QED
    BY <1>1, ClientInvariant, PTL

\* EndsLoseNothing: the worker ends without a panic only when no thread has a
\* call under way.
THEOREM OnlyPanicsLoseCalls == Spec => EndsLoseNothing
  <1>1. ClientInv /\ [Next]_vars =>
          [~Exited /\ Exited' /\ worker # "unwinding"
             => \A t \in Threads : pc[t] = "idle"]_vars
    <2> SUFFICES ASSUME ClientInv, Next, ~Exited, Exited', worker # "unwinding"
                 PROVE  \A t \in Threads : pc[t] = "idle"
      OBVIOUS
    <2>1. Finalize \/ Disconnect
      BY DEF Next, Exited, Request, Receive, ClientClose, Close, Share, DropHandle,
             Take, Finish, Panic, Unwind
    <2>2. handles = {}
      BY <2>1 DEF Finalize, Disconnect, ClientInv, ShutdownIsLast
    <2> QED
      BY <2>2 DEF ClientInv, BlockedOwn, TypeOK
  <1> QED
    BY <1>1, ClientInvariant, PTL DEF Spec, EndsLoseNothing

-----------------------------------------------------------------------------
(* The refinement: the client does only what RequestService allows.        *)

\* The four answers of Progress, without the CASE.
LEMMA ProgressIs ==
  ASSUME TypeOK, NEW t \in Threads
  PROVE  /\ pc[t] = "idle" => Progress[t] = "idle"
         /\ pc[t] = "receiving" /\ reply[t] = Empty => Progress[t] = "pending"
         /\ pc[t] = "receiving" /\ reply[t].kind = "ok" => Progress[t] = "answered"
         /\ pc[t] = "receiving" /\ reply[t].kind \in {"error", "closed"}
              => Progress[t] = "failed"
  <1>1. /\ pc[t] \in {"idle", "receiving"}
        /\ reply[t] = Empty \/ reply[t].kind \in {"ok", "error", "closed"}
        /\ Empty.kind = "empty"
    BY DEF TypeOK, Result, Dropped, Empty
  <1> QED
    BY <1>1 DEF Progress, CallOf

\* The same lemma of the next state.
LEMMA ProgressNext ==
  ASSUME TypeOK', NEW t \in Threads
  PROVE  /\ pc'[t] = "idle" => Progress'[t] = "idle"
         /\ pc'[t] = "receiving" /\ reply'[t] = Empty => Progress'[t] = "pending"
         /\ pc'[t] = "receiving" /\ reply'[t].kind = "ok" => Progress'[t] = "answered"
         /\ pc'[t] = "receiving" /\ reply'[t].kind \in {"error", "closed"}
              => Progress'[t] = "failed"
  <1>1. /\ pc'[t] \in {"idle", "receiving"}
        /\ reply'[t] = Empty \/ reply'[t].kind \in {"ok", "error", "closed"}
        /\ Empty.kind = "empty"
    BY DEF TypeOK, Result, Dropped, Empty
  <1> QED
    BY <1>1 DEF Progress, CallOf

\* Threads whose control and channel stay where they are make no progress, ...
LEMMA ProgressStays ==
  ASSUME NEW t \in Threads, pc'[t] = pc[t], reply'[t] = reply[t]
  PROVE  Progress'[t] = Progress[t]
  BY DEF Progress

\* ... and a step that moves one thread is a step of that thread.
LEMMA ProgressMoves ==
  ASSUME NEW t \in Threads, NEW to, Progress'[t] = to,
         \A u \in Threads \ {t} : pc'[u] = pc[u] /\ reply'[u] = reply[u]
  PROVE  Progress' = [Progress EXCEPT ![t] = to]
  <1>1. \A u \in Threads \ {t} : Progress'[u] = Progress[u]
    BY ProgressStays
  <1>2. Progress = [u \in Threads |-> Progress[u]]
        /\ Progress' = [u \in Threads |-> Progress'[u]]
    BY DEF Progress
  <1> QED
    BY <1>1, <1>2

\* At the start no thread has a call under way.
LEMMA ServiceInit == Init => Service!Init
  <1> SUFFICES ASSUME Init PROVE Service!Init
    OBVIOUS
  <1>1. \A t \in Threads : Progress[t] = "idle"
    BY TypeInit, ProgressIs DEF Init
  <1>2. Progress = [t \in Threads |-> Progress[t]]
    BY DEF Progress
  <1> QED
    BY <1>1, <1>2 DEF Init, Service!Init, Connected

\* Every step is one of the service, or none.
LEMMA ServiceStep ==
  ClientInv /\ [Next]_vars => [Service!Next]_<<Progress, Connected>>
  <1> SUFFICES ASSUME ClientInv, [Next]_vars
               PROVE  Service!Next \/ UNCHANGED <<Progress, Connected>>
    OBVIOUS
  <1>0. TypeOK /\ TypeOK' /\ Custody
    BY TypeStep DEF ClientInv, Custody
  <1>1. ASSUME NEW t \in Threads, Request(t), Connected PROVE Service!Call(t)
    <2>1. /\ pc[t] = "idle" /\ pc' = [pc EXCEPT ![t] = "receiving"]
          /\ reply' = [reply EXCEPT ![t] = Empty] /\ UNCHANGED worker
      BY <1>1 DEF Request
    <2>2. /\ pc'[t] = "receiving" /\ reply'[t] = Empty
          /\ \A u \in Threads \ {t} : pc'[u] = pc[u] /\ reply'[u] = reply[u]
      BY <2>1, <1>0 DEF TypeOK
    <2>3. Progress[t] = "idle" /\ Progress' = [Progress EXCEPT ![t] = "pending"]
      BY <1>0, <2>1, <2>2, ProgressIs, ProgressNext, ProgressMoves
    <2> QED
      BY <1>1, <2>1, <2>3 DEF Service!Call, Service!Move, Connected
  <1>2. ASSUME NEW t \in Threads, Request(t), ~Connected PROVE Service!Reject(t)
    <2>1. /\ pc[t] = "idle" /\ pc' = [pc EXCEPT ![t] = "idle"]
          /\ UNCHANGED <<reply, worker>>
      BY <1>2 DEF Request, Returns
    <2>2. pc' = pc
      BY <2>1, <1>0 DEF TypeOK
    <2>3. Progress' = Progress /\ Progress[t] = "idle"
      BY <1>0, <2>1, <2>2, ProgressIs DEF Progress
    <2> QED
      BY <1>2, <2>1, <2>3 DEF Service!Reject, Connected
  <1>3. ASSUME NEW t \in Threads, Receive(t) PROVE Service!Return(t)
    <2>1. /\ pc[t] = "receiving" /\ pc' = [pc EXCEPT ![t] = "idle"]
          /\ reply[t] # Empty /\ UNCHANGED <<reply, worker>>
      BY <1>3 DEF Receive, Returns
    <2>2. /\ pc'[t] = "idle"
          /\ \A u \in Threads \ {t} : pc'[u] = pc[u] /\ reply'[u] = reply[u]
      BY <2>1, <1>0 DEF TypeOK
    <2>3. reply[t].kind \in {"ok", "error", "closed"}
      BY <2>1, <1>0 DEF TypeOK, Result, Dropped
    <2>4. Progress[t] \in {"answered", "failed"}
      BY <1>0, <2>1, <2>3, ProgressIs
    <2>5. Progress' = [Progress EXCEPT ![t] = "idle"]
      BY <1>0, <2>2, ProgressNext, ProgressMoves
    <2> QED
      BY <2>1, <2>4, <2>5 DEF Service!Return, Service!Move, Connected
  <1>4. ASSUME UNCHANGED <<pc, reply>>, Connected, Connected'
        PROVE  UNCHANGED <<Progress, Connected>>
    BY <1>4 DEF Progress
  <1>5. CASE Finish
    <2>1. PICK kind \in {"ok", "error"} :
            reply' = [reply EXCEPT ![serving.thread] =
                        [kind |-> kind, call |-> serving.call]]
      BY <1>5 DEF Finish
    <2>2. /\ serving.thread \in Threads /\ pc[serving.thread] = "receiving"
          /\ reply[serving.thread] = Empty /\ UNCHANGED pc
          /\ Connected /\ Connected'
      BY <1>0, <1>5, CommandShape
         DEF Finish, TypeOK, user, Custody, ServedIsOpen, Open, Connected
    <2>3. /\ pc'[serving.thread] = "receiving" /\ reply'[serving.thread].kind = kind
          /\ \A u \in Threads \ {serving.thread} :
                pc'[u] = pc[u] /\ reply'[u] = reply[u]
      BY <2>1, <2>2, <1>0 DEF TypeOK
    <2>4. PICK v \in {"answered", "failed"} : Progress'[serving.thread] = v
      BY <1>0, <2>2, <2>3, ProgressNext
    <2>5. /\ Progress[serving.thread] = "pending"
          /\ Progress' = [Progress EXCEPT ![serving.thread] = v]
      BY <1>0, <2>2, <2>3, <2>4, ProgressIs, ProgressMoves
    <2>6. Service!Serve(serving.thread, v)
      BY <2>2, <2>5 DEF Service!Serve, Service!Move
    <2> QED
      BY <2>2, <2>6 DEF Service!Next
  <1>6. CASE Panic
    <2>1. /\ serving # None /\ IsCall(serving) /\ UNCHANGED pc
          /\ serving.thread \in Threads /\ pc[serving.thread] = "receiving"
          /\ reply[serving.thread] = Empty /\ Connected /\ Connected'
      BY <1>0, <1>6, CommandShape
         DEF Panic, TypeOK, user, Custody, ServedIsOpen, Open, Connected
    <2>2. /\ reply'[serving.thread] = Dropped
          /\ \A u \in Threads \ {serving.thread} :
                pc'[u] = pc[u] /\ reply'[u] = reply[u]
      BY <1>6, <2>1 DEF Panic, DropSenders, IsCall
    <2>3. Dropped.kind = "closed" /\ pc'[serving.thread] = "receiving"
      BY <2>1 DEF Dropped
    <2>4. Progress'[serving.thread] = "failed"
      BY <1>0, <2>1, <2>2, <2>3, ProgressNext
    <2>5. /\ Progress[serving.thread] = "pending"
          /\ Progress' = [Progress EXCEPT ![serving.thread] = "failed"]
      BY <1>0, <2>1, <2>2, <2>4, ProgressIs, ProgressMoves
    <2>6. Service!Serve(serving.thread, "failed")
      BY <2>1, <2>5 DEF Service!Serve, Service!Move
    <2> QED
      BY <2>1, <2>6 DEF Service!Next
  <1>7. ASSUME NEW how, Connected, serving = None, ExitWorker(how), UNCHANGED user
        PROVE  Service!Stop
    <2>1. ~Connected' /\ pc' = pc
      BY <1>7 DEF ExitWorker, Connected, user
    <2>2. ASSUME NEW t \in Threads
          PROVE  Progress'[t] = IF Progress[t] = "pending" THEN "failed" ELSE Progress[t]
      <3>1. CASE pc[t] = "receiving" /\ reply[t] = Empty
        <4>1. PICK i \in 1 .. Len(queue) : IsCall(queue[i]) /\ queue[i].thread = t
          BY <1>0, <1>7, <3>1 DEF Custody, OpenAreHeld
        <4>2. queue[i] \in Range(queue)
          BY <1>0 DEF Range, TypeOK
        <4>3. reply'[t] = Dropped /\ Dropped.kind = "closed"
          BY <4>1, <4>2, <1>7 DEF ExitWorker, DropSenders, IsCall, Dropped
        <4> QED
          BY <1>0, <2>1, <3>1, <4>3, ProgressIs, ProgressNext
      <3>2. CASE ~(pc[t] = "receiving" /\ reply[t] = Empty)
        <4>1. ~\E c \in Range(queue) : c.kind = "Request" /\ c.thread = t
          <5>1. \A i \in 1 .. Len(queue) : IsCall(queue[i]) => queue[i].thread # t
            BY <1>0, <3>2, IdleHoldNothing
          <5>2. DOMAIN queue = 1 .. Len(queue)
            BY <1>0 DEF TypeOK
          <5> QED
            BY <5>1, <5>2 DEF Range, IsCall
        <4>2. reply'[t] = reply[t]
          BY <4>1, <1>7 DEF ExitWorker, DropSenders
        <4>3. Progress'[t] = Progress[t]
          BY <2>1, <4>2, ProgressStays
        <4>4. /\ pc[t] \in {"idle", "receiving"}
              /\ reply[t] = Empty \/ reply[t].kind \in {"ok", "error", "closed"}
          BY <1>0 DEF TypeOK, Result, Dropped
        <4>5. Progress[t] # "pending"
          BY <1>0, <3>2, <4>4, ProgressIs
        <4> QED
          BY <4>3, <4>5
      <3> QED
        BY <3>1, <3>2
    <2>3. Progress' = [t \in Threads |-> Progress'[t]]
      BY DEF Progress
    <2> QED
      BY <1>7, <2>1, <2>2, <2>3 DEF Service!Stop
  <1>8. CASE Finalize \/ Disconnect \/ Unwind
    <2>1. Connected /\ serving = None /\ UNCHANGED user /\ \E how : ExitWorker(how)
      BY <1>0, <1>8 DEF Finalize, Disconnect, Unwind, TypeOK, Connected
    <2> QED
      BY <1>7, <2>1 DEF Service!Next
  <1>9. CASE Take
    BY <1>4, <1>9 DEF Take, Connected, user
  <1>10. ASSUME UNCHANGED <<pc, reply, worker>>
         PROVE  UNCHANGED <<Progress, Connected>>
    BY <1>10 DEF Progress, Connected
  <1>11. CASE \/ \E t \in Threads : ClientClose(t)
              \/ \E t \in Threads, o \in Owners : Share(t, o)
              \/ \E o \in Owners : DropHandle(o)
              \/ UNCHANGED vars
    BY <1>10, <1>11 DEF ClientClose, Close, Share, DropHandle, vars, user
  <1> QED
    BY <1>1, <1>2, <1>3, <1>5, <1>6, <1>8, <1>9, <1>11 DEF Next, Service!Next

\* The safety part of ServiceSpec: a call is served at most once and returns
\* only then, and the end of the worker fails exactly what it has not served.
THEOREM ImplementsService == Spec => Service!Safety
  BY ServiceInit, ServiceStep, ClientInvariant, PTL DEF Spec, Service!Safety
=============================================================================
