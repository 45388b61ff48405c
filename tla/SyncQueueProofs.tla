--------------------------- MODULE SyncQueueProofs --------------------------
(***************************************************************************)
(* What holds of the three queues for any number of producers, consumers   *)
(* and items, any capacity and any number of spurious wake-ups.            *)
(***************************************************************************)
EXTENDS SyncQueue, FiniteSetTheorems, TLAPS

\* Where a thread can be.
Labels == {"idle", "call", "acquired", "inside", "wait", "woken",
           "leave", "leaveNotify", "notify", "stopped", "undefined"}

\* Where a thread has the mutex.
Critical == {"acquired", "inside", "leave", "leaveNotify"}

\* The values the variables take.
TypeOK ==
    /\ kind \in {"safe", "blocking", "bounded"}
    /\ mutex \in Threads \cup {None} /\ holder \in Threads \cup {None}
    /\ queue \in Seq(Items) /\ sent \in Seq(Items) /\ taken \in Seq(Items)
    /\ destroyed \in BOOLEAN
    /\ pc \in [Threads -> Labels]

\* A thread goes on to l.
LEMMA GotoPc ==
    ASSUME pc \in [Threads -> Labels], NEW t \in Threads, NEW l \in Labels, Goto(t, l)
    PROVE  /\ pc' \in [Threads -> Labels] /\ pc'[t] = l
           /\ \A u \in Threads : u # t => pc'[u] = pc[u]
BY DEF Goto

\* A thread goes on to l and at most one other wakes up.
LEMMA NotifyPc ==
    ASSUME pc \in [Threads -> Labels], NEW t \in Threads, NEW l \in Labels,
           NEW waiting \in SUBSET Threads, Notify(t, l, waiting)
    PROVE  /\ pc' \in [Threads -> Labels]
           /\ \A u \in Threads : pc'[u] = pc[u] \/ pc'[u] = "woken" \/ (u = t /\ pc'[u] = l)
<1>1. CASE Goto(t, l)
  BY <1>1, GotoPc
<1>2. ASSUME NEW w \in waiting, pc' = [pc EXCEPT ![t] = l, ![w] = "woken"]
      PROVE  /\ pc' \in [Threads -> Labels]
             /\ \A u \in Threads : pc'[u] = pc[u] \/ pc'[u] = "woken" \/ (u = t /\ pc'[u] = l)
  BY <1>2 DEF Labels
<1> QED
  BY <1>1, <1>2 DEF Notify

\* Those who wait on a condition are threads.
LEMMA WaitingAreThreads == WaitingEmpty \in SUBSET Threads /\ WaitingFull \in SUBSET Threads
BY DEF WaitingEmpty, WaitingFull, Threads

\* The first element of a sequence and the rest.
LEMMA HeadTail ==
    ASSUME NEW S, NEW s \in Seq(S), s # <<>>
    PROVE  /\ Len(s) \in Nat /\ Head(s) \in S
           /\ Tail(s) \in Seq(S) /\ Len(Tail(s)) = Len(s) - 1
OBVIOUS

\* An element behind the others.
LEMMA Appended ==
    ASSUME NEW S, NEW s \in Seq(S), NEW e \in S
    PROVE  Append(s, e) \in Seq(S) /\ Len(s) \in Nat /\ Len(Append(s, e)) = Len(s) + 1
OBVIOUS

-----------------------------------------------------------------------------
(* The mutex.                                                              *)

\* Besides, only a CThreadSafeQueue is destroyed under its callers.
LockInv ==
    /\ HolderHasMutex
    /\ destroyed => kind = "safe"

\* What is inductive.
Inv == TypeOK /\ LockInv

\* A thread that has the mutex, has become its holder and stays inside.
LEMMA StaysInside ==
    ASSUME Inv, NEW t \in Threads, pc[t] = "inside", mutex' = mutex, holder' = holder,
           NEW l \in Critical,
           \A u \in Threads : pc'[u] = pc[u] \/ pc'[u] = "woken" \/ (u = t /\ pc'[u] = l)
    PROVE  HolderHasMutex'
BY DEF Inv, LockInv, HolderHasMutex, Critical

\* A thread that lets go of the mutex.
LEMMA LetsGo ==
    ASSUME Inv, NEW t \in Threads, pc[t] \in Critical, mutex' = None, holder' = None,
           pc'[t] \notin Critical, \A u \in Threads : u # t => pc'[u] = pc[u]
    PROVE  HolderHasMutex'
<1>1. mutex = t
  BY DEF Inv, LockInv, HolderHasMutex, Critical
<1>2. \A u \in Threads : u # t => pc[u] \notin Critical
  BY <1>1 DEF Inv, LockInv, HolderHasMutex, Critical
<1>3. \A u \in Threads : pc'[u] \notin Critical
  BY <1>2
<1> QED
  BY <1>3 DEF HolderHasMutex, Critical

\* Nobody has the mutex at first.
LEMMA InvInit == Init => Inv
<1> SUFFICES ASSUME Init PROVE Inv
  OBVIOUS
<1>1. TypeOK
  <2>1. pc \in [Threads -> Labels]
    BY DEF Init, Labels
  <2>2. <<>> \in Seq(Items)
    OBVIOUS
  <2> QED
    BY <2>1, <2>2, Zenon DEF Init, TypeOK
<1>2. LockInv
  BY DEF Init, LockInv, HolderHasMutex
<1> QED
  BY <1>1, <1>2 DEF Inv

\* put, push and push_back inside the mutex.
LEMMA InvPut ==
    ASSUME Inv, NEW p \in Producers, PutBody(p)
    PROVE  Inv'
<1>1. /\ p \in Threads /\ pc \in [Threads -> Labels] /\ pc[p] = "inside"
      /\ queue \in Seq(Items) /\ sent \in Seq(Items)
      /\ kind' = kind /\ destroyed' = destroyed /\ taken' = taken
  BY DEF Inv, TypeOK, PutBody, Threads
<1>2. CASE Wait(p) /\ UNCHANGED <<queue, sent>>
  <2>1. mutex' = None /\ holder' = None /\ Goto(p, "wait")
    BY <1>2 DEF Wait
  <2>2. pc' \in [Threads -> Labels] /\ pc'[p] = "wait" /\ \A u \in Threads : u # p => pc'[u] = pc[u]
    BY <1>1, <2>1, GotoPc DEF Labels
  <2>3. HolderHasMutex'
    BY <1>1, <2>1, <2>2, LetsGo DEF Critical
  <2> QED
    BY <1>1, <1>2, <2>1, <2>2, <2>3 DEF Inv, TypeOK, LockInv
<1>3. ASSUME NEW l \in Critical, NEW waiting \in SUBSET Threads, UNCHANGED <<mutex, holder>>,
             queue' \in Seq(Items), sent' \in Seq(Items), Goto(p, l) \/ Notify(p, l, waiting)
      PROVE  Inv'
  <2>1. l \in Labels
    BY DEF Critical, Labels
  <2>2. /\ pc' \in [Threads -> Labels]
        /\ \A u \in Threads : pc'[u] = pc[u] \/ pc'[u] = "woken" \/ (u = p /\ pc'[u] = l)
    BY <1>1, <1>3, <2>1, GotoPc, NotifyPc
  <2>3. HolderHasMutex'
    BY <1>1, <1>3, <2>2, StaysInside
  <2> QED
    BY <1>1, <1>3, <2>2, <2>3 DEF Inv, TypeOK, LockInv
<1>4. ASSUME NEW v \in Items, queue' = Append(queue, v), sent' = Append(sent, v),
             IF kind = "safe" THEN Goto(p, "leaveNotify") ELSE Notify(p, "leave", WaitingEmpty),
             UNCHANGED <<mutex, holder>>
      PROVE  Inv'
  <2>1. queue' \in Seq(Items) /\ sent' \in Seq(Items)
    BY <1>1, <1>4, Appended
  <2>2. Goto(p, "leaveNotify") \/ Notify(p, "leave", WaitingEmpty)
    BY <1>4
  <2> QED
    BY <1>3, <1>4, <2>1, <2>2, WaitingAreThreads DEF Critical
<1>5. CASE Goto(p, "leave") /\ UNCHANGED <<queue, sent, mutex, holder>>
  BY <1>1, <1>3, <1>5, WaitingAreThreads DEF Critical
<1> QED
  BY <1>2, <1>4, <1>5 DEF PutBody

\* take and pop inside the mutex.
LEMMA InvTake ==
    ASSUME Inv, NEW c \in Consumers, TakeBody(c)
    PROVE  Inv'
<1>1. /\ c \in Threads /\ pc \in [Threads -> Labels] /\ pc[c] = "inside"
      /\ queue \in Seq(Items) /\ taken \in Seq(Items)
      /\ kind' = kind /\ destroyed' = destroyed /\ sent' = sent
  BY DEF Inv, TypeOK, TakeBody, Threads
<1>2. CASE Wait(c) /\ UNCHANGED <<queue, taken>>
  <2>1. mutex' = None /\ holder' = None /\ Goto(c, "wait")
    BY <1>2 DEF Wait
  <2>2. pc' \in [Threads -> Labels] /\ pc'[c] = "wait" /\ \A u \in Threads : u # c => pc'[u] = pc[u]
    BY <1>1, <2>1, GotoPc DEF Labels
  <2>3. HolderHasMutex'
    BY <1>1, <2>1, <2>2, LetsGo DEF Critical
  <2> QED
    BY <1>1, <1>2, <2>1, <2>2, <2>3 DEF Inv, TypeOK, LockInv
<1>3. CASE /\ queue # <<>> /\ TookOldest
           /\ IF kind = "bounded" THEN Notify(c, "leave", WaitingFull) ELSE Goto(c, "leave")
           /\ UNCHANGED <<mutex, holder>>
  <2>1. Goto(c, "leave") \/ Notify(c, "leave", WaitingFull)
    BY <1>3
  <2>2. /\ pc' \in [Threads -> Labels]
        /\ \A u \in Threads : pc'[u] = pc[u] \/ pc'[u] = "woken" \/ (u = c /\ pc'[u] = "leave")
    BY <1>1, <2>1, GotoPc, NotifyPc, WaitingAreThreads DEF Labels
  <2>3. HolderHasMutex'
    BY <1>1, <1>3, <2>2, StaysInside DEF Critical
  <2>4. queue' \in Seq(Items) /\ taken' \in Seq(Items)
    BY <1>1, <1>3, HeadTail, Appended DEF TookOldest
  <2> QED
    BY <1>1, <1>3, <2>2, <2>3, <2>4 DEF Inv, TypeOK, LockInv
<1>4. CASE Goto(c, "undefined") /\ UNCHANGED <<queue, taken, mutex, holder>>
  <2>1. pc' \in [Threads -> Labels] /\ pc'[c] = "undefined" /\ \A u \in Threads : u # c => pc'[u] = pc[u]
    BY <1>1, <1>4, GotoPc DEF Labels
  <2>2. HolderHasMutex'
    BY <1>4, <2>1 DEF Inv, LockInv, HolderHasMutex
  <2> QED
    BY <1>1, <1>4, <2>1, <2>2 DEF Inv, TypeOK, LockInv
<1> QED
  BY <1>2, <1>3, <1>4 DEF TakeBody

\* A step that moves one thread and leaves the mutex alone.
LEMMA InvMove ==
    ASSUME Inv, NEW t \in Threads, NEW l \in Labels, Goto(t, l),
           UNCHANGED <<data, mutex, holder>>, l \notin Critical
    PROVE  Inv'
<1>1. pc' \in [Threads -> Labels] /\ pc'[t] = l /\ \A u \in Threads : u # t => pc'[u] = pc[u]
  BY GotoPc DEF Inv, TypeOK
<1>2. HolderHasMutex'
  BY <1>1 DEF Inv, LockInv, HolderHasMutex, Critical
<1> QED
  BY <1>1, <1>2 DEF Inv, TypeOK, LockInv, data

\* Every step keeps the mutex with the one thread that is inside.
LEMMA InvNext == Inv /\ [Next]_vars => Inv'
<1> SUFFICES ASSUME Inv, [Next]_vars PROVE Inv'
  OBVIOUS
<1>1. ASSUME NEW t \in Threads, Call(t) PROVE Inv'
  BY <1>1, InvMove DEF Call, Labels, Critical
<1>2. ASSUME NEW t \in Threads, Spurious(t) PROVE Inv'
  BY <1>2, InvMove DEF Spurious, Labels, Critical
<1>3. ASSUME NEW c \in Consumers, IsDestroyed(c) PROVE Inv'
  <2>1. c \in Threads
    BY DEF Threads
  <2> QED
    BY <1>3, <2>1, InvMove DEF IsDestroyed, Labels, Critical
<1>4. ASSUME NEW t \in Threads, Acquire(t) PROVE Inv'
  <2>1. /\ mutex = None /\ mutex' = t /\ holder' = holder /\ UNCHANGED data
        /\ Goto(t, "acquired")
    BY <1>4 DEF Acquire
  <2>2. pc' \in [Threads -> Labels] /\ \A u \in Threads : u # t => pc'[u] = pc[u]
    BY <2>1, GotoPc DEF Inv, TypeOK, Labels
  <2>3. holder = None /\ \A u \in Threads : pc[u] \notin Critical
    BY <2>1, QueueAssumption DEF Inv, LockInv, HolderHasMutex, Critical
  <2>4. HolderHasMutex'
    BY <2>1, <2>2, <2>3 DEF HolderHasMutex, Critical
  <2> QED
    BY <2>1, <2>2, <2>4 DEF Inv, TypeOK, LockInv, data
<1>5. ASSUME NEW t \in Threads, AssignHolder(t) PROVE Inv'
  <2>1. /\ pc[t] = "acquired" /\ mutex' = mutex /\ holder' = t /\ UNCHANGED data
        /\ Goto(t, "inside")
    BY <1>5 DEF AssignHolder
  <2>2. pc' \in [Threads -> Labels] /\ \A u \in Threads : u # t => pc'[u] = pc[u]
    BY <2>1, GotoPc DEF Inv, TypeOK, Labels
  <2>3. mutex = t
    BY <2>1 DEF Inv, LockInv, HolderHasMutex
  <2>4. HolderHasMutex'
    BY <2>1, <2>2, <2>3 DEF Inv, LockInv, HolderHasMutex
  <2> QED
    BY <2>1, <2>2, <2>4 DEF Inv, TypeOK, LockInv, data
<1>6. ASSUME NEW t \in Threads, Unlock(t) PROVE Inv'
  <2> DEFINE l == IF pc[t] = "leave" THEN "idle" ELSE "notify"
  <2>1. /\ pc[t] \in Critical /\ mutex' = None /\ holder' = None /\ UNCHANGED data
        /\ Goto(t, l) /\ l \in Labels /\ l \notin Critical
    BY <1>6 DEF Unlock, Critical, Labels
  <2> HIDE DEF l
  <2>2. pc' \in [Threads -> Labels] /\ pc'[t] = l /\ \A u \in Threads : u # t => pc'[u] = pc[u]
    BY <2>1, GotoPc DEF Inv, TypeOK
  <2>3. HolderHasMutex'
    BY <2>1, <2>2, LetsGo
  <2> QED
    BY <2>1, <2>2, <2>3 DEF Inv, TypeOK, LockInv, data
<1>7. ASSUME NEW t \in Threads, NotifyLate(t) PROVE Inv'
  <2>1. Notify(t, "idle", WaitingEmpty) /\ UNCHANGED <<data, mutex, holder>>
    BY <1>7 DEF NotifyLate
  <2>2. /\ pc' \in [Threads -> Labels]
        /\ \A u \in Threads : pc'[u] = pc[u] \/ pc'[u] = "woken" \/ (u = t /\ pc'[u] = "idle")
    BY <2>1, NotifyPc, WaitingAreThreads DEF Inv, TypeOK, Labels
  <2>3. HolderHasMutex'
    BY <2>1, <2>2 DEF Inv, LockInv, HolderHasMutex
  <2> QED
    BY <2>1, <2>2, <2>3 DEF Inv, TypeOK, LockInv, data
<1>8. CASE Destroy
  <2>1. /\ kind = "safe" /\ destroyed' = TRUE /\ UNCHANGED <<kind, queue, sent, taken, mutex, holder>>
        /\ pc' = [t \in Threads |-> IF t \in WaitingEmpty THEN "woken" ELSE pc[t]]
    BY <1>8 DEF Destroy
  <2>2. /\ pc' \in [Threads -> Labels]
        /\ \A u \in Threads : pc'[u] = pc[u] \/ pc'[u] = "woken"
    BY <2>1 DEF Inv, TypeOK, Labels
  <2>3. HolderHasMutex'
    BY <2>1, <2>2 DEF Inv, LockInv, HolderHasMutex
  <2>4. TypeOK'
    BY <2>1, <2>2, Zenon DEF Inv, TypeOK
  <2> QED
    BY <2>1, <2>3, <2>4 DEF Inv, LockInv
<1>9. ASSUME NEW c \in Consumers, Drain(c) PROVE Inv'
  <2>1. /\ c \in Threads /\ pc[c] = "inside" /\ queue' = <<>> /\ taken' = taken \o queue
        /\ Goto(c, "leave") /\ UNCHANGED <<kind, destroyed, sent, mutex, holder>>
    BY <1>9 DEF Drain, Threads
  <2>2. /\ pc' \in [Threads -> Labels]
        /\ \A u \in Threads : pc'[u] = pc[u] \/ pc'[u] = "woken" \/ (u = c /\ pc'[u] = "leave")
    BY <2>1, GotoPc DEF Inv, TypeOK, Labels
  <2>3. HolderHasMutex'
    BY <2>1, <2>2, StaysInside DEF Critical
  <2>4. queue' \in Seq(Items) /\ taken' \in Seq(Items)
    BY <2>1 DEF Inv, TypeOK
  <2> QED
    BY <2>1, <2>2, <2>3, <2>4 DEF Inv, TypeOK, LockInv
<1>10. CASE UNCHANGED vars
  BY <1>10 DEF Inv, TypeOK, LockInv, HolderHasMutex, vars
<1> QED
  BY <1>1, <1>2, <1>3, <1>4, <1>5, <1>6, <1>7, <1>8, <1>9, <1>10, InvPut, InvTake DEF Next, Step

\* The invariant holds throughout.
LEMMA AlwaysInv == Spec => []Inv
BY InvInit, InvNext, PTL DEF Spec

\* One thread at a time is inside, and MutexLock's holder_, on which
\* isLockedByThisThread rests, names the thread that has the mutex or nobody,
\* whatever waits, wake-ups and notifications happen in between.
THEOREM Exclusive == Spec => []HolderHasMutex
<1>1. Inv => HolderHasMutex
  BY DEF Inv, LockInv
<1> QED
  BY <1>1, AlwaysInv, PTL

-----------------------------------------------------------------------------
(* Taking the front of an empty queue.                                     *)

\* No thread gets to undefined behaviour by going on elsewhere.
LEMMA ElseDefined ==
    ASSUME TypeOK, NEW c \in Threads, pc[c] # "undefined",
           NEW t \in Threads, NEW l \in Labels, l # "undefined",
           NEW waiting \in SUBSET Threads, Goto(t, l) \/ Notify(t, l, waiting)
    PROVE  pc'[c] # "undefined"
BY GotoPc, NotifyPc DEF TypeOK

\* A thread gets to undefined behaviour only in pop, on an empty queue that was destroyed.
LEMMA OnlyPop ==
    ASSUME TypeOK, Next, NEW c \in Consumers, pc[c] # "undefined", pc'[c] = "undefined"
    PROVE  /\ kind' = kind /\ destroyed' = destroyed /\ queue' = queue
           /\ queue = <<>> /\ destroyed
<1>1. c \in Threads /\ {} \in SUBSET Threads
  BY DEF Threads
<1>2. ASSUME NEW t \in Threads, Step(t)
      PROVE  t \in Consumers /\ TakeBody(t) /\ Goto(t, "undefined")
  <2>1. ~Acquire(t)
    BY <1>1, ElseDefined DEF Acquire, Labels
  <2>2. ~AssignHolder(t)
    BY <1>1, ElseDefined DEF AssignHolder, Labels
  <2>3. ~Unlock(t)
    BY <1>1, ElseDefined DEF Unlock, Labels
  <2>4. ~NotifyLate(t)
    BY <1>1, WaitingAreThreads, ElseDefined DEF NotifyLate, Labels
  <2>5. ~PutBody(t)
    <3>1. ~Goto(t, "wait") /\ ~Goto(t, "leave") /\ ~Goto(t, "leaveNotify")
      BY <1>1, ElseDefined DEF Labels
    <3>2. ~Notify(t, "leave", WaitingEmpty)
      BY <1>1, WaitingAreThreads, ElseDefined DEF Labels
    <3> QED
      BY <3>1, <3>2 DEF PutBody, Wait
  <2>6. t \in Consumers /\ TakeBody(t)
    BY <1>2, <2>1, <2>2, <2>3, <2>4, <2>5, Zenon DEF Step
  <2>7. ~Goto(t, "wait") /\ ~Goto(t, "leave")
    BY <1>1, ElseDefined DEF Labels
  <2>8. ~Notify(t, "leave", WaitingFull)
    BY <1>1, WaitingAreThreads, ElseDefined DEF Labels
  <2> QED
    BY <2>6, <2>7, <2>8 DEF TakeBody, Wait
<1>3. ASSUME NEW t \in Threads PROVE ~Call(t) /\ ~Spurious(t)
  BY <1>1, ElseDefined DEF Call, Spurious, Labels
<1>4. ~Destroy
  BY <1>1 DEF Destroy, TypeOK
<1>5. ASSUME NEW d \in Consumers PROVE ~Drain(d) /\ ~IsDestroyed(d)
  <2>1. d \in Threads
    BY DEF Threads
  <2> QED
    BY <1>1, <2>1, ElseDefined DEF Drain, IsDestroyed, Labels
<1>6. PICK t \in Threads : Step(t)
  BY <1>3, <1>4, <1>5, Zenon DEF Next
<1>7. TakeBody(t) /\ Goto(t, "undefined")
  BY <1>2, <1>6
<1>9. ~Goto(t, "wait") /\ ~Goto(t, "leave")
  BY <1>1, ElseDefined DEF Labels
<1>10. ~Notify(t, "leave", WaitingFull)
  BY <1>1, WaitingAreThreads, ElseDefined DEF Labels
<1> QED
  BY <1>7, <1>9, <1>10, Zenon DEF TakeBody, Wait, MustWait

\* The front of an empty queue is taken only by pop on a CThreadSafeQueue
\* that was destroyed: the loop around the wait sees to it for every
\* interleaving and every spurious wake-up.
THEOREM EmptyFrontOnlyDestroyed == Spec => []UndefinedOnlyDestroyed
<1>1. Init => UndefinedOnlyDestroyed
  BY DEF Init, UndefinedOnlyDestroyed, Defined, Threads
<1>2. Inv /\ Inv' /\ UndefinedOnlyDestroyed /\ [Next]_vars => UndefinedOnlyDestroyed'
  <2> SUFFICES ASSUME Inv, Inv', UndefinedOnlyDestroyed, [Next]_vars
               PROVE  UndefinedOnlyDestroyed'
    OBVIOUS
  <2>1. CASE UNCHANGED vars
    BY <2>1 DEF UndefinedOnlyDestroyed, Defined, vars
  <2>2. ASSUME NEW c \in Consumers, pc'[c] = "undefined", Next
        PROVE  kind' = "safe" /\ destroyed' /\ queue' = <<>>
    <3>1. pc[c] # "undefined"
      BY <2>2 DEF Next, Step, Defined
    <3> QED
      BY <2>2, <3>1, OnlyPop DEF Inv, LockInv
  <2> QED
    BY <2>1, <2>2 DEF UndefinedOnlyDestroyed, Defined
<1> QED
  BY <1>1, <1>2, AlwaysInv, PTL DEF Spec

-----------------------------------------------------------------------------
(* Fifo.                                                                   *)

\* What the abstract queue sees.
fifo == <<sent, queue, taken>>
\* A BoundedBlockingQueue holds no more than its capacity.
Within == kind = "bounded" => Len(queue) <= Capacity

\* Every step puts one item, takes one, takes all, or leaves the queue and its
\* histories alone.
LEMMA FifoNext == Inv /\ [Next]_vars => [F!Next]_fifo
<1> SUFFICES ASSUME Inv, [Next]_vars PROVE [F!Next]_fifo
  OBVIOUS
<1>1. CASE UNCHANGED fifo
  BY <1>1
<1>2. ASSUME NEW t \in Threads,
             Acquire(t) \/ AssignHolder(t) \/ Unlock(t) \/ NotifyLate(t) \/ Call(t) \/ Spurious(t)
      PROVE  [F!Next]_fifo
  BY <1>1, <1>2 DEF Acquire, AssignHolder, Unlock, NotifyLate, Call, Spurious, data, fifo
<1>3. ASSUME NEW p \in Producers, PutBody(p) PROVE [F!Next]_fifo
  <2>1. CASE UNCHANGED <<queue, sent>>
    BY <1>1, <1>3, <2>1 DEF PutBody, fifo
  <2>2. ASSUME NEW v \in Items, queue' = Append(queue, v), sent' = Append(sent, v)
        PROVE  [F!Next]_fifo
    <3>1. F!Put(v)
      BY <1>3, <2>2 DEF PutBody, F!Put
    <3> QED
      BY <3>1 DEF F!Next
  <2> QED
    BY <1>3, <2>1, <2>2, Zenon DEF PutBody
<1>4. ASSUME NEW c \in Consumers, TakeBody(c) PROVE [F!Next]_fifo
  <2>1. CASE UNCHANGED <<queue, taken>>
    BY <1>1, <1>4, <2>1 DEF TakeBody, fifo
  <2>2. CASE queue # <<>> /\ TookOldest
    <3>1. F!Take
      BY <1>4, <2>2 DEF TakeBody, TookOldest, F!Take
    <3> QED
      BY <3>1 DEF F!Next
  <2> QED
    BY <1>4, <2>1, <2>2, Zenon DEF TakeBody
<1>5. CASE Destroy
  BY <1>1, <1>5 DEF Destroy, fifo
<1>6. ASSUME NEW c \in Consumers, Drain(c) PROVE [F!Next]_fifo
  <2>1. F!Drain
    BY <1>6 DEF Drain, F!Drain
  <2> QED
    BY <2>1 DEF F!Next
<1>7. ASSUME NEW c \in Consumers, IsDestroyed(c) PROVE [F!Next]_fifo
  BY <1>1, <1>7 DEF IsDestroyed, data, fifo
<1>8. CASE UNCHANGED vars
  BY <1>1, <1>8 DEF vars, fifo
<1> QED
  BY <1>2, <1>3, <1>4, <1>5, <1>6, <1>7, <1>8 DEF Next, Step

\* A step that puts no item does not make the queue longer.
LEMMA WithinNext == Inv /\ Within /\ [Next]_vars => Within'
<1> SUFFICES ASSUME Inv, Within, [Next]_vars PROVE Within'
  OBVIOUS
<1>1. CASE kind' = kind /\ queue' = queue
  BY <1>1 DEF Within
<1>2. ASSUME NEW t \in Threads,
             Acquire(t) \/ AssignHolder(t) \/ Unlock(t) \/ NotifyLate(t) \/ Call(t) \/ Spurious(t)
      PROVE  Within'
  BY <1>1, <1>2 DEF Acquire, AssignHolder, Unlock, NotifyLate, Call, Spurious, data
<1>3. ASSUME NEW p \in Producers, PutBody(p) PROVE Within'
  <2>1. kind' = kind /\ queue \in Seq(Items)
    BY <1>3 DEF PutBody, Inv, TypeOK
  <2>2. ASSUME NEW v \in Items, ~Full, queue' = Append(queue, v)
        PROVE  Within'
    <3>1. Len(queue) \in Nat /\ Len(queue') = Len(queue) + 1
      BY <2>1, <2>2, Appended
    <3>2. kind = "bounded" => Len(queue) < Capacity
      BY <2>2, <3>1, QueueAssumption DEF Full
    <3> QED
      BY <2>1, <3>1, <3>2, QueueAssumption DEF Within
  <2>3. queue' = queue \/ \E v \in Items : ~Full /\ queue' = Append(queue, v)
    BY <1>3, Zenon DEF PutBody
  <2> QED
    BY <1>1, <2>1, <2>2, <2>3
<1>4. ASSUME NEW c \in Consumers, TakeBody(c) PROVE Within'
  <2>1. kind' = kind /\ queue \in Seq(Items)
    BY <1>4 DEF TakeBody, Inv, TypeOK
  <2>2. CASE queue # <<>> /\ TookOldest
    <3>1. Len(queue) \in Nat /\ Len(queue') = Len(queue) - 1
      BY <2>1, <2>2, HeadTail DEF TookOldest
    <3> QED
      BY <2>1, <3>1, QueueAssumption DEF Within
  <2>3. queue' = queue \/ (queue # <<>> /\ TookOldest)
    BY <1>4, Zenon DEF TakeBody
  <2> QED
    BY <1>1, <2>1, <2>2, <2>3
<1>5. CASE Destroy
  BY <1>1, <1>5 DEF Destroy
<1>6. ASSUME NEW c \in Consumers, Drain(c) PROVE Within'
  BY <1>6 DEF Drain, Within
<1>7. ASSUME NEW c \in Consumers, IsDestroyed(c) PROVE Within'
  BY <1>1, <1>7 DEF IsDestroyed, data
<1>8. CASE UNCHANGED vars
  BY <1>1, <1>8 DEF vars
<1> QED
  BY <1>2, <1>3, <1>4, <1>5, <1>6, <1>7, <1>8 DEF Next, Step

\* Each of the three queues implements Fifo, whichever threads lock, wait and
\* wake in whatever order, and a BoundedBlockingQueue stays within its
\* capacity.
THEOREM ImplementsFifo == Spec => IsFifo
<1>1. Init => F!Init
  BY DEF Init, F!Init
<1>2. Inv /\ [Next]_vars => [F!Next]_<<sent, queue, taken>>
  BY FifoNext DEF fifo
<1>3. Init => Within
  BY QueueAssumption DEF Init, Within
<1>4. Inv /\ Within /\ [Next]_vars => Within'
  BY WithinNext
<1>5. Within => (kind = "bounded" => Len(queue) <= Capacity)
  BY DEF Within
<1> QED
  BY <1>1, <1>2, <1>3, <1>4, <1>5, AlwaysInv, PTL DEF Spec, IsFifo, F!Spec

-----------------------------------------------------------------------------
(* Wake-ups.                                                               *)

\* Sets of threads can be counted, and a larger one has as many at least.
LEMMA AtLeast ==
    ASSUME NEW A \in SUBSET Threads, NEW B \in SUBSET Threads, A \subseteq B
    PROVE  Cardinality(A) \in Nat /\ Cardinality(B) \in Nat /\ Cardinality(A) <= Cardinality(B)
<1>1. IsFiniteSet(A) /\ IsFiniteSet(B)
  BY QueueAssumption, FS_Subset
<1>2. Cardinality(A) \in Nat /\ Cardinality(B) \in Nat
  BY <1>1, FS_CardinalityType
<1>3. Cardinality(A) <= Cardinality(B)
  BY <1>1, FS_Subset
<1> QED
  BY <1>2, <1>3

\* One thread comes.
LEMMA OneMore ==
    ASSUME NEW A \in SUBSET Threads, NEW B \in SUBSET Threads,
           NEW x \in Threads, x \notin A, A \cup {x} \subseteq B
    PROVE  /\ Cardinality(A) \in Nat /\ Cardinality(B) \in Nat
           /\ Cardinality(A) + 1 <= Cardinality(B)
<1>1. IsFiniteSet(A)
  BY QueueAssumption, FS_Subset
<1>2. Cardinality(A \cup {x}) = Cardinality(A) + 1
  BY <1>1, FS_AddElement
<1>3. A \cup {x} \in SUBSET Threads
  OBVIOUS
<1>4. Cardinality(B) \in Nat /\ Cardinality(A \cup {x}) <= Cardinality(B)
  BY <1>3, AtLeast
<1>5. Cardinality(A) \in Nat
  BY <1>1, FS_CardinalityType
<1> QED
  BY <1>2, <1>4, <1>5

\* One thread at most goes.
LEMMA OneLess ==
    ASSUME NEW A \in SUBSET Threads, NEW B \in SUBSET Threads, NEW x, A \ {x} \subseteq B
    PROVE  /\ Cardinality(A) \in Nat /\ Cardinality(B) \in Nat
           /\ Cardinality(A) <= Cardinality(B) + 1
<1>1. IsFiniteSet(A)
  BY QueueAssumption, FS_Subset
<1>2. Cardinality(A) \in Nat
  BY <1>1, FS_CardinalityType
<1>3. Cardinality(A \ {x}) = IF x \in A THEN Cardinality(A) - 1 ELSE Cardinality(A)
  BY <1>1, FS_RemoveElement
<1>4. A \ {x} \in SUBSET Threads
  OBVIOUS
<1>5. Cardinality(B) \in Nat /\ Cardinality(A \ {x}) <= Cardinality(B)
  BY <1>4, AtLeast
<1> QED
  BY <1>2, <1>3, <1>5

\* One thread at most goes and another one comes.
LEMMA Exchanged ==
    ASSUME NEW A \in SUBSET Threads, NEW B \in SUBSET Threads, NEW x,
           NEW y \in Threads, y \notin A, (A \ {x}) \cup {y} \subseteq B
    PROVE  Cardinality(A) \in Nat /\ Cardinality(B) \in Nat /\ Cardinality(A) <= Cardinality(B)
<1> DEFINE C == A \ {x}
<1>1. C \in SUBSET Threads /\ y \notin C /\ C \cup {y} \subseteq B /\ A \ {x} \subseteq C
  OBVIOUS
<1>2. Cardinality(A) \in Nat /\ Cardinality(C) \in Nat /\ Cardinality(A) <= Cardinality(C) + 1
  BY <1>1, OneLess
<1>3. Cardinality(B) \in Nat /\ Cardinality(C) + 1 <= Cardinality(B)
  BY <1>1, OneMore
<1> QED
  BY <1>2, <1>3

\* Who is on the way are threads, before a step and after it.
LEMMA CountedAreThreads ==
    /\ Coming \in SUBSET Threads /\ Filling \in SUBSET Threads
    /\ Coming' \in SUBSET Threads /\ Filling' \in SUBSET Threads
BY DEF Coming, Filling, Threads

\* The two halves of NoWakeUpLost.
ItemsAwaited == WaitingEmpty # {} => Len(queue) <= Cardinality(Coming)
RoomAwaited ==
    kind = "bounded" /\ WaitingFull # {} /\ Len(sent) < Cardinality(Items)
        => Capacity - Len(queue) <= Cardinality(Filling)

\* Nothing changes for the consumers that wait.
LEMMA ItemsKept ==
    ASSUME ItemsAwaited, queue' = queue, Coming \subseteq Coming', WaitingEmpty' \subseteq WaitingEmpty,
           queue \in Seq(Items)
    PROVE  ItemsAwaited'
<1>1. Cardinality(Coming) \in Nat /\ Cardinality(Coming') \in Nat /\ Cardinality(Coming) <= Cardinality(Coming')
  BY CountedAreThreads, AtLeast
<1>2. Len(queue) \in Nat /\ Len(queue') = Len(queue)
  OBVIOUS
<1> QED
  BY <1>1, <1>2 DEF ItemsAwaited

\* Nothing changes for the producers that wait.
LEMMA RoomKept ==
    ASSUME RoomAwaited, kind' = kind, queue' = queue, sent' = sent,
           Filling \subseteq Filling', WaitingFull' \subseteq WaitingFull, queue \in Seq(Items)
    PROVE  RoomAwaited'
<1>1. Cardinality(Filling) \in Nat /\ Cardinality(Filling') \in Nat /\ Cardinality(Filling) <= Cardinality(Filling')
  BY CountedAreThreads, AtLeast
<1>2. Len(queue) \in Nat /\ Len(queue') = Len(queue) /\ Len(sent') = Len(sent) /\ Capacity \in Nat
  BY QueueAssumption
<1> QED
  BY <1>1, <1>2 DEF RoomAwaited

\* Consumers that wait for an empty queue.
LEMMA ItemsNone ==
    ASSUME queue' = <<>>
    PROVE  ItemsAwaited'
<1>1. Cardinality(Coming') \in Nat
  BY CountedAreThreads, AtLeast
<1>2. Len(queue') = 0
  OBVIOUS
<1> QED
  BY <1>1, <1>2 DEF ItemsAwaited

\* A step of one thread that stays on its way, if it was, and does not wait.
LEMMA QuietStep ==
    ASSUME TypeOK, ItemsAwaited, RoomAwaited, NEW t \in Threads, NEW l \in Labels, Goto(t, l),
           UNCHANGED <<kind, queue, sent>>, l # "wait",
           pc[t] \in OnTheWay => l \in OnTheWay,
           pc[t] \in {"leaveNotify", "notify"} => l \in {"leaveNotify", "notify"}
    PROVE  ItemsAwaited' /\ RoomAwaited'
<1>1. pc' \in [Threads -> Labels] /\ pc'[t] = l /\ \A u \in Threads : u # t => pc'[u] = pc[u]
  BY GotoPc DEF TypeOK
<1>2. Producers \subseteq Threads /\ Consumers \subseteq Threads
  BY DEF Threads
<1>3. Coming \subseteq Coming' /\ Filling \subseteq Filling'
  BY <1>1, <1>2 DEF Coming, Filling
<1>4. WaitingEmpty' \subseteq WaitingEmpty /\ WaitingFull' \subseteq WaitingFull
  BY <1>1, <1>2 DEF WaitingEmpty, WaitingFull
<1> QED
  BY <1>3, <1>4, ItemsKept, RoomKept DEF TypeOK

\* Who is woken by notify.
LEMMA Notified ==
    ASSUME pc \in [Threads -> Labels], NEW t \in Threads, NEW l \in Labels, pc[t] # "wait",
           NEW waiting \in SUBSET Threads, \A u \in waiting : pc[u] = "wait", Notify(t, l, waiting)
    PROVE  \/ waiting = {} /\ Goto(t, l)
           \/ \E w \in waiting : /\ pc' \in [Threads -> Labels] /\ pc'[t] = l /\ pc'[w] = "woken" /\ w # t
                                 /\ \A u \in Threads : u # t /\ u # w => pc'[u] = pc[u]
<1>1. ASSUME NEW w \in waiting, pc' = [pc EXCEPT ![t] = l, ![w] = "woken"]
      PROVE  /\ pc' \in [Threads -> Labels] /\ pc'[t] = l /\ pc'[w] = "woken" /\ w # t
             /\ \A u \in Threads : u # t /\ u # w => pc'[u] = pc[u]
  <2>1. w \in Threads /\ w # t /\ "woken" \in Labels
    BY DEF Labels
  <2> QED
    BY <1>1, <2>1
<1> QED
  BY <1>1 DEF Notify

\* A producer and a consumer are different threads.
LEMMA Sides ==
    /\ Producers \subseteq Threads /\ Consumers \subseteq Threads
    /\ \A p \in Producers : p \notin Consumers
BY QueueAssumption DEF Threads

\* put and push: the new item has a consumer on its way, a producer that is
\* still to notify, or nobody waits; one place less has one producer less.
LEMMA WakePut ==
    ASSUME TypeOK, ItemsAwaited, RoomAwaited, NEW p \in Producers, PutBody(p)
    PROVE  ItemsAwaited' /\ RoomAwaited'
<1>1. /\ p \in Threads /\ pc \in [Threads -> Labels] /\ pc[p] = "inside" /\ kind' = kind
      /\ queue \in Seq(Items) /\ sent \in Seq(Items) /\ Len(queue) \in Nat /\ Len(sent) \in Nat
      /\ Capacity \in Nat /\ Cardinality(Items) \in Nat
  BY QueueAssumption, FS_CardinalityType DEF TypeOK, PutBody, Threads
<1>2. CASE Full /\ Wait(p) /\ UNCHANGED <<queue, sent>>
  <2>1. pc' \in [Threads -> Labels] /\ pc'[p] = "wait" /\ \A u \in Threads : u # p => pc'[u] = pc[u]
    BY <1>1, <1>2, GotoPc DEF Wait, Labels
  <2>2. Coming \subseteq Coming' /\ WaitingEmpty' \subseteq WaitingEmpty
    BY <1>1, <2>1, Sides DEF Coming, WaitingEmpty, OnTheWay
  <2>3. ItemsAwaited'
    BY <1>1, <1>2, <2>2, ItemsKept
  <2>4. Cardinality(Filling') \in Nat
    BY CountedAreThreads, AtLeast
  <2>5. Capacity - Len(queue') <= 0
    BY <1>1, <1>2 DEF Full
  <2>6. RoomAwaited'
    BY <1>1, <1>2, <2>4, <2>5 DEF RoomAwaited
  <2> QED
    BY <2>3, <2>6
<1>3. ASSUME NEW v \in Items, queue' = Append(queue, v), sent' = Append(sent, v),
             IF kind = "safe" THEN Goto(p, "leaveNotify") ELSE Notify(p, "leave", WaitingEmpty)
      PROVE  ItemsAwaited' /\ RoomAwaited'
  <2>1. Len(queue') = Len(queue) + 1 /\ Len(sent') = Len(sent) + 1
    BY <1>1, <1>3, Appended
  <2>2. WaitingEmpty \in SUBSET Threads /\ \A u \in WaitingEmpty : pc[u] = "wait" /\ u \in Consumers
    BY Sides DEF WaitingEmpty
  <2>3. p \notin Coming
    BY <1>1, Sides DEF Coming
  <2>4. CASE kind = "safe"
    <3>1. pc' \in [Threads -> Labels] /\ pc'[p] = "leaveNotify" /\ \A u \in Threads : u # p => pc'[u] = pc[u]
      BY <1>1, <1>3, <2>4, GotoPc DEF Labels
    <3>2. Coming \cup {p} \subseteq Coming' /\ WaitingEmpty' \subseteq WaitingEmpty
      BY <1>1, <3>1, Sides DEF Coming, WaitingEmpty, OnTheWay
    <3>3. /\ Cardinality(Coming) \in Nat /\ Cardinality(Coming') \in Nat
          /\ Cardinality(Coming) + 1 <= Cardinality(Coming')
      BY <1>1, <2>3, <3>2, CountedAreThreads, OneMore
    <3>4. ItemsAwaited'
      BY <1>1, <2>1, <3>2, <3>3 DEF ItemsAwaited
    <3>5. RoomAwaited'
      BY <1>1, <2>4 DEF RoomAwaited
    <3> QED
      BY <3>4, <3>5
  <2>5. CASE WaitingEmpty = {} /\ Goto(p, "leave")
    <3>1. pc' \in [Threads -> Labels] /\ pc'[p] = "leave" /\ \A u \in Threads : u # p => pc'[u] = pc[u]
      BY <1>1, <2>5, GotoPc DEF Labels
    <3>2. WaitingEmpty' = {} /\ Filling \ {p} \subseteq Filling' /\ WaitingFull' \subseteq WaitingFull
      BY <1>1, <2>5, <3>1, Sides DEF WaitingEmpty, WaitingFull, Filling
    <3>3. /\ Cardinality(Filling) \in Nat /\ Cardinality(Filling') \in Nat
          /\ Cardinality(Filling) <= Cardinality(Filling') + 1
      BY <3>2, CountedAreThreads, OneLess
    <3>4. RoomAwaited'
      BY <1>1, <2>1, <3>2, <3>3 DEF RoomAwaited
    <3> QED
      BY <3>2, <3>4 DEF ItemsAwaited
  <2>6. ASSUME NEW w \in WaitingEmpty,
               pc' \in [Threads -> Labels], pc'[p] = "leave", pc'[w] = "woken", w # p,
               \A u \in Threads : u # p /\ u # w => pc'[u] = pc[u]
        PROVE  ItemsAwaited' /\ RoomAwaited'
    <3>1. w \in Consumers /\ w \in Threads /\ w \notin Producers /\ w \notin Coming
      BY <2>2, Sides DEF Coming, OnTheWay
    <3>2. Coming \cup {w} \subseteq Coming' /\ WaitingEmpty' \subseteq WaitingEmpty
      BY <1>1, <2>6, <3>1, Sides DEF Coming, WaitingEmpty, OnTheWay
    <3>3. /\ Cardinality(Coming) \in Nat /\ Cardinality(Coming') \in Nat
          /\ Cardinality(Coming) + 1 <= Cardinality(Coming')
      BY <3>1, <3>2, CountedAreThreads, OneMore
    <3>4. ItemsAwaited'
      BY <1>1, <2>1, <3>2, <3>3 DEF ItemsAwaited
    <3>5. Filling \ {p} \subseteq Filling' /\ WaitingFull' \subseteq WaitingFull
      BY <1>1, <2>6, <3>1, Sides DEF Filling, WaitingFull
    <3>6. /\ Cardinality(Filling) \in Nat /\ Cardinality(Filling') \in Nat
          /\ Cardinality(Filling) <= Cardinality(Filling') + 1
      BY <3>5, CountedAreThreads, OneLess
    <3>7. RoomAwaited'
      BY <1>1, <2>1, <3>5, <3>6 DEF RoomAwaited
    <3> QED
      BY <3>4, <3>7
  <2>7. CASE kind # "safe"
    <3>1. Notify(p, "leave", WaitingEmpty) /\ pc[p] # "wait" /\ "leave" \in Labels
      BY <1>1, <1>3, <2>7 DEF Labels
    <3>2. \/ WaitingEmpty = {} /\ Goto(p, "leave")
          \/ \E w \in WaitingEmpty :
                /\ pc' \in [Threads -> Labels] /\ pc'[p] = "leave" /\ pc'[w] = "woken" /\ w # p
                /\ \A u \in Threads : u # p /\ u # w => pc'[u] = pc[u]
      BY <1>1, <2>2, <3>1, Notified
    <3> QED
      BY <2>5, <2>6, <3>2
  <2> QED
    BY <2>4, <2>7
<1>4. CASE Len(sent) = Cardinality(Items) /\ Goto(p, "leave") /\ UNCHANGED <<queue, sent>>
  <2>1. pc' \in [Threads -> Labels] /\ pc'[p] = "leave" /\ \A u \in Threads : u # p => pc'[u] = pc[u]
    BY <1>1, <1>4, GotoPc DEF Labels
  <2>2. Coming \subseteq Coming' /\ WaitingEmpty' \subseteq WaitingEmpty
    BY <1>1, <2>1, Sides DEF Coming, WaitingEmpty, OnTheWay
  <2>3. ItemsAwaited'
    BY <1>1, <1>4, <2>2, ItemsKept
  <2>4. RoomAwaited'
    BY <1>1, <1>4 DEF RoomAwaited
  <2> QED
    BY <2>3, <2>4
<1> QED
  BY <1>2, <1>3, <1>4, Zenon DEF PutBody

\* take and pop: one item less has one consumer less; the new place has a
\* producer on its way, or nobody waits.
LEMMA WakeTake ==
    ASSUME TypeOK, ItemsAwaited, RoomAwaited, NEW c \in Consumers, TakeBody(c)
    PROVE  ItemsAwaited' /\ RoomAwaited'
<1>1. /\ c \in Threads /\ c \notin Producers /\ pc \in [Threads -> Labels] /\ pc[c] = "inside"
      /\ kind' = kind /\ sent' = sent
      /\ queue \in Seq(Items) /\ Len(queue) \in Nat /\ Capacity \in Nat
  BY QueueAssumption, Sides DEF TypeOK, TakeBody, Threads
<1>2. ASSUME NEW l \in {"wait", "undefined"}, queue = <<>>, queue' = queue, Goto(c, l)
      PROVE  ItemsAwaited' /\ RoomAwaited'
  <2>1. pc' \in [Threads -> Labels] /\ pc'[c] = l /\ \A u \in Threads : u # c => pc'[u] = pc[u]
    BY <1>1, <1>2, GotoPc DEF Labels
  <2>2. Filling \subseteq Filling' /\ WaitingFull' \subseteq WaitingFull
    BY <1>1, <2>1, Sides DEF Filling, WaitingFull
  <2> QED
    BY <1>1, <1>2, <2>2, ItemsNone, RoomKept
<1>3. CASE /\ queue # <<>> /\ TookOldest
           /\ IF kind = "bounded" THEN Notify(c, "leave", WaitingFull) ELSE Goto(c, "leave")
  <2>1. Len(queue') = Len(queue) - 1 /\ Len(queue) - 1 \in Nat
    BY <1>1, <1>3, HeadTail DEF TookOldest
  <2>2. WaitingFull \in SUBSET Threads /\ \A u \in WaitingFull : pc[u] = "wait" /\ u \in Producers
    BY Sides DEF WaitingFull
  <2>3. ASSUME \A u \in Consumers : u # c => pc'[u] = pc[u],
               \A u \in Producers : pc[u] \in {"leaveNotify", "notify"} => pc'[u] = pc[u],
               pc'[c] = "leave"
        PROVE  ItemsAwaited'
    <3>1. Coming \ {c} \subseteq Coming' /\ WaitingEmpty' \subseteq WaitingEmpty
      BY <1>1, <2>3, Sides DEF Coming, WaitingEmpty
    <3>2. /\ Cardinality(Coming) \in Nat /\ Cardinality(Coming') \in Nat
          /\ Cardinality(Coming) <= Cardinality(Coming') + 1
      BY <3>1, CountedAreThreads, OneLess
    <3> QED
      BY <1>1, <2>1, <3>1, <3>2 DEF ItemsAwaited
  <2>4. CASE Goto(c, "leave") /\ (kind # "bounded" \/ WaitingFull = {})
    <3>1. pc' \in [Threads -> Labels] /\ pc'[c] = "leave" /\ \A u \in Threads : u # c => pc'[u] = pc[u]
      BY <1>1, <2>4, GotoPc DEF Labels
    <3>2. ItemsAwaited'
      BY <1>1, <2>3, <3>1, Sides
    <3>3. WaitingFull' \subseteq WaitingFull
      BY <1>1, <3>1, Sides DEF WaitingFull
    <3> QED
      BY <1>1, <2>4, <3>2, <3>3 DEF RoomAwaited
  <2>5. ASSUME NEW w \in WaitingFull,
               pc' \in [Threads -> Labels], pc'[c] = "leave", pc'[w] = "woken", w # c,
               \A u \in Threads : u # c /\ u # w => pc'[u] = pc[u]
        PROVE  ItemsAwaited' /\ RoomAwaited'
    <3>1. w \in Producers /\ w \in Threads /\ w \notin Consumers /\ pc[w] = "wait" /\ w \notin Filling
      BY <2>2, Sides DEF Filling, OnTheWay
    <3>2. ItemsAwaited'
      BY <1>1, <2>3, <2>5, <3>1, Sides
    <3>3. Filling \cup {w} \subseteq Filling' /\ WaitingFull' \subseteq WaitingFull
      BY <1>1, <2>5, <3>1, Sides DEF Filling, WaitingFull, OnTheWay
    <3>4. /\ Cardinality(Filling) \in Nat /\ Cardinality(Filling') \in Nat
          /\ Cardinality(Filling) + 1 <= Cardinality(Filling')
      BY <3>1, <3>3, CountedAreThreads, OneMore
    <3>5. RoomAwaited'
      BY <1>1, <2>1, <3>3, <3>4 DEF RoomAwaited
    <3> QED
      BY <3>2, <3>5
  <2>6. CASE kind = "bounded"
    <3>1. Notify(c, "leave", WaitingFull) /\ pc[c] # "wait" /\ "leave" \in Labels
      BY <1>1, <1>3, <2>6 DEF Labels
    <3>2. \/ WaitingFull = {} /\ Goto(c, "leave")
          \/ \E w \in WaitingFull :
                /\ pc' \in [Threads -> Labels] /\ pc'[c] = "leave" /\ pc'[w] = "woken" /\ w # c
                /\ \A u \in Threads : u # c /\ u # w => pc'[u] = pc[u]
      BY <1>1, <2>2, <3>1, Notified
    <3> QED
      BY <2>4, <2>5, <3>2
  <2> QED
    BY <1>3, <2>4, <2>6
<1>4. CASE MustWait(c) /\ Wait(c) /\ UNCHANGED <<queue, taken>>
  BY <1>2, <1>4 DEF MustWait, Wait
<1>5. CASE queue = <<>> /\ Goto(c, "undefined") /\ UNCHANGED <<queue, taken>>
  BY <1>2, <1>5
<1> QED
  BY <1>3, <1>4, <1>5, Zenon DEF TakeBody

\* The notify of CThreadSafeQueue::push, after it let go of the mutex: the
\* producer that was still to notify gives way to the consumer it wakes.
LEMMA WakeLate ==
    ASSUME TypeOK, ItemsAwaited, RoomAwaited, NEW t \in Threads, NotifyLate(t)
    PROVE  ItemsAwaited' /\ RoomAwaited'
<1>1. /\ pc \in [Threads -> Labels] /\ pc[t] = "notify" /\ UNCHANGED <<kind, queue, sent>>
      /\ queue \in Seq(Items) /\ Len(queue) \in Nat
      /\ Notify(t, "idle", WaitingEmpty) /\ "idle" \in Labels
  BY DEF TypeOK, NotifyLate, data, Labels
<1>2. WaitingEmpty \in SUBSET Threads /\ \A u \in WaitingEmpty : pc[u] = "wait" /\ u \in Consumers
  BY Sides DEF WaitingEmpty
<1>3. \/ WaitingEmpty = {} /\ Goto(t, "idle")
      \/ \E w \in WaitingEmpty :
            /\ pc' \in [Threads -> Labels] /\ pc'[t] = "idle" /\ pc'[w] = "woken" /\ w # t
            /\ \A u \in Threads : u # t /\ u # w => pc'[u] = pc[u]
  BY <1>1, <1>2, Notified
<1>4. CASE WaitingEmpty = {} /\ Goto(t, "idle")
  <2>1. pc' \in [Threads -> Labels] /\ pc'[t] = "idle" /\ \A u \in Threads : u # t => pc'[u] = pc[u]
    BY <1>1, <1>4, GotoPc
  <2>2. /\ WaitingEmpty' = {} /\ Filling \subseteq Filling' /\ WaitingFull' \subseteq WaitingFull
    BY <1>1, <1>4, <2>1, Sides DEF WaitingEmpty, WaitingFull, Filling, OnTheWay
  <2> QED
    BY <1>1, <2>2, RoomKept DEF ItemsAwaited
<1>5. ASSUME NEW w \in WaitingEmpty,
             pc' \in [Threads -> Labels], pc'[t] = "idle", pc'[w] = "woken", w # t,
             \A u \in Threads : u # t /\ u # w => pc'[u] = pc[u]
      PROVE  ItemsAwaited' /\ RoomAwaited'
  <2>1. w \in Consumers /\ w \in Threads /\ w \notin Producers /\ w \notin Coming
    BY <1>2, Sides DEF Coming, OnTheWay
  <2>2. (Coming \ {t}) \cup {w} \subseteq Coming' /\ WaitingEmpty' \subseteq WaitingEmpty
    BY <1>1, <1>5, <2>1, Sides DEF Coming, WaitingEmpty, OnTheWay
  <2>3. /\ Cardinality(Coming) \in Nat /\ Cardinality(Coming') \in Nat
        /\ Cardinality(Coming) <= Cardinality(Coming')
    BY <2>1, <2>2, CountedAreThreads, Exchanged
  <2>4. ItemsAwaited'
    BY <1>1, <2>2, <2>3 DEF ItemsAwaited
  <2>5. Filling \subseteq Filling' /\ WaitingFull' \subseteq WaitingFull
    BY <1>1, <1>5, <2>1, Sides DEF Filling, WaitingFull, OnTheWay
  <2> QED
    BY <1>1, <2>4, <2>5, RoomKept
<1> QED
  BY <1>3, <1>4, <1>5

\* Every step leaves a thread on its way for each item and each place that is
\* waited for.
LEMMA WakeNext == TypeOK /\ ItemsAwaited /\ RoomAwaited /\ [Next]_vars => ItemsAwaited' /\ RoomAwaited'
<1> SUFFICES ASSUME TypeOK, ItemsAwaited, RoomAwaited, [Next]_vars PROVE ItemsAwaited' /\ RoomAwaited'
  OBVIOUS
<1>1. ASSUME NEW t \in Threads, Call(t) PROVE ItemsAwaited' /\ RoomAwaited'
  BY <1>1, QuietStep DEF Call, data, Labels, OnTheWay
<1>2. ASSUME NEW t \in Threads, Spurious(t) PROVE ItemsAwaited' /\ RoomAwaited'
  BY <1>2, QuietStep DEF Spurious, data, Labels, OnTheWay
<1>3. ASSUME NEW c \in Consumers, IsDestroyed(c) PROVE ItemsAwaited' /\ RoomAwaited'
  <2>1. c \in Threads
    BY DEF Threads
  <2> QED
    BY <1>3, <2>1, QuietStep DEF IsDestroyed, data, Labels, OnTheWay
<1>4. ASSUME NEW t \in Threads, Acquire(t) PROVE ItemsAwaited' /\ RoomAwaited'
  BY <1>4, QuietStep DEF Acquire, data, Labels, OnTheWay
<1>5. ASSUME NEW t \in Threads, AssignHolder(t) PROVE ItemsAwaited' /\ RoomAwaited'
  BY <1>5, QuietStep DEF AssignHolder, data, Labels, OnTheWay
<1>6. ASSUME NEW t \in Threads, Unlock(t) PROVE ItemsAwaited' /\ RoomAwaited'
  BY <1>6, QuietStep DEF Unlock, data, Labels, OnTheWay
<1>7. CASE Destroy
  <2>1. WaitingEmpty' = {}
    BY <1>7, Sides DEF Destroy, WaitingEmpty, TypeOK
  <2>2. kind' = "safe"
    BY <1>7 DEF Destroy
  <2> QED
    BY <2>1, <2>2 DEF ItemsAwaited, RoomAwaited
<1>8. ASSUME NEW c \in Consumers, Drain(c) PROVE ItemsAwaited' /\ RoomAwaited'
  <2>1. queue' = <<>> /\ kind' = "blocking"
    BY <1>8 DEF Drain
  <2> QED
    BY <2>1, ItemsNone DEF RoomAwaited
<1>9. CASE UNCHANGED vars
  BY <1>9 DEF ItemsAwaited, RoomAwaited, Coming, Filling, WaitingEmpty, WaitingFull, vars
<1> QED
  BY <1>1, <1>2, <1>3, <1>4, <1>5, <1>6, <1>7, <1>8, <1>9, WakePut, WakeTake, WakeLate DEF Next, Step

\* One notify for each item and each place is enough, before or after the
\* mutex is let go of, whoever gets the mutex and whatever wakes up unnotified:
\* nobody sleeps while there is more in the queue, or more room, than threads
\* on their way to it.
THEOREM NobodyOversleeps == Spec => []NoWakeUpLost
<1>1. Init => ItemsAwaited /\ RoomAwaited
  BY DEF Init, ItemsAwaited, RoomAwaited, WaitingEmpty, WaitingFull, Threads
<1>2. Inv => TypeOK
  BY DEF Inv
<1>3. ItemsAwaited /\ RoomAwaited => NoWakeUpLost
  BY DEF ItemsAwaited, RoomAwaited, NoWakeUpLost
<1> QED
  BY <1>1, <1>2, <1>3, WakeNext, AlwaysInv, PTL DEF Spec
=============================================================================
