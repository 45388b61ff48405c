------------------------------ MODULE SyncQueue -----------------------------
(***************************************************************************)
(* The queues between threads: CThreadSafeQueue ("safe"), and muduo's      *)
(* BlockingQueue ("blocking") and BoundedBlockingQueue ("bounded") with    *)
(* the MutexLock and the Condition they are built of.                      *)
(*                                                                         *)
(* A thread acquires the mutex, becomes its holder, does the body of its   *)
(* call or waits on a condition, and lets go.  CThreadSafeQueue::push      *)
(* notifies only after it let go.  A condition may wake a thread without   *)
(* being notified.                                                         *)
(***************************************************************************)
EXTENDS Integers, Sequences, FiniteSets

CONSTANTS
    Producers, Consumers,
    Items,       \* what is put in, each once
    Capacity,    \* maxSize of a BoundedBlockingQueue
    MaxSpurious, \* bound: wake-ups without a notification
    None         \* no thread

Threads == Producers \cup Consumers

ASSUME QueueAssumption ==
    /\ Producers \cap Consumers = {} /\ None \notin Threads
    /\ IsFiniteSet(Threads) /\ IsFiniteSet(Items)
    /\ Capacity \in Nat \ {0} /\ MaxSpurious \in Nat

VARIABLES
    kind,      \* which of the three
    mutex,     \* the thread that has the mutex
    holder,    \* MutexLock's holder_
    queue,
    destroyed, \* m_isDestroyed
    pc,        \* where each thread is
    spurious,  \* wake-ups without a notification so far
    sent,      \* history: items in the order they were put in
    taken      \* history: items in the order they were taken

vars == <<kind, mutex, holder, queue, destroyed, pc, spurious, sent, taken>>
data == <<kind, queue, destroyed, sent, taken>>

F == INSTANCE Fifo WITH in <- sent, buffer <- queue, out <- taken

Goto(t, l) == pc' = [pc EXCEPT ![t] = l]

\* Threads that wait on notEmpty and on notFull.
WaitingEmpty == { c \in Consumers : pc[c] = "wait" }
WaitingFull == { p \in Producers : pc[p] = "wait" }

-----------------------------------------------------------------------------
(* Mutants: plausible mistakes in the definitions below.                   *)

\* An if for the loop: a thread that woke unnotified does not wait again.
MustWaitOnce(c) == queue = <<>> /\ ~destroyed /\ spurious = 0
TookNewest == /\ queue' = SubSeq(queue, 1, Len(queue) - 1)
              /\ taken' = Append(taken, queue[Len(queue)])
NotifyNobody(t, l, waiting) == Goto(t, l)
NotifyNotProducers(t, l, waiting) ==
    \/ waiting \cap Consumers = {} /\ Goto(t, l)
    \/ \E w \in waiting \cap Consumers : pc' = [pc EXCEPT ![t] = l, ![w] = "woken"]
WaitKeepsHolder(t) == mutex' = None /\ Goto(t, "wait") /\ UNCHANGED holder
-----------------------------------------------------------------------------
Full == kind = "bounded" /\ Len(queue) >= Capacity

Init ==
    /\ kind \in {"safe", "blocking", "bounded"}
    /\ mutex = None /\ holder = None
    /\ queue = <<>> /\ destroyed = FALSE
    /\ pc = [t \in Threads |-> "idle"]
    /\ spurious = 0
    /\ sent = <<>> /\ taken = <<>>

\* t calls put, take or drain.
Call(t) ==
    /\ pc[t] = "idle"
    /\ t \in Producers => Len(sent) < Cardinality(Items)
    /\ Goto(t, "call")
    /\ UNCHANGED <<data, mutex, holder, spurious>>

\* pthread_mutex_lock, when a call begins or a wait ends.
Acquire(t) ==
    /\ pc[t] \in {"call", "woken"} /\ mutex = None
    /\ mutex' = t
    /\ Goto(t, "acquired")
    /\ UNCHANGED <<data, holder, spurious>>

\* assignHolder, after lock() or at the end of UnassignGuard.
AssignHolder(t) ==
    /\ pc[t] = "acquired"
    /\ holder' = t
    /\ Goto(t, "inside")
    /\ UNCHANGED <<data, mutex, spurious>>

\* Condition::wait: no longer the holder, and the mutex is let go of.
Wait(t) ==
    /\ holder' = None /\ mutex' = None
    /\ Goto(t, "wait")

\* notify on a condition while t goes on to l: one of those that wait on it
\* wakes up, if any does.
Notify(t, l, waiting) ==
    \/ waiting = {} /\ Goto(t, l)
    \/ \E w \in waiting : pc' = [pc EXCEPT ![t] = l, ![w] = "woken"]

\* push_back; the bounded queue waits on notFull first.
PutBody(p) ==
    /\ pc[p] = "inside"
    /\ \/ Full /\ Wait(p) /\ UNCHANGED <<queue, sent>>
       \/ /\ ~Full
          /\ \E v \in Items :
                /\ \A i \in 1..Len(sent) : sent[i] # v
                /\ queue' = Append(queue, v)
                /\ sent' = Append(sent, v)
          /\ IF kind = "safe" THEN Goto(p, "leaveNotify")
                              ELSE Notify(p, "leave", WaitingEmpty)
          /\ UNCHANGED <<mutex, holder>>
       \/ \* every item was put in by other calls meanwhile
          /\ ~Full /\ Len(sent) = Cardinality(Items)
          /\ Goto(p, "leave") /\ UNCHANGED <<queue, sent, mutex, holder>>
    /\ UNCHANGED <<kind, destroyed, spurious, taken>>

\* The condition of the loop around notEmpty.wait().
MustWait(c) == queue = <<>> /\ ~destroyed

\* pop or take: what follows the loop.  Only a destroyed CThreadSafeQueue
\* gets here empty, and takes the front of nothing.
TookOldest == queue' = Tail(queue) /\ taken' = Append(taken, Head(queue))

TakeBody(c) ==
    /\ pc[c] = "inside"
    /\ \/ MustWait(c) /\ Wait(c) /\ UNCHANGED <<queue, taken>>
       \/ /\ ~MustWait(c) /\ queue # <<>>
          /\ TookOldest
          /\ IF kind = "bounded" THEN Notify(c, "leave", WaitingFull) ELSE Goto(c, "leave")
          /\ UNCHANGED <<mutex, holder>>
       \/ /\ ~MustWait(c) /\ queue = <<>>
          /\ Goto(c, "undefined")
          /\ UNCHANGED <<queue, taken, mutex, holder>>
    /\ UNCHANGED <<kind, destroyed, spurious, sent>>

\* BlockingQueue::drain takes all there is and never waits.
Drain(c) ==
    /\ pc[c] = "inside" /\ kind = "blocking"
    /\ queue' = <<>> /\ taken' = taken \o queue
    /\ Goto(c, "leave")
    /\ UNCHANGED <<kind, destroyed, sent, mutex, holder, spurious>>

\* unlock; CThreadSafeQueue::push notifies after it.
Unlock(t) ==
    /\ pc[t] \in {"leave", "leaveNotify"}
    /\ holder' = None /\ mutex' = None
    /\ Goto(t, IF pc[t] = "leave" THEN "idle" ELSE "notify")
    /\ UNCHANGED <<data, spurious>>

NotifyLate(p) ==
    /\ pc[p] = "notify"
    /\ Notify(p, "idle", WaitingEmpty)
    /\ UNCHANGED <<data, mutex, holder, spurious>>

Spurious(t) ==
    /\ pc[t] = "wait" /\ spurious < MaxSpurious
    /\ spurious' = spurious + 1
    /\ Goto(t, "woken")
    /\ UNCHANGED <<data, mutex, holder>>

\* CThreadSafeQueue::destroy wakes all that wait.
Destroy ==
    /\ kind = "safe" /\ ~destroyed /\ mutex = None
    /\ destroyed' = TRUE
    /\ pc' = [t \in Threads |-> IF t \in WaitingEmpty THEN "woken" ELSE pc[t]]
    /\ UNCHANGED <<kind, queue, sent, taken, mutex, holder, spurious>>

\* A consumer that asks isDestroyed before it pops, and stops.
IsDestroyed(c) ==
    /\ pc[c] = "idle" /\ destroyed /\ mutex = None
    /\ Goto(c, "stopped")
    /\ UNCHANGED <<data, mutex, holder, spurious>>

\* Undefined behaviour ends what can be said of the process.
Defined == \A c \in Consumers : pc[c] # "undefined"

Step(t) ==
    /\ Defined
    /\ \/ Acquire(t) \/ AssignHolder(t) \/ Unlock(t) \/ NotifyLate(t)
       \/ t \in Producers /\ PutBody(t)
       \/ t \in Consumers /\ TakeBody(t)

Next ==
    \/ \E t \in Threads : Step(t) \/ (Defined /\ (Call(t) \/ Spurious(t)))
    \/ Defined /\ Destroy
    \/ \E c \in Consumers : Defined /\ (Drain(c) \/ IsDestroyed(c))

\* The system runs every thread that can go on, and consumers call again when
\* they are done.  Nothing is assumed of who gets the mutex.
Fairness ==
    /\ \A t \in Threads : WF_vars(Step(t))
    /\ \A c \in Consumers : WF_vars(Defined /\ Call(c))

Spec == Init /\ [][Next]_vars /\ Fairness

-----------------------------------------------------------------------------
(* Properties.                                                             *)

\* Whatever the interleaving of locking, waiting and waking, each of the
\* three behaves as a FIFO queue: the order of the items is the order in
\* which the calls had the mutex, and none is lost or taken twice.  A
\* BoundedBlockingQueue never has more than its capacity, so that its
\* circular_buffer never overwrites an item.
IsFifo == F!Spec /\ [](kind = "bounded" => Len(queue) <= Capacity)

\* One thread at a time is inside, and isLockedByThisThread holds only for the
\* one that has the mutex, also while others wait on a condition:
\* UnassignGuard is in time.
HolderHasMutex ==
    /\ holder # None => holder = mutex
    /\ \A t \in Threads :
          pc[t] \in {"acquired", "inside", "leave", "leaveNotify"} => mutex = t

\* The front of an empty queue is taken in one case only: pop on a
\* CThreadSafeQueue that was destroyed, and that the consumers emptied.
UndefinedOnlyDestroyed == ~Defined => kind = "safe" /\ destroyed /\ queue = <<>>

\* Threads that have not yet looked for an item or for room, or that are about
\* to notify those who wait for an item.
OnTheWay == {"call", "woken", "acquired", "inside"}
Coming == { c \in Consumers : pc[c] \in OnTheWay }
              \cup { p \in Producers : pc[p] \in {"leaveNotify", "notify"} }
Filling == { p \in Producers : pc[p] \in OnTheWay }

\* A notify for each item and for each place is enough: while a consumer waits,
\* for every item in the queue there is a consumer on its way or a producer
\* still to notify, and while a producer waits that has an item to put in, for
\* every free place there is a producer on its way.  A wake-up that is given to
\* nobody, or to a thread that has no use for it, leaves nobody asleep.
NoWakeUpLost ==
    /\ WaitingEmpty # {} => Len(queue) <= Cardinality(Coming)
    /\ kind = "bounded" /\ WaitingFull # {} /\ Len(sent) < Cardinality(Items)
          => Capacity - Len(queue) <= Cardinality(Filling)

\* No notification is lost: an item that waits is taken, whether the producer
\* notifies before or after it unlocks, unless every consumer has stopped.
EveryItemTaken ==
    \A v \in Items :
        (\E i \in 1..Len(sent) : sent[i] = v)
            ~> \/ \E i \in 1..Len(taken) : taken[i] = v
               \/ ~Defined \/ \A c \in Consumers : pc[c] = "stopped"

\* A producer that waits for room gets it, and one that waits for the mutex
\* does too, except that consumers of a BlockingQueue which drain it over and
\* over could keep it from the mutex.
EveryPutReturns ==
    \A p \in Producers :
        (pc[p] # "idle" /\ kind # "blocking") ~> (pc[p] = "idle" \/ ~Defined)
=============================================================================
