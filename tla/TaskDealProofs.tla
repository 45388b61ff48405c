--------------------------- MODULE TaskDealProofs ---------------------------
(***************************************************************************)
(* What holds of TaskDeal for any number of packets, network threads and   *)
(* workers and for every build.                                            *)
(***************************************************************************)
EXTENDS TaskDeal, SequenceTheorems, TLAPS

\* A thread is in ExcuteTask.
Executes(x) == stage[x] \in {"begin", "insert"}

\* The values the variables take; a thread has a packet exactly while it is in
\* ExcuteTask.
TypeOK ==
    /\ build \in Builds /\ content \in Contents
    /\ proc \in {"setup", "up", "exited", "aborted"}
    /\ pdbCtl \in {"null", "wild", "set"}
    /\ pftpCtl \in {"null", "wild", "set"}
    /\ threads \subseteq Workers
    /\ queue \in Seq(Tasks) /\ handed \in Seq(Tasks) /\ given \in Seq(Tasks)
    /\ doing \in [Threads -> Tasks \cup {None}]
    /\ stage \in [Threads -> {"idle", "begin", "insert", "leave"}]
    /\ \A x \in Threads : Executes(x) <=> (doing[x] # None)
    /\ ended \subseteq Tasks
    /\ rows \in Seq([task : Tasks, table : Versions])

\* The first element of a sequence and the rest.
LEMMA HeadTail ==
    ASSUME NEW S, NEW s \in Seq(S), s # <<>>
    PROVE  /\ Len(s) \in Nat /\ Len(s) >= 1
           /\ Head(s) = s[1] /\ Head(s) \in S
           /\ Tail(s) \in Seq(S) /\ Len(Tail(s)) = Len(s) - 1
           /\ \A i \in 1..Len(Tail(s)) : Tail(s)[i] = s[i + 1]
OBVIOUS

\* An element behind the others.
LEMMA Appended ==
    ASSUME NEW S, NEW s \in Seq(S), NEW e \in S
    PROVE  /\ Append(s, e) \in Seq(S) /\ Len(s) \in Nat
           /\ Len(Append(s, e)) = Len(s) + 1
           /\ Append(s, e)[Len(s) + 1] = e
           /\ \A i \in 1..Len(s) : Append(s, e)[i] = s[i]
OBVIOUS

\* "No packet" is none of the packets.
LEMMA NoneIsNoTask == None \notin Tasks
BY TaskAssumption, Zenon

\* DataInsert makes the name of a table for every packet.
LEMMA TableIsVersion == \A t \in Tasks : InsertTable(t) \in Versions
BY DEF InsertTable, InitVerTableName, Versions

\* main begins with no packet anywhere.
LEMMA TypeInit == Init => TypeOK
BY DEF Init, TypeOK, Executes

\* A thread is done with its packet.
LEMMA TypeReturn ==
    ASSUME TypeOK, NEW x \in Threads, Executes(x), Return(x),
           rows' \in Seq([task : Tasks, table : Versions])
    PROVE  TypeOK'
<1>1. doing[x] \in Tasks
  BY DEF TypeOK
<1> QED
  BY <1>1 DEF TypeOK, Executes, Return, ctl, pool

\* A thread ends the process.
LEMMA TypeDie ==
    ASSUME TypeOK, NEW x \in Threads, Executes(x), NEW how \in {"exited", "aborted"},
           Die(x, how)
    PROVE  TypeOK'
<1>1. doing[x] \in Tasks
  BY DEF TypeOK
<1> QED
  BY <1>1 DEF TypeOK, Executes, Die, ctl, pool

\* A network thread hands a packet over.
LEMMA TypeSolveTask ==
    ASSUME TypeOK, NEW io \in IoThreads, NEW t \in Tasks, SolveTask(io, t)
    PROVE  TypeOK'
<1>1. io \in Threads /\ t # None
  BY NoneIsNoTask DEF Threads
<1>2. handed' \in Seq(Tasks)
  BY Appended DEF TypeOK, SolveTask
<1>3. CASE SolveTaskInline(io, t)
  <2>1. given' \in Seq(Tasks) /\ queue' = queue
    BY <1>3, Appended DEF TypeOK, SolveTaskInline
  <2> QED
    BY <1>1, <1>2, <1>3, <2>1 DEF TypeOK, Executes, SolveTask, SolveTaskInline, ctl
<1>4. CASE SolveTaskQueued(io, t)
  <2>1. queue' \in Seq(Tasks) /\ given' = given
    BY <1>4, Appended DEF TypeOK, SolveTaskQueued
  <2> QED
    BY <1>1, <1>2, <1>4, <2>1 DEF TypeOK, Executes, SolveTask, SolveTaskQueued, ctl
<1> QED
  BY <1>3, <1>4 DEF SolveTask

\* Every step keeps the types.
LEMMA TypeNext == TypeOK /\ [Next]_vars => TypeOK'
<1> SUFFICES ASSUME TypeOK, [Next]_vars PROVE TypeOK'
  OBVIOUS
<1>1. CASE SetSqlCtl
  BY <1>1 DEF TypeOK, Executes, SetSqlCtl, pool
<1>2. CASE SetFtpCtl
  BY <1>2 DEF TypeOK, Executes, SetFtpCtl, pool
<1>3. CASE StartServer
  BY <1>3 DEF TypeOK, Executes, StartServer, ctl, pool
<1>4. ASSUME NEW w \in Workers, Start(w) PROVE TypeOK'
  BY <1>4 DEF TypeOK, Executes, Start, ctl
<1>5. ASSUME NEW w \in Workers, Take(w) PROVE TypeOK'
  <2>1. Head(queue) \in Tasks /\ Tail(queue) \in Seq(Tasks)
    BY <1>5, HeadTail DEF TypeOK, Take
  <2>2. Append(given, Head(queue)) \in Seq(Tasks)
    BY <2>1, Appended DEF TypeOK
  <2>3. w \in Threads /\ Head(queue) # None
    BY <2>1, NoneIsNoTask DEF Threads
  <2> QED
    BY <1>5, <2>1, <2>2, <2>3 DEF TypeOK, Executes, Take, ctl
<1>6. ASSUME NEW io \in IoThreads, NEW t \in Tasks, SolveTask(io, t) PROVE TypeOK'
  BY <1>6, TypeSolveTask
<1>7. ASSUME NEW io \in IoThreads, LeaveSolveTask(io) PROVE TypeOK'
  <2>1. io \in Threads
    BY DEF Threads
  <2> QED
    BY <1>7, <2>1 DEF TypeOK, Executes, LeaveSolveTask, ctl, pool
<1>8. ASSUME NEW x \in Threads, ExcuteTask(x) PROVE TypeOK'
  <2>1. CASE ExcuteBackup(x)
    <3>1. Executes(x) /\ rows' = rows
      BY <2>1 DEF Executes, ExcuteBackup, Die
    <3> QED
      BY <2>1, <3>1, TypeReturn, TypeDie DEF ExcuteBackup, TypeOK
  <2>2. CASE ExcuteUnknown(x)
    <3>1. Executes(x)
      BY <2>2 DEF Executes, ExcuteUnknown
    <3> QED
      BY <2>2, <3>1, TypeReturn DEF ExcuteUnknown, TypeOK
  <2>3. CASE ExcuteParse(x)
    <3>1. Executes(x)
      BY <2>3 DEF Executes, ExcuteParse
    <3>2. CASE Die(x, "exited") \/ Die(x, "aborted")
      BY <3>1, <3>2, TypeDie
    <3>3. CASE /\ stage' = [stage EXCEPT ![x] = "insert"]
               /\ UNCHANGED <<proc, ctl, pool, doing, ended, rows>>
      BY <3>1, <3>3 DEF TypeOK, Executes, ctl, pool
    <3> QED
      BY <2>3, <3>2, <3>3, Zenon DEF ExcuteParse
  <2>4. CASE ExcuteInsert(x)
    <3>1. Executes(x) /\ doing[x] \in Tasks
      BY <2>4 DEF Executes, ExcuteInsert, TypeOK
    <3> DEFINE Rows == [task : Tasks, table : Versions]
               row == [task |-> doing[x], table |-> InsertTable(doing[x])]
    <3>2. row \in Rows
      BY <3>1, TableIsVersion
    <3>3. rows \in Seq(Rows) /\ (rows' = Append(rows, row) \/ rows' = rows)
      BY <2>4, Zenon DEF ExcuteInsert, TypeOK
    <3>4. rows' \in Seq(Rows)
      <4> HIDE DEF Rows, row
      <4> QED
        BY <3>2, <3>3, Appended
    <3> QED
      BY <2>4, <3>1, <3>4, TypeReturn, Zenon DEF ExcuteInsert
  <2> QED
    BY <1>8, <2>1, <2>2, <2>3, <2>4 DEF ExcuteTask
<1>9. CASE UNCHANGED vars
  BY <1>9 DEF TypeOK, Executes, vars
<1> QED
  BY <1>1, <1>2, <1>3, <1>4, <1>5, <1>6, <1>7, <1>8, <1>9 DEF Next

\* The variables keep their types and a thread has a packet exactly while it is
\* in ExcuteTask, for any number of threads.
THEOREM TypeCorrect == Spec => []TypeOK
<1>1. Init => TypeOK
  BY TypeInit
<1>2. TypeOK /\ [Next]_vars => TypeOK'
  BY TypeNext
<1> QED
  BY <1>1, <1>2, PTL DEF Spec

-----------------------------------------------------------------------------
(* Where a packet is.  What SolveTask got is what was given to a thread,   *)
(* then what waits in the queue, each packet once; and what was given has  *)
(* ended or is with exactly one thread.                                    *)

\* The packets given to a thread so far are the first that arrived, those in
\* the queue the others.  The queue is empty while a network thread executes
\* what it gets: no packet overtakes another.
SeqInv ==
    /\ Len(handed) = Len(given) + Len(queue)
    /\ \A i \in 1..Len(given) : handed[i] = given[i]
    /\ \A i \in 1..Len(queue) : handed[Len(given) + i] = queue[i]
    /\ \A i, j \in 1..Len(handed) : handed[i] = handed[j] => i = j
    /\ threads = {} => queue = <<>>

\* An element is in a sequence.
In(s, e) == \E i \in 1..Len(s) : s[i] = e

\* A packet that was given is with one thread, or has ended.
PlaceInv ==
    /\ \A t \in ended : In(given, t)
    /\ \A x \in Threads : doing[x] # None => In(given, doing[x])
    /\ \A i \in 1..Len(given) : given[i] \in ended \/ \E x \in Threads : doing[x] = given[i]
    /\ \A x, y \in Threads : doing[x] = doing[y] /\ doing[x] # None => x = y
    /\ proc = "up" => \A x \in Threads : doing[x] \notin ended
    /\ proc = "setup" => ended = {}

\* A worker takes the oldest packet: it moves from the queue to those given.
LEMMA SeqTake ==
    ASSUME TypeOK, SeqInv, NEW w \in Workers, Take(w)
    PROVE  SeqInv' /\ ~In(given, Head(queue))
<1> DEFINE t == Head(queue)
           g == Append(given, t)
           q == Tail(queue)
<1>1. /\ queue \in Seq(Tasks) /\ queue # <<>> /\ given \in Seq(Tasks)
      /\ queue' = q /\ handed' = handed /\ given' = g /\ threads # {}
      /\ threads' = threads
  BY DEF Take, TypeOK
<1>2. /\ Len(queue) \in Nat /\ Len(queue) >= 1 /\ t = queue[1] /\ t \in Tasks
      /\ Len(q) = Len(queue) - 1
      /\ \A i \in 1..Len(q) : q[i] = queue[i + 1]
  BY <1>1, HeadTail
<1>3. /\ Len(given) \in Nat /\ Len(g) = Len(given) + 1 /\ g[Len(given) + 1] = t
      /\ \A i \in 1..Len(given) : g[i] = given[i]
  BY <1>1, <1>2, Appended
<1> HIDE DEF t, g, q
<1>4. /\ Len(handed) = Len(given) + Len(queue)
      /\ \A i \in 1..Len(given) : handed[i] = given[i]
      /\ \A i \in 1..Len(queue) : handed[Len(given) + i] = queue[i]
      /\ \A i, j \in 1..Len(handed) : handed[i] = handed[j] => i = j
  BY DEF SeqInv
<1>5. Len(handed) = Len(g) + Len(q)
  BY <1>2, <1>3, <1>4
<1>6. handed[Len(given) + 1] = t
  BY <1>2, <1>3, <1>4
<1>7. \A i \in 1..Len(g) : handed[i] = g[i]
  <2>1. \A i \in 1..Len(g) : i \in 1..Len(given) \/ i = Len(given) + 1
    BY <1>3
  <2> QED
    BY <1>3, <1>4, <1>6, <2>1, Zenon
<1>8. ASSUME NEW i \in 1..Len(q) PROVE handed[Len(g) + i] = q[i]
  <2>1. i \in Int /\ Len(q) = Len(queue) - 1 /\ Len(queue) \in Nat /\ Len(given) \in Nat
    BY <1>2, <1>3
  <2>2. i + 1 \in 1..Len(queue) /\ (Len(given) + 1) + i = Len(given) + (i + 1)
    BY <2>1
  <2>3. handed[Len(given) + (i + 1)] = queue[i + 1]
    BY <1>4, <2>2
  <2> QED
    BY <1>2, <1>3, <2>2, <2>3
<1>9. ASSUME NEW i \in 1..Len(given) PROVE given[i] # t
  <2>1. i \in 1..Len(handed) /\ Len(given) + 1 \in 1..Len(handed) /\ i # Len(given) + 1
    BY <1>2, <1>3, <1>4
  <2>2. handed[i] # handed[Len(given) + 1]
    BY <1>4, <2>1
  <2> QED
    BY <1>4, <1>6, <2>2
<1>10. SeqInv'
  BY <1>1, <1>4, <1>5, <1>7, <1>8 DEF SeqInv
<1> QED
  BY <1>9, <1>10 DEF In, t

\* SolveTask gets one more packet, which goes behind all others.
LEMMA SeqSolveTask ==
    ASSUME TypeOK, SeqInv, NEW io \in IoThreads, NEW t \in Tasks, SolveTask(io, t)
    PROVE  SeqInv' /\ ~In(given, t)
<1> DEFINE h == Append(handed, t)
<1>1. /\ queue \in Seq(Tasks) /\ handed \in Seq(Tasks) /\ given \in Seq(Tasks)
      /\ handed' = h /\ threads' = threads
      /\ \A i \in 1..Len(handed) : handed[i] # t
  BY DEF SolveTask, TypeOK, Arrived
<1>2. /\ Len(handed) \in Nat /\ Len(h) = Len(handed) + 1 /\ h[Len(handed) + 1] = t
      /\ \A i \in 1..Len(handed) : h[i] = handed[i]
  BY <1>1, Appended
<1> HIDE DEF h
<1>3. /\ Len(handed) = Len(given) + Len(queue)
      /\ \A i \in 1..Len(given) : handed[i] = given[i]
      /\ \A i \in 1..Len(queue) : handed[Len(given) + i] = queue[i]
      /\ \A i, j \in 1..Len(handed) : handed[i] = handed[j] => i = j
      /\ threads = {} => queue = <<>>
  BY DEF SeqInv
<1>4. Len(given) \in Nat /\ Len(queue) \in Nat
  BY <1>1
<1>5. \A i, j \in 1..Len(h) : h[i] = h[j] => i = j
  <2>1. \A i \in 1..Len(handed) : h[i] = handed[i] /\ handed[i] # t
    BY <1>1, <1>2, Zenon
  <2>2. Len(handed) \in Nat /\ h[Len(handed) + 1] = t /\ Len(h) = Len(handed) + 1
    BY <1>2, Zenon
  <2>3. \A i, j \in 1..Len(handed) : handed[i] = handed[j] => i = j
    BY <1>3, Zenon
  <2>4. \A i \in 1..Len(h) : i \in 1..Len(handed) \/ i = Len(handed) + 1
    BY <2>2
  <2> QED
    BY <2>1, <2>2, <2>3, <2>4, Zenon
<1>6. \A i \in 1..Len(given) : i \in 1..Len(handed) /\ h[i] = given[i] /\ given[i] # t
  BY <1>1, <1>2, <1>3, <1>4
<1>7. CASE SolveTaskInline(io, t)
  <2> DEFINE g == Append(given, t)
  <2>1. given' = g /\ queue' = queue /\ threads = {} /\ queue = <<>>
    BY <1>3, <1>7 DEF SolveTaskInline, RunsInline
  <2>2. Len(g) = Len(given) + 1 /\ g[Len(given) + 1] = t
        /\ \A i \in 1..Len(given) : g[i] = given[i]
    BY <1>1, Appended
  <2> HIDE DEF g
  <2>3. Len(queue) = 0
    BY <2>1
  <2>4. Len(h) = Len(g) + Len(queue) /\ h[Len(given) + 1] = t
    BY <1>2, <1>3, <1>4, <2>2, <2>3
  <2>5. \A i \in 1..Len(g) : i \in 1..Len(given) \/ i = Len(given) + 1
    BY <1>4, <2>2
  <2>6. \A i \in 1..Len(g) : h[i] = g[i]
    BY <1>6, <2>2, <2>4, <2>5, Zenon
  <2>7. \A i \in 1..Len(queue) : h[Len(g) + i] = queue[i]
    BY <2>3
  <2> QED
    BY <1>1, <1>5, <1>6, <2>1, <2>4, <2>6, <2>7 DEF SeqInv, In
<1>8. CASE SolveTaskQueued(io, t)
  <2> DEFINE q == Append(queue, t)
  <2>1. given' = given /\ queue' = q /\ threads # {}
    BY <1>8 DEF SolveTaskQueued, RunsInline
  <2>2. Len(q) = Len(queue) + 1 /\ q[Len(queue) + 1] = t
        /\ \A i \in 1..Len(queue) : q[i] = queue[i]
    BY <1>1, Appended
  <2> HIDE DEF q
  <2>3. Len(h) = Len(given) + Len(q) /\ h[Len(given) + (Len(queue) + 1)] = t
    BY <1>2, <1>3, <1>4, <2>2
  <2>4. \A i \in 1..Len(queue) : Len(given) + i \in 1..Len(handed)
    BY <1>3, <1>4
  <2>5. \A i \in 1..Len(q) : i \in 1..Len(queue) \/ i = Len(queue) + 1
    BY <1>4, <2>2
  <2>6. \A i \in 1..Len(q) : h[Len(given) + i] = q[i]
    BY <1>2, <1>3, <2>2, <2>3, <2>4, <2>5, Zenon
  <2> QED
    BY <1>1, <1>5, <1>6, <2>1, <2>3, <2>6 DEF SeqInv, In
<1> QED
  BY <1>7, <1>8 DEF SolveTask

\* A thread begins a packet that no thread was given before.
LEMMA PlaceBegin ==
    ASSUME TypeOK, PlaceInv, NEW x \in Threads, NEW t \in Tasks, doing[x] = None,
           ~In(given, t), proc = "up", proc' = proc, ended' = ended,
           given' = Append(given, t), doing' = [doing EXCEPT ![x] = t]
    PROVE  PlaceInv'
<1>1. \A y \in Threads : doing'[y] = IF y = x THEN t ELSE doing[y]
  BY DEF TypeOK
<1>2. /\ Len(given) \in Nat /\ Len(given') = Len(given) + 1 /\ given'[Len(given) + 1] = t
      /\ \A i \in 1..Len(given) : given'[i] = given[i]
  BY Appended DEF TypeOK
<1>3. \A s : In(given, s) => In(given', s)
  BY <1>2 DEF In
<1>4. In(given', t)
  BY <1>2 DEF In
<1>5. t # None /\ t \notin ended /\ \A y \in Threads : doing[y] # t
  BY NoneIsNoTask DEF PlaceInv
<1>6. \A s \in ended' : In(given', s)
  BY <1>3 DEF PlaceInv
<1>7. \A y \in Threads : doing'[y] # None => In(given', doing'[y])
  <2> SUFFICES ASSUME NEW y \in Threads, doing'[y] # None PROVE In(given', doing'[y])
    OBVIOUS
  <2>1. CASE y = x
    BY <1>1, <1>4, <2>1
  <2>2. CASE y # x
    <3>1. doing'[y] = doing[y] /\ In(given, doing[y])
      BY <1>1, <2>2 DEF PlaceInv
    <3> QED
      BY <1>3, <3>1
  <2> QED
    BY <2>1, <2>2
<1>8. ASSUME NEW i \in 1..Len(given')
      PROVE  given'[i] \in ended \/ \E y \in Threads : doing'[y] = given'[i]
  <2>1. CASE i = Len(given) + 1
    BY <1>1, <1>2, <2>1
  <2>2. CASE i \in 1..Len(given)
    <3>1. given'[i] \in ended \/ \E y \in Threads : doing[y] = given'[i]
      BY <1>2, <2>2 DEF PlaceInv
    <3>2. given'[i] # None
      BY <1>2, <2>2, NoneIsNoTask DEF TypeOK
    <3> QED
      BY <1>1, <3>1, <3>2
  <2> QED
    BY <1>2, <2>1, <2>2
<1>9. \A y, z \in Threads : doing'[y] = doing'[z] /\ doing'[y] # None => y = z
  BY <1>1, <1>5 DEF PlaceInv
<1>10. \A y \in Threads : doing'[y] \notin ended
  BY <1>1, <1>5 DEF PlaceInv
<1> QED
  BY <1>6, <1>7, <1>8, <1>9, <1>10 DEF PlaceInv

\* A thread is done with its packet.
LEMMA PlaceReturn ==
    ASSUME TypeOK, PlaceInv, NEW x \in Threads, proc = "up", Executes(x), Return(x)
    PROVE  PlaceInv'
<1>1. doing[x] # None /\ None \notin Tasks /\ ended \subseteq Tasks
  BY NoneIsNoTask DEF TypeOK
<1>2. given' = given /\ proc' = proc /\ ended' = ended \cup {doing[x]}
  BY DEF Return, pool
<1>3. \A y \in Threads : doing'[y] = IF y = x THEN None ELSE doing[y]
  BY DEF Return, TypeOK
<1>4. \A s : In(given, s) <=> In(given', s)
  BY <1>2 DEF In
<1>5. \A s \in ended' : In(given', s)
  BY <1>1, <1>2, <1>4 DEF PlaceInv
<1>6. \A y \in Threads : doing'[y] # None => In(given', doing'[y])
  <2> SUFFICES ASSUME NEW y \in Threads, doing'[y] # None PROVE In(given', doing'[y])
    OBVIOUS
  <2>1. doing'[y] = doing[y] /\ In(given, doing[y])
    BY <1>3 DEF PlaceInv
  <2> QED
    BY <1>4, <2>1
<1>7. \A i \in 1..Len(given) : given[i] \in ended' \/ \E y \in Threads : doing'[y] = given[i]
  BY <1>2, <1>3 DEF PlaceInv
<1>8. \A y, z \in Threads : doing'[y] = doing'[z] /\ doing'[y] # None => y = z
  BY <1>3 DEF PlaceInv
<1>9. \A y \in Threads : doing'[y] \notin ended'
  BY <1>1, <1>2, <1>3 DEF PlaceInv
<1> QED
  BY <1>2, <1>5, <1>6, <1>7, <1>8, <1>9 DEF PlaceInv

\* The process ends: the packet that ended it stays with its thread.
LEMMA PlaceDie ==
    ASSUME TypeOK, PlaceInv, NEW x \in Threads, Executes(x),
           NEW how \in {"exited", "aborted"}, Die(x, how)
    PROVE  PlaceInv'
<1>1. doing[x] # None
  BY DEF TypeOK
<1>2. given' = given /\ doing' = doing /\ proc' = how /\ ended' = ended \cup {doing[x]}
  BY DEF Die, pool
<1>3. \A s : In(given, s) <=> In(given', s)
  BY <1>2 DEF In
<1>4. \A s \in ended' : In(given', s)
  BY <1>1, <1>2, <1>3 DEF PlaceInv
<1> QED
  BY <1>2, <1>3, <1>4 DEF PlaceInv

\* What is inductive.
WhereInv == SeqInv /\ PlaceInv

\* A step that leaves the packets where they are.
LEMMA WhereQuiet ==
    ASSUME WhereInv, UNCHANGED <<handed, given, queue, doing, ended>>,
           threads \subseteq threads', proc' # proc => ended = {} \/ proc' = "aborted"
    PROVE  WhereInv'
<1>1. SeqInv'
  BY DEF WhereInv, SeqInv
<1>2. PlaceInv'
  BY DEF WhereInv, PlaceInv, In
<1> QED
  BY <1>1, <1>2 DEF WhereInv

\* Every step keeps a packet in one place, and the packets in order.
LEMMA WhereNext == TypeOK /\ WhereInv /\ [Next]_vars => WhereInv'
<1> SUFFICES ASSUME TypeOK, WhereInv, [Next]_vars PROVE WhereInv'
  OBVIOUS
<1>1. CASE SetSqlCtl \/ SetFtpCtl
  BY <1>1, WhereQuiet DEF SetSqlCtl, SetFtpCtl, pool
<1>2. CASE StartServer
  BY <1>2, WhereQuiet DEF StartServer, pool, WhereInv, PlaceInv
<1>3. ASSUME NEW w \in Workers, Start(w) PROVE WhereInv'
  BY <1>3, WhereQuiet DEF Start
<1>4. ASSUME NEW w \in Workers, Take(w) PROVE WhereInv'
  <2>1. /\ w \in Threads /\ doing[w] = None /\ Head(queue) \in Tasks
        /\ proc = "up" /\ proc' = proc /\ ended' = ended
        /\ given' = Append(given, Head(queue)) /\ doing' = [doing EXCEPT ![w] = Head(queue)]
    BY <1>4, HeadTail DEF Take, TypeOK, Threads, Executes
  <2>2. SeqInv' /\ ~In(given, Head(queue))
    BY <1>4, SeqTake DEF WhereInv
  <2>3. PlaceInv'
    BY <2>1, <2>2, PlaceBegin DEF WhereInv
  <2> QED
    BY <2>2, <2>3 DEF WhereInv
<1>5. ASSUME NEW io \in IoThreads, NEW t \in Tasks, SolveTask(io, t) PROVE WhereInv'
  <2>1. SeqInv' /\ ~In(given, t)
    BY <1>5, SeqSolveTask DEF WhereInv
  <2>2. io \in Threads /\ doing[io] = None /\ proc = "up" /\ proc' = proc /\ ended' = ended
    BY <1>5 DEF SolveTask, TypeOK, Threads, Executes
  <2>3. CASE SolveTaskInline(io, t)
    <3>1. PlaceInv'
      BY <2>1, <2>2, <2>3, PlaceBegin DEF SolveTaskInline, WhereInv
    <3> QED
      BY <2>1, <3>1 DEF WhereInv
  <2>4. CASE SolveTaskQueued(io, t)
    <3>1. PlaceInv'
      BY <2>2, <2>4 DEF SolveTaskQueued, WhereInv, PlaceInv, In
    <3> QED
      BY <2>1, <3>1 DEF WhereInv
  <2> QED
    BY <1>5, <2>3, <2>4 DEF SolveTask
<1>6. ASSUME NEW io \in IoThreads, LeaveSolveTask(io) PROVE WhereInv'
  BY <1>6, WhereQuiet DEF LeaveSolveTask, pool
<1>7. ASSUME NEW x \in Threads, ExcuteTask(x) PROVE WhereInv'
  <2>1. proc = "up" /\ Executes(x)
    BY <1>7 DEF ExcuteTask, ExcuteBackup, ExcuteUnknown, ExcuteParse, ExcuteInsert, Executes
  <2>2. \/ Return(x) \/ Die(x, "exited") \/ Die(x, "aborted")
        \/ UNCHANGED <<proc, ctl, pool, doing, ended, rows>>
    BY <1>7, Zenon DEF ExcuteTask, ExcuteBackup, ExcuteUnknown, ExcuteParse, ExcuteInsert
  <2>3. CASE UNCHANGED <<proc, ctl, pool, doing, ended, rows>>
    BY <2>3, WhereQuiet DEF pool
  <2>4. CASE Return(x) \/ Die(x, "exited") \/ Die(x, "aborted")
    <3>1. PlaceInv'
      BY <2>1, <2>4, PlaceReturn, PlaceDie DEF WhereInv
    <3>2. SeqInv'
      BY <2>4 DEF WhereInv, SeqInv, Return, Die, pool
    <3> QED
      BY <3>1, <3>2 DEF WhereInv
  <2> QED
    BY <2>2, <2>3, <2>4
<1>8. CASE UNCHANGED vars
  BY <1>8, WhereQuiet DEF vars
<1> QED
  BY <1>1, <1>2, <1>3, <1>4, <1>5, <1>6, <1>7, <1>8 DEF Next

\* main begins with no packet anywhere.
LEMMA WhereInit == Init => WhereInv
BY DEF Init, WhereInv, SeqInv, PlaceInv, In

\* A packet in the queue has been given to no thread.
LEMMA QueuedNotGiven ==
    ASSUME TypeOK, SeqInv, NEW i \in 1..Len(queue) PROVE ~In(given, queue[i])
<1> SUFFICES ASSUME NEW j \in 1..Len(given), given[j] = queue[i] PROVE FALSE
  BY DEF In
<1>1. Len(given) \in Nat /\ Len(queue) \in Nat
  BY DEF TypeOK
<1>2. /\ j \in 1..Len(handed) /\ Len(given) + i \in 1..Len(handed) /\ j # Len(given) + i
  BY <1>1 DEF SeqInv
<1>3. handed[j] = handed[Len(given) + i]
  BY DEF SeqInv
<1> QED
  BY <1>2, <1>3 DEF SeqInv

\* So no packet is in two places.
LEMMA OnceHolds == TypeOK /\ WhereInv => ExecutedOnce
<1> SUFFICES ASSUME TypeOK, SeqInv, PlaceInv PROVE ExecutedOnce
  BY DEF WhereInv
<1>1. ASSUME NEW i \in 1..Len(given), NEW j \in 1..Len(given), given[i] = given[j]
      PROVE  i = j
  <2>1. Len(given) \in Nat /\ Len(queue) \in Nat
    BY DEF TypeOK
  <2>2. i \in 1..Len(handed) /\ j \in 1..Len(handed)
    BY <2>1 DEF SeqInv
  <2> QED
    BY <1>1, <2>2 DEF SeqInv
<1>2. ASSUME NEW i \in 1..Len(queue)
      PROVE  queue[i] \notin ended /\ \A x \in Threads : doing[x] # queue[i]
  <2>1. ~In(given, queue[i]) /\ queue[i] # None
    BY QueuedNotGiven, NoneIsNoTask DEF TypeOK
  <2> QED
    BY <2>1 DEF PlaceInv
<1>3. /\ \A x, y \in Threads : doing[x] = doing[y] /\ doing[x] # None => x = y
      /\ proc = "up" => \A x \in Threads : doing[x] \notin ended
  BY DEF PlaceInv
<1> QED
  BY <1>1, <1>2, <1>3 DEF ExecutedOnce

\* And the packets given, then those in the queue, are the packets handed over.
LEMMA OrderHolds == TypeOK /\ WhereInv => GivenInOrder
<1> SUFFICES ASSUME TypeOK, SeqInv, PlaceInv PROVE GivenInOrder
  BY DEF WhereInv
<1> DEFINE both == given \o queue
<1>1. handed \in Seq(Tasks) /\ given \in Seq(Tasks) /\ queue \in Seq(Tasks)
  BY DEF TypeOK
<1>2. /\ both \in Seq(Tasks) /\ Len(both) = Len(given) + Len(queue)
      /\ \A i \in 1..(Len(given) + Len(queue)) :
            both[i] = IF i <= Len(given) THEN given[i] ELSE queue[i - Len(given)]
  BY <1>1, ConcatProperties
<1> HIDE DEF both
<1>3. Len(given) \in Nat /\ Len(queue) \in Nat
  BY <1>1
<1>4. Len(handed) = Len(given) + Len(queue)
  BY DEF SeqInv
<1>5. ASSUME NEW i \in 1..Len(handed) PROVE handed[i] = both[i]
  <2>1. CASE i <= Len(given)
    <3>1. i \in 1..Len(given) /\ both[i] = given[i]
      BY <1>2, <1>3, <1>4, <2>1
    <3> QED
      BY <3>1 DEF SeqInv
  <2>2. CASE ~(i <= Len(given))
    <3>1. /\ i - Len(given) \in 1..Len(queue) /\ both[i] = queue[i - Len(given)]
          /\ Len(given) + (i - Len(given)) = i
      BY <1>2, <1>3, <1>4, <2>2
    <3>2. handed[Len(given) + (i - Len(given))] = queue[i - Len(given)]
      BY <3>1 DEF SeqInv
    <3> QED
      BY <3>1, <3>2
  <2> QED
    BY <2>1, <2>2
<1>6. handed = both
  BY <1>1, <1>2, <1>4, <1>5, SeqEqual
<1> QED
  BY <1>6 DEF both, GivenInOrder, PlaceInv

\* No packet is executed by two threads, queued twice, or queued or executed
\* again after it was: neither the window in which the pool has no thread, nor
\* the workers that compete for the queue, nor a packet that ends the process
\* makes SolveTask or the pool use one twice.
THEOREM NoPacketTwice == Spec => []ExecutedOnce
<1>1. TypeOK /\ WhereInv /\ [Next]_vars => WhereInv'
  BY WhereNext
<1> QED
  BY <1>1, WhereInit, OnceHolds, TypeCorrect, PTL DEF Spec

\* Packets are given to threads in the order in which SolveTask got them, also
\* those that arrive while the pool is being started, and none is lost: what
\* was handed over is in the queue, in execution, or has ended.
THEOREM HandedOverInOrder == Spec => []GivenInOrder
<1>1. TypeOK /\ WhereInv /\ [Next]_vars => WhereInv'
  BY WhereNext
<1> QED
  BY <1>1, WhereInit, OrderHolds, TypeCorrect, PTL DEF Spec

-----------------------------------------------------------------------------
(* What a thread that has come as far as the INSERT knows of its packet.   *)

\* Only a report of a version that is known gets to the INSERT.
InsertInv == \A x \in Threads : stage[x] = "insert" => Known(doing[x])

\* A step in which a thread keeps its packet or is not yet at the INSERT.
LEMMA InsertQuiet ==
    ASSUME InsertInv,
           \A y \in Threads : \/ stage'[y] = stage[y] /\ doing'[y] = doing[y]
                              \/ stage'[y] # "insert"
                              \/ Known(doing'[y])
    PROVE  InsertInv'
BY DEF InsertInv, Known

\* Every step keeps it.
LEMMA InsertNext == TypeOK /\ InsertInv /\ [Next]_vars => InsertInv'
<1> SUFFICES ASSUME TypeOK, InsertInv, [Next]_vars PROVE InsertInv'
  OBVIOUS
<1>1. CASE stage' = stage /\ doing' = doing
  BY <1>1, InsertQuiet
<1>2. CASE SetSqlCtl \/ SetFtpCtl \/ StartServer
  BY <1>1, <1>2 DEF SetSqlCtl, SetFtpCtl, StartServer
<1>3. ASSUME NEW w \in Workers, Start(w) PROVE InsertInv'
  BY <1>1, <1>3 DEF Start
<1>4. ASSUME NEW w \in Workers, Take(w) PROVE InsertInv'
  <2>1. w \in Threads
    BY DEF Threads
  <2>2. \A y \in Threads : \/ stage'[y] = stage[y] /\ doing'[y] = doing[y]
                           \/ stage'[y] = "begin"
    BY <1>4, <2>1 DEF Take, TypeOK
  <2> QED
    BY <2>2, InsertQuiet
<1>5. ASSUME NEW io \in IoThreads, NEW t \in Tasks, SolveTask(io, t) PROVE InsertInv'
  <2>1. io \in Threads
    BY DEF Threads
  <2>2. \A y \in Threads : \/ stage'[y] = stage[y] /\ doing'[y] = doing[y]
                           \/ stage'[y] \in {"begin", "leave"}
    BY <1>5, <2>1 DEF SolveTask, SolveTaskInline, SolveTaskQueued, TypeOK
  <2> QED
    BY <2>2, InsertQuiet
<1>6. ASSUME NEW io \in IoThreads, LeaveSolveTask(io) PROVE InsertInv'
  <2>1. io \in Threads
    BY DEF Threads
  <2>2. \A y \in Threads : \/ stage'[y] = stage[y] /\ doing'[y] = doing[y]
                           \/ stage'[y] = "idle"
    BY <1>6, <2>1 DEF LeaveSolveTask, TypeOK
  <2> QED
    BY <2>2, InsertQuiet
<1>7. ASSUME NEW x \in Threads, ExcuteTask(x) PROVE InsertInv'
  <2>1. CASE Return(x)
    <3>1. \A y \in Threads : \/ stage'[y] = stage[y] /\ doing'[y] = doing[y]
                             \/ stage'[y] \in {"idle", "leave"}
      BY <2>1 DEF Return, TypeOK
    <3> QED
      BY <3>1, InsertQuiet
  <2>2. CASE Die(x, "exited") \/ Die(x, "aborted")
    BY <1>1, <2>2 DEF Die
  <2>3. CASE Known(doing[x]) /\ stage' = [stage EXCEPT ![x] = "insert"] /\ doing' = doing
    <3>1. \A y \in Threads : \/ stage'[y] = stage[y] /\ doing'[y] = doing[y]
                             \/ Known(doing'[y])
      BY <2>3 DEF TypeOK
    <3> QED
      BY <3>1, InsertQuiet
  <2>4. \/ Return(x) \/ Die(x, "exited") \/ Die(x, "aborted")
        \/ Known(doing[x]) /\ stage' = [stage EXCEPT ![x] = "insert"] /\ doing' = doing
    BY <1>7, Zenon DEF ExcuteTask, ExcuteBackup, ExcuteUnknown, ExcuteParse, ExcuteInsert
  <2> QED
    BY <2>1, <2>2, <2>3, <2>4
<1>8. CASE UNCHANGED vars
  BY <1>1, <1>8 DEF vars
<1> QED
  BY <1>2, <1>3, <1>4, <1>5, <1>6, <1>7, <1>8 DEF Next

-----------------------------------------------------------------------------
(* Rows.                                                                   *)

\* The INSERT adds the row of the report in execution, which is not stored yet.
LEMMA RowsInsert ==
    ASSUME TypeOK, WhereInv, InsertInv, RowsAreReports, NEW x \in Threads, ExcuteInsert(x)
    PROVE  RowsAreReports'
<1> DEFINE t == doing[x]
           row == [task |-> t, table |-> InsertTable(t)]
           R == [task : Tasks, table : Versions]
<1>1. /\ proc = "up" /\ stage[x] = "insert" /\ Return(x)
      /\ \/ rows' = rows
         \/ Executable(DecSm4Data(t)) /\ rows' = Append(rows, row)
  BY Zenon DEF ExcuteInsert
<1>2. t \in Tasks /\ row \in R /\ rows \in Seq(R)
  BY <1>1, TableIsVersion DEF TypeOK, Executes
<1>3. ended' = ended \cup {t} /\ content' = content
  BY <1>1 DEF Return, ctl
<1>4. t \notin ended
  BY <1>1 DEF WhereInv, PlaceInv
<1>5. Version[t] \in Versions
  BY <1>1 DEF InsertInv, Known
<1>6. Executable(DecSm4Data(t)) => content[t] = "literal"
  BY DEF Executable, DecSm4Data
<1>7. CASE rows' = rows
  BY <1>3, <1>7 DEF RowsAreReports
<1>8. CASE Executable(DecSm4Data(t)) /\ rows' = Append(rows, row)
  <2>1. /\ Len(rows) \in Nat /\ Len(rows') = Len(rows) + 1 /\ rows'[Len(rows) + 1] = row
        /\ \A i \in 1..Len(rows) : rows'[i] = rows[i]
    <3> HIDE DEF row, R
    <3> QED
      BY <1>2, <1>8, Appended
  <2>2. row.task = t
    OBVIOUS
  <2> HIDE DEF row, t
  <2>3. \A i \in 1..Len(rows) : rows[i].task # t
    BY <1>4 DEF RowsAreReports
  <2>4. ASSUME NEW i \in 1..Len(rows'), NEW j \in 1..Len(rows'), rows'[i].task = rows'[j].task
        PROVE  i = j
    <3>1. i \in 1..Len(rows) \/ i = Len(rows) + 1
      BY <2>1
    <3>2. j \in 1..Len(rows) \/ j = Len(rows) + 1
      BY <2>1
    <3> QED
      BY <2>1, <2>2, <2>3, <2>4, <3>1, <3>2 DEF RowsAreReports
  <2>5. ASSUME NEW i \in 1..Len(rows')
        PROVE  /\ rows'[i].task \in ended'
               /\ Version[rows'[i].task] \in Versions
               /\ content'[rows'[i].task] = "literal"
    <3>1. CASE i \in 1..Len(rows)
      BY <1>3, <2>1, <3>1 DEF RowsAreReports
    <3>2. CASE i = Len(rows) + 1
      BY <1>3, <1>5, <1>6, <1>8, <2>1, <2>2, <3>2
    <3> QED
      BY <2>1, <3>1, <3>2
  <2> QED
    BY <2>4, <2>5 DEF RowsAreReports
<1> QED
  BY <1>1, <1>7, <1>8

\* No other step adds a row.
LEMMA RowsNext ==
    TypeOK /\ WhereInv /\ InsertInv /\ RowsAreReports /\ [Next]_vars => RowsAreReports'
<1> SUFFICES ASSUME TypeOK, WhereInv, InsertInv, RowsAreReports, [Next]_vars
             PROVE  RowsAreReports'
  OBVIOUS
<1>1. CASE rows' = rows /\ content' = content /\ ended \subseteq ended'
  BY <1>1 DEF RowsAreReports
<1>2. CASE SetSqlCtl \/ SetFtpCtl \/ StartServer
  BY <1>1, <1>2 DEF SetSqlCtl, SetFtpCtl, StartServer, ctl
<1>3. ASSUME NEW w \in Workers, Start(w) \/ Take(w) PROVE RowsAreReports'
  BY <1>1, <1>3 DEF Start, Take, ctl
<1>4. ASSUME NEW io \in IoThreads, NEW t \in Tasks, SolveTask(io, t) PROVE RowsAreReports'
  BY <1>1, <1>4 DEF SolveTask, SolveTaskInline, SolveTaskQueued, ctl
<1>9. ASSUME NEW io \in IoThreads, LeaveSolveTask(io) PROVE RowsAreReports'
  BY <1>1, <1>9 DEF LeaveSolveTask, ctl
<1>5. ASSUME NEW x \in Threads, ExcuteBackup(x) \/ ExcuteUnknown(x) PROVE RowsAreReports'
  BY <1>1, <1>5 DEF ExcuteBackup, ExcuteUnknown, Return, Die, ctl
<1>6. ASSUME NEW x \in Threads, ExcuteParse(x) PROVE RowsAreReports'
  <2>1. Die(x, "exited") \/ Die(x, "aborted") \/ UNCHANGED <<proc, ctl, pool, doing, ended, rows>>
    BY <1>6, Zenon DEF ExcuteParse
  <2> QED
    BY <1>1, <2>1 DEF Die, ctl
<1>7. ASSUME NEW x \in Threads, ExcuteInsert(x) PROVE RowsAreReports'
  BY <1>7, RowsInsert
<1>8. CASE UNCHANGED vars
  BY <1>1, <1>8 DEF vars
<1> QED
  BY <1>2, <1>3, <1>4, <1>5, <1>6, <1>7, <1>8, <1>9 DEF Next, ExcuteTask

\* A row in the database is there once, and comes from a report that was
\* executed, of a version with a table, whose text makes a statement: the
\* dropped result of DataInsert never stands for a report that was not one.
THEOREM StoredAreReports == Spec => []RowsAreReports
<1>1. Init => InsertInv /\ RowsAreReports
  BY DEF Init, InsertInv, RowsAreReports
<1>2. TypeOK /\ WhereInv /\ [Next]_vars => WhereInv'
  BY WhereNext
<1>3. TypeOK /\ InsertInv /\ [Next]_vars => InsertInv'
  BY InsertNext
<1>4. TypeOK /\ WhereInv /\ InsertInv /\ RowsAreReports /\ [Next]_vars => RowsAreReports'
  BY RowsNext
<1> QED
  BY <1>1, <1>2, <1>3, <1>4, WhereInit, TypeCorrect, PTL DEF Spec
=============================================================================
