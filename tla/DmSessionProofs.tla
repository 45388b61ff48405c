--------------------------- MODULE DmSessionProofs --------------------------
(***************************************************************************)
(* What holds of the shared database connection for any threads and calls, *)
(* any number of statement handles and any number of faults.               *)
(***************************************************************************)
EXTENDS DmSession, FiniteSetTheorems, FunctionTheorems, TLAPS

\* Where a call has not executed its statement yet, and where a thread has
\* one.
Before == {"connect", "login", "alloc", "execute"}
Busy == Before \cup {"read"}
Labels == Busy \cup {"idle"}

\* The values the variables take; a thread that is busy has a call, and one
\* that logs in has a connection handle.
TypeOK ==
    /\ conFlag \in BOOLEAN
    /\ last \in Nat /\ hcon \in 0..last
    /\ logins \subseteq 1..last /\ alive \subseteq logins
    /\ pc \in [Threads -> Labels]
    /\ doing \in [Threads -> Calls \cup {None}]
    /\ handle \in [Calls -> Nat]
    /\ stored \in [Calls -> Nat] /\ faults \in Nat
    /\ ret \in [Calls -> {"none", "ok", "error"}]
    /\ \A t \in Threads : pc[t] \in Busy => doing[t] \in Calls
    /\ \A t \in Threads : pc[t] = "login" => hcon # 0

\* A thread goes on to l.
LEMMA GotoPc ==
    ASSUME pc \in [Threads -> Labels], NEW t \in Threads, NEW l \in Labels, Goto(t, l)
    PROVE  /\ pc' \in [Threads -> Labels] /\ pc'[t] = l
           /\ \A u \in Threads : u # t => pc'[u] = pc[u]
BY DEF Goto

\* A call returns.
LEMMA ReturnType ==
    ASSUME TypeOK, NEW t \in Threads, pc[t] \in Busy, NEW r \in {"ok", "error"}, Return(t, r)
    PROVE  /\ pc' \in [Threads -> Labels] /\ pc'[t] = "idle"
           /\ doing' \in [Threads -> Calls \cup {None}] /\ doing'[t] = None
           /\ ret' \in [Calls -> {"none", "ok", "error"}] /\ ret'[doing[t]] = r
           /\ \A u \in Threads : u # t => pc'[u] = pc[u] /\ doing'[u] = doing[u]
           /\ \A c \in Calls : c # doing[t] => ret'[c] = ret[c]
BY GotoPc DEF TypeOK, Return, Labels

\* Nobody has called yet.
LEMMA TypeInit == Init => TypeOK
BY DEF Init, TypeOK, Labels, Busy, Before

\* Every step keeps the types.
LEMMA TypeNext == TypeOK /\ [Next]_vars => TypeOK'
<1> SUFFICES ASSUME TypeOK, [Next]_vars PROVE TypeOK'
  OBVIOUS
<1>1. ASSUME NEW t \in Threads, NEW c \in Calls, Begin(t, c) PROVE TypeOK'
  BY <1>1, GotoPc DEF TypeOK, Begin, conn, Labels, Busy, Before
<1>2. ASSUME NEW t \in Threads, Connect(t) PROVE TypeOK'
  BY <1>2, GotoPc DEF TypeOK, Connect, Labels, Busy, Before
<1>3. ASSUME NEW t \in Threads, Login(t) PROVE TypeOK'
  <2>3. faults' \in Nat
    BY <1>3 DEF Login, Fault, NoFault, TypeOK
  <2> USE <1>3 DEF Login
  <2>1. CASE hcon \notin alive /\ Goto(t, "alloc") /\ conFlag' = TRUE
             /\ alive' = alive \cup {hcon} /\ logins' = logins \cup {hcon} /\ UNCHANGED <<doing, ret>>
    BY <2>1, <2>3, GotoPc DEF TypeOK, Labels, Busy, Before
  <2>2. CASE Return(t, "error") /\ UNCHANGED <<conFlag, alive, logins>>
    BY <2>2, <2>3, ReturnType DEF TypeOK, Busy, Before
  <2> QED
    BY <2>1, <2>2
<1>4. ASSUME NEW t \in Threads, AllocStmt(t) PROVE TypeOK'
  <2> USE <1>4 DEF AllocStmt
  <2>1. CASE Return(t, "error") /\ UNCHANGED handle
    BY <2>1, ReturnType DEF TypeOK, Busy, Before, conn
  <2>2. CASE Goto(t, "execute") /\ handle' = [handle EXCEPT ![doing[t]] = hcon] /\ UNCHANGED <<doing, ret>>
    BY <2>2, GotoPc DEF TypeOK, Labels, Busy, Before, conn
  <2> QED
    BY <2>1, <2>2
<1>5. ASSUME NEW t \in Threads, ExecuteDone(t) PROVE TypeOK'
  <2> USE <1>5 DEF ExecuteDone
  <2>1. CASE Return(t, "ok")
    BY <2>1, ReturnType DEF TypeOK, Busy, Before, conn, Executed
  <2>2. CASE Goto(t, "read") /\ UNCHANGED <<doing, ret>>
    BY <2>2, GotoPc DEF TypeOK, Labels, Busy, Before, conn, Executed
  <2> QED
    BY <2>1, <2>2
<1>6. ASSUME NEW t \in Threads, ExecuteFails(t) PROVE TypeOK'
  <2>1. doing[t] \in Calls /\ pc[t] \in Busy
    BY <1>6 DEF ExecuteFails, TypeOK, Busy, Before
  <2>2. handle' \in [Calls -> Nat] /\ stored' \in [Calls -> Nat]
    BY <1>6, <2>1 DEF ExecuteFails, TypeOK, Executed, Free
  <2>3. Return(t, "error") /\ UNCHANGED conn
    BY <1>6 DEF ExecuteFails
  <2> QED
    BY <1>6, <2>1, <2>2, <2>3, ReturnType DEF TypeOK, conn, Busy, Before, ExecuteFails, Fault, NoFault
<1>7. ASSUME NEW t \in Threads, Read(t) PROVE TypeOK'
  BY <1>7, ReturnType DEF TypeOK, Read, Free, conn, Busy, Before
<1>8. CASE Drop
  BY <1>8 DEF TypeOK, Drop, Fault
<1>9. CASE UNCHANGED vars
  BY <1>9 DEF TypeOK, vars
<1> QED
  BY <1>1, <1>2, <1>3, <1>4, <1>5, <1>6, <1>7, <1>8, <1>9 DEF Next

-----------------------------------------------------------------------------
(* A call is in the hands of at most one thread.                           *)

\* What is inductive of that.
CallInv ==
    /\ \A t \in Threads : pc[t] = "idle" => doing[t] = None
    /\ \A t, u \in Threads : doing[t] = doing[u] /\ doing[t] \in Calls => t = u

\* A call that goes on.
LEMMA CallGoesOn ==
    ASSUME TypeOK, CallInv, NEW t \in Threads, NEW l \in Busy, Goto(t, l), doing' = doing
    PROVE  CallInv'
BY GotoPc DEF TypeOK, CallInv, Labels, Busy, Before

\* A call that returns.
LEMMA CallReturns ==
    ASSUME TypeOK, CallInv, NEW t \in Threads, pc[t] \in Busy, NEW r \in {"ok", "error"}, Return(t, r)
    PROVE  CallInv'
<1>1. None \notin Calls
  BY SessionAssumption
<1> QED
  BY <1>1, ReturnType DEF CallInv

\* Nobody has called yet.
LEMMA CallInit == Init => CallInv
BY SessionAssumption DEF Init, CallInv

\* Every step keeps it.
LEMMA CallNext == TypeOK /\ CallInv /\ [Next]_vars => CallInv'
<1> SUFFICES ASSUME TypeOK, CallInv, [Next]_vars PROVE CallInv'
  OBVIOUS
<1>1. ASSUME NEW t \in Threads, NEW c \in Calls, Begin(t, c) PROVE CallInv'
  <2>1. /\ doing'[t] = c /\ pc'[t] # "idle"
        /\ \A u \in Threads : u # t => pc'[u] = pc[u] /\ doing'[u] = doing[u]
    BY <1>1, GotoPc DEF Begin, TypeOK, Labels, Busy, Before
  <2>2. \A u \in Threads : doing[u] # c
    BY <1>1 DEF Begin
  <2> QED
    BY <2>1, <2>2 DEF CallInv
<1>2. ASSUME NEW t \in Threads, Connect(t) PROVE CallInv'
  BY <1>2, CallGoesOn DEF Connect, Before, Busy
<1>3. ASSUME NEW t \in Threads, Login(t) PROVE CallInv'
  BY <1>3, CallGoesOn, CallReturns DEF Login, Before, Busy
<1>4. ASSUME NEW t \in Threads, AllocStmt(t) PROVE CallInv'
  BY <1>4, CallGoesOn, CallReturns DEF AllocStmt, Before, Busy
<1>5. ASSUME NEW t \in Threads, ExecuteDone(t) PROVE CallInv'
  BY <1>5, CallGoesOn, CallReturns DEF ExecuteDone, Before, Busy
<1>6. ASSUME NEW t \in Threads, ExecuteFails(t) PROVE CallInv'
  BY <1>6, CallReturns DEF ExecuteFails, Before, Busy
<1>7. ASSUME NEW t \in Threads, Read(t) PROVE CallInv'
  BY <1>7, CallReturns DEF Read, Before, Busy
<1>8. CASE Drop
  BY <1>8 DEF CallInv, Drop
<1>9. CASE UNCHANGED vars
  BY <1>9 DEF CallInv, vars
<1> QED
  BY <1>1, <1>2, <1>3, <1>4, <1>5, <1>6, <1>7, <1>8, <1>9 DEF Next

-----------------------------------------------------------------------------
(* Threads that connect over each other.                                   *)

\* While nothing failed, the handle in the structure is logged in or a thread
\* is about to do that.
KeptInv ==
    /\ conFlag => hcon # 0
    /\ faults = 0 => hcon \in alive \/ hcon = 0 \/ \E t \in Threads : pc[t] = "login"

\* A step that leaves the connection alone and takes no thread from its login.
LEMMA KeptQuiet ==
    ASSUME TypeOK, KeptInv, UNCHANGED <<conFlag, hcon, alive>>, faults' = 0 => faults = 0,
           \A t \in Threads : pc[t] = "login" => pc'[t] = "login"
    PROVE  KeptInv'
BY DEF KeptInv

\* A fault is counted.
LEMMA Counted == TypeOK /\ (Fault \/ NoFault) => (faults' = 0 => faults = 0 /\ NoFault)
BY DEF TypeOK, Fault, NoFault

\* Every step keeps it.
LEMMA KeptNext == TypeOK /\ KeptInv /\ [Next]_vars => KeptInv'
<1> SUFFICES ASSUME TypeOK, KeptInv, [Next]_vars PROVE KeptInv'
  OBVIOUS
<1>1. ASSUME NEW t \in Threads, NEW c \in Calls, Begin(t, c) PROVE KeptInv'
  <2>1. \A u \in Threads : pc[u] = "login" => pc'[u] = "login"
    BY <1>1, GotoPc DEF Begin, TypeOK, Labels, Busy, Before
  <2> QED
    BY <1>1, <2>1, KeptQuiet DEF Begin, conn
<1>2. ASSUME NEW t \in Threads, Connect(t) PROVE KeptInv'
  <2>1. pc'[t] = "login"
    BY <1>2, GotoPc DEF Connect, TypeOK, Labels, Busy, Before
  <2>2. hcon' # 0
    BY <1>2 DEF Connect, TypeOK
  <2> QED
    BY <2>1, <2>2 DEF KeptInv
<1>3. ASSUME NEW t \in Threads, Login(t) PROVE KeptInv'
  <2>1. hcon' = hcon /\ hcon # 0 /\ (faults' = 0 => faults = 0 /\ NoFault)
    BY <1>3, Counted DEF Login, TypeOK
  <2>2. CASE alive' = alive \cup {hcon}
    BY <2>1, <2>2 DEF KeptInv
  <2>3. CASE /\ (hcon \in alive /\ NoFault) \/ Fault
             /\ UNCHANGED <<conFlag, alive, logins>>
    <3>1. faults' = 0 => hcon \in alive
      BY <2>1, <2>3 DEF Fault, TypeOK
    <3> QED
      BY <2>1, <2>3, <3>1 DEF KeptInv
  <2> QED
    BY <1>3, <2>2, <2>3 DEF Login
<1>4. ASSUME NEW t \in Threads, AllocStmt(t) \/ ExecuteDone(t) \/ ExecuteFails(t) \/ Read(t)
      PROVE  KeptInv'
  <2>1. UNCHANGED conn /\ pc[t] \in {"alloc", "execute", "read"}
    BY <1>4 DEF AllocStmt, ExecuteDone, ExecuteFails, Read
  <2>2. faults' = 0 => faults = 0
    BY <1>4, Counted DEF AllocStmt, ExecuteDone, ExecuteFails, Read
  <2>3. Goto(t, "execute") \/ Goto(t, "idle") \/ Goto(t, "read")
    BY <1>4 DEF AllocStmt, ExecuteDone, ExecuteFails, Read, Return
  <2>4. \A u \in Threads : pc[u] = "login" => pc'[u] = "login"
    BY <2>1, <2>3, GotoPc DEF TypeOK, Labels, Busy, Before
  <2> QED
    BY <2>1, <2>2, <2>4, KeptQuiet DEF conn
<1>5. CASE Drop
  BY <1>5 DEF Drop, Fault, KeptInv, TypeOK
<1>6. CASE UNCHANGED vars
  BY <1>6 DEF KeptInv, vars
<1> QED
  BY <1>1, <1>2, <1>3, <1>4, <1>5, <1>6 DEF Next

\* However many threads find conFlag unset at the same time and in whatever
\* order they allocate and log in, the connection they leave behind is logged
\* in as long as nothing failed.
THEOREM RacesAreHarmless == Spec => []RaceKeepsConnection
<1>1. Init => TypeOK /\ KeptInv
  BY TypeInit DEF Init, KeptInv
<1>2. TypeOK /\ KeptInv /\ [Next]_vars => (TypeOK /\ KeptInv)'
  BY TypeNext, KeptNext
<1>3. KeptInv => RaceKeepsConnection
  BY DEF KeptInv, RaceKeepsConnection
<1> QED
  BY <1>1, <1>2, <1>3, PTL DEF Spec

-----------------------------------------------------------------------------
(* A connection that became unusable stays so.                             *)

\* The types hold throughout.
LEMMA TypeAlways == Spec => []TypeOK
BY TypeInit, TypeNext, PTL DEF Spec

\* conFlag stays 1 whatever becomes of the connection: once it is lost or out
\* of handles and nobody is about to connect or holds a handle, no step of
\* any thread changes that, and no call takes effect any more.
THEOREM NeverRepaired == Spec => UnusableForGood
<1>1. ASSUME TypeOK, [Next]_vars, Unusable PROVE Unusable' /\ stored' = stored
  <2> USE <1>1
  <2>1. ASSUME NEW t \in Threads, NEW c \in Calls, Begin(t, c) PROVE Unusable' /\ stored' = stored
    <3>1. Goto(t, "alloc") /\ UNCHANGED <<conFlag, hcon, alive, handle, stored>>
      BY <2>1 DEF Begin, NeedsConnect, Unusable, conn
    <3>2. ~Allocatable'
      BY <3>1 DEF Unusable, Allocatable, Held
    <3> QED
      BY <3>1, <3>2, GotoPc DEF Unusable, TypeOK, Labels, Busy, Before
  <2>2. ASSUME NEW t \in Threads, AllocStmt(t) PROVE Unusable' /\ stored' = stored
    <3>1. Return(t, "error") /\ UNCHANGED <<conFlag, hcon, alive, handle, stored>> /\ pc[t] \in Busy
      BY <2>2 DEF AllocStmt, Unusable, conn, Busy, Before
    <3>2. ~Allocatable'
      BY <3>1 DEF Unusable, Allocatable, Held
    <3> QED
      BY <3>1, <3>2, ReturnType DEF Unusable
  <2>3. CASE Drop
    BY <2>3 DEF Drop, Unusable, Allocatable
  <2>4. CASE UNCHANGED vars
    BY <2>4 DEF vars, Unusable, Allocatable, Held
  <2>5. ASSUME NEW t \in Threads PROVE ~Connect(t) /\ ~Login(t) /\ ~ExecuteDone(t) /\ ~ExecuteFails(t) /\ ~Read(t)
    BY DEF Unusable, Connect, Login, ExecuteDone, ExecuteFails, Read
  <2> QED
    BY <2>1, <2>2, <2>3, <2>4, <2>5 DEF Next
<1>2. TypeOK /\ [Next]_vars => [Unusable => Unusable' /\ stored' = stored]_vars
  BY <1>1
<1> QED
  BY <1>2, TypeAlways, PTL DEF Spec, UnusableForGood

-----------------------------------------------------------------------------
(* Who logged in.                                                          *)

\* Where a thread is inside Connect.
Connecting == {"connect", "login"}

\* Every login can be charged to a thread of its own that does not connect
\* any more, and after the first one no other thread begins to.
LoginInv ==
    /\ conFlag \/ logins = {}
    /\ \E by \in [logins -> Threads] :
          /\ \A h, g \in logins : by[h] = by[g] => h = g
          /\ \A h \in logins : pc[by[h]] \notin Connecting

\* A step that logs nobody in and after which a thread connects only if it did
\* before, or if nobody ever logged in.
LEMMA LoginKeeps ==
    ASSUME LoginInv, logins' = logins, conFlag' = conFlag,
           \A t \in Threads : pc'[t] \in Connecting => pc[t] \in Connecting \/ ~conFlag
    PROVE  LoginInv'
<1>1. PICK by \in [logins -> Threads] :
          /\ \A h, g \in logins : by[h] = by[g] => h = g
          /\ \A h \in logins : pc[by[h]] \notin Connecting
  BY DEF LoginInv
<1>2. \A h \in logins : pc'[by[h]] \notin Connecting
  BY <1>1 DEF LoginInv
<1> QED
  BY <1>1, <1>2 DEF LoginInv

\* Nobody is logged in at first.
LEMMA LoginInit == Init => LoginInv
<1> SUFFICES ASSUME Init PROVE LoginInv
  OBVIOUS
<1>1. PICK t \in Threads : TRUE
  BY SessionAssumption
<1> DEFINE by == [h \in logins |-> t]
<1>2. \A h, g \in logins : h = g
  BY DEF Init
<1>3. \A h \in logins : pc[by[h]] \notin Connecting
  BY DEF Init, Connecting
<1>4. conFlag \/ logins = {}
  BY DEF Init
<1>5. by \in [logins -> Threads]
  OBVIOUS
<1> QED
  BY <1>2, <1>3, <1>4, <1>5 DEF LoginInv

\* Every step logs at most the thread in that takes it.
LEMMA LoginNext == TypeOK /\ LoginInv /\ [Next]_vars => LoginInv'
<1> SUFFICES ASSUME TypeOK, LoginInv, [Next]_vars PROVE LoginInv'
  OBVIOUS
<1>1. ASSUME NEW t \in Threads, NEW c \in Calls, Begin(t, c) PROVE LoginInv'
  <2>1. \A u \in Threads : pc'[u] \in Connecting => pc[u] \in Connecting \/ ~conFlag
    BY <1>1, GotoPc DEF Begin, TypeOK, NeedsConnect, Connecting, Labels, Busy, Before
  <2> QED
    BY <1>1, <2>1, LoginKeeps DEF Begin, conn
<1>2. ASSUME NEW t \in Threads, Connect(t) PROVE LoginInv'
  <2>1. \A u \in Threads : pc'[u] \in Connecting => pc[u] \in Connecting
    BY <1>2, GotoPc DEF Connect, TypeOK, Connecting, Labels, Busy, Before
  <2> QED
    BY <1>2, <2>1, LoginKeeps DEF Connect
<1>3. ASSUME NEW t \in Threads, Login(t) PROVE LoginInv'
  <2>1. CASE Return(t, "error") /\ UNCHANGED <<conFlag, alive, logins>>
    <3>1. \A u \in Threads : pc'[u] \in Connecting => pc[u] \in Connecting
      BY <1>3, <2>1, ReturnType DEF Login, Connecting, Busy, Before
    <3> QED
      BY <2>1, <3>1, LoginKeeps
  <2>2. CASE Goto(t, "alloc") /\ conFlag' = TRUE /\ logins' = logins \cup {hcon}
    <3>1. PICK by \in [logins -> Threads] :
              /\ \A h, g \in logins : by[h] = by[g] => h = g
              /\ \A h \in logins : pc[by[h]] \notin Connecting
      BY DEF LoginInv
    <3> DEFINE b == [h \in logins' |-> IF h \in logins THEN by[h] ELSE t]
    <3>2. pc[t] \in Connecting /\ pc'[t] \notin Connecting /\ \A u \in Threads : u # t => pc'[u] = pc[u]
      BY <1>3, <2>2, GotoPc DEF Login, TypeOK, Connecting, Labels, Busy, Before
    <3>3. b \in [logins' -> Threads]
      BY <3>1
    <3>4. \A h, g \in logins' : b[h] = b[g] => h = g
      BY <2>2, <3>1, <3>2
    <3>5. \A h \in logins' : pc'[b[h]] \notin Connecting
      BY <3>1, <3>2
    <3> QED
      BY <2>2, <3>3, <3>4, <3>5 DEF LoginInv
  <2> QED
    BY <1>3, <2>1, <2>2 DEF Login
<1>4. ASSUME NEW t \in Threads, NEW l \in Labels \ Connecting, Goto(t, l), logins' = logins, conFlag' = conFlag
      PROVE  LoginInv'
  BY <1>4, GotoPc, LoginKeeps DEF TypeOK
<1>5. ASSUME NEW t \in Threads, AllocStmt(t) \/ ExecuteDone(t) \/ ExecuteFails(t) \/ Read(t) PROVE LoginInv'
  <2>1. logins' = logins /\ conFlag' = conFlag
    BY <1>5 DEF AllocStmt, ExecuteDone, ExecuteFails, Read, conn
  <2>2. Goto(t, "execute") \/ Goto(t, "idle") \/ Goto(t, "read")
    BY <1>5 DEF AllocStmt, ExecuteDone, ExecuteFails, Read, Return
  <2>3. {"execute", "idle", "read"} \subseteq Labels \ Connecting
    BY DEF Labels, Busy, Before, Connecting
  <2> QED
    BY <1>4, <2>1, <2>2, <2>3
<1>6. CASE Drop
  BY <1>6, LoginKeeps DEF Drop
<1>7. CASE UNCHANGED vars
  BY <1>7, LoginKeeps DEF vars
<1> QED
  BY <1>1, <1>2, <1>3, <1>5, <1>6, <1>7 DEF Next

\* However many threads find conFlag unset at the same time, fail to connect
\* or connect over each other, they log in on no more connections than there
\* are threads.
THEOREM NoMoreLoginsThanThreads == Spec => []LoginsBounded
<1>1. LoginInv => LoginsBounded
  <2> SUFFICES ASSUME LoginInv PROVE Cardinality(logins) <= Cardinality(Threads)
    BY DEF LoginsBounded
  <2>1. PICK by \in [logins -> Threads] : \A h, g \in logins : by[h] = by[g] => h = g
    BY DEF LoginInv
  <2>2. by \in Injection(logins, Threads)
    BY <2>1, Fun_IsInj
  <2>3. IsFiniteSet(Threads)
    BY SessionAssumption
  <2> QED
    BY <2>2, <2>3, FS_Injection
<1>2. Init => TypeOK /\ LoginInv
  BY TypeInit, LoginInit
<1>3. TypeOK /\ LoginInv /\ [Next]_vars => (TypeOK /\ LoginInv)'
  BY TypeNext, LoginNext
<1> QED
  BY <1>1, <1>2, <1>3, PTL DEF Spec

-----------------------------------------------------------------------------
(* Statement handles.                                                      *)

\* The calls that hold a handle can be given places on their connections, of
\* which each has MaxHandles; a call about to execute or read holds one, and
\* so does for ever one that stored a report.
Placed(place) ==
    /\ \A c \in Calls : handle[c] # 0 => place[c] \in 1..MaxHandles /\ handle[c] \in logins
    /\ \A c, d \in Calls :
          handle[c] # 0 /\ handle[c] = handle[d] /\ place[c] = place[d] => c = d

\* What is inductive.
HandleInv ==
    /\ \E place \in [Calls -> Nat] : Placed(place)
    /\ \A t \in Threads : pc[t] \in {"execute", "read"} => handle[doing[t]] # 0
    /\ \A t \in Threads : pc[t] = "read" => Kind[doing[t]] = "query"
    /\ \A c \in Calls : ret[c] = "ok" /\ Kind[c] # "query" => handle[c] # 0

\* Handles that are freed, and further logins, leave the places valid.
LEMMA PlacedFewer ==
    ASSUME NEW place \in [Calls -> Nat], Placed(place), logins \subseteq logins',
           \A c \in Calls : handle'[c] = handle[c] \/ handle'[c] = 0
    PROVE  Placed(place)'
BY DEF Placed

\* A connection on which fewer than MaxHandles calls hold a handle has a free
\* place.
LEMMA FreePlace ==
    ASSUME NEW place \in [Calls -> Nat], Placed(place), NEW h \in Nat \ {0},
           Cardinality(Held(h)) < MaxHandles
    PROVE  \E k \in 1..MaxHandles : \A c \in Calls : handle[c] = h => place[c] # k
<1> SUFFICES ASSUME \A k \in 1..MaxHandles : \E c \in Calls : handle[c] = h /\ place[c] = k
             PROVE  FALSE
  OBVIOUS
<1> DEFINE f == [c \in Held(h) |-> place[c]]
<1>1. f \in [Held(h) -> 1..MaxHandles]
  BY DEF Held, Placed
<1>2. \A k \in 1..MaxHandles : \E c \in Held(h) : f[c] = k
  BY DEF Held
<1>3. \A c, d \in Held(h) : f[c] = f[d] => c = d
  BY DEF Held, Placed
<1> HIDE DEF f
<1>4. f \in Surjection(Held(h), 1..MaxHandles)
  BY <1>1, <1>2, Fun_IsSurj
<1>5. f \in Injection(Held(h), 1..MaxHandles)
  BY <1>1, <1>3, Fun_IsInj
<1>6. MaxHandles \in Nat /\ IsFiniteSet(1..MaxHandles) /\ Cardinality(1..MaxHandles) = MaxHandles
  BY SessionAssumption, FS_Interval
<1>7. Cardinality(Held(h)) = MaxHandles
  BY <1>4, <1>5, <1>6, FS_Injection
<1> QED
  BY <1>6, <1>7

\* No call holds a handle at first.
LEMMA HandleInit == Init => HandleInv
<1> SUFFICES ASSUME Init PROVE HandleInv
  OBVIOUS
<1> DEFINE place == [c \in Calls |-> 0]
<1>1. Placed(place) /\ place \in [Calls -> Nat]
  BY DEF Init, Placed
<1> QED
  BY <1>1 DEF Init, HandleInv

\* A thread that goes on or begins, and changes no handle.
LEMMA HandleGoesOn ==
    ASSUME TypeOK, HandleInv, NEW t \in Threads, UNCHANGED <<handle, ret>>, logins \subseteq logins',
           \A u \in Threads : u # t => pc'[u] = pc[u] /\ doing'[u] = doing[u],
           pc'[t] \notin {"execute", "read"}
    PROVE  HandleInv'
<1>1. \E place \in [Calls -> Nat] : Placed(place)'
  BY PlacedFewer DEF HandleInv
<1> QED
  BY <1>1 DEF HandleInv

\* A thread whose call returns, with or without its handle freed.
LEMMA HandleReturns ==
    ASSUME TypeOK, CallInv, HandleInv, NEW t \in Threads, pc[t] \in Busy, NEW r \in {"ok", "error"},
           Return(t, r), logins' = logins, UNCHANGED handle \/ Free(t),
           r = "ok" => (UNCHANGED handle /\ pc[t] = "execute") \/ Kind[doing[t]] = "query"
    PROVE  HandleInv'
<1> DEFINE c == doing[t]
<1>1. c \in Calls /\ \A d \in Calls : handle'[d] = handle[d] \/ (d = c /\ handle'[d] = 0)
  BY DEF TypeOK, Free
<1>2. \E place \in [Calls -> Nat] : Placed(place)'
  BY <1>1, PlacedFewer DEF HandleInv
<1>3. \A u \in Threads : u # t /\ pc[u] \in Busy => doing[u] # c
  BY <1>1 DEF CallInv, TypeOK
<1>4. /\ pc'[t] = "idle" /\ ret'[c] = r
      /\ \A u \in Threads : u # t => pc'[u] = pc[u] /\ doing'[u] = doing[u]
      /\ \A d \in Calls : d # c => ret'[d] = ret[d]
  BY ReturnType
<1>5. ASSUME NEW u \in Threads, pc'[u] \in {"execute", "read"}
      PROVE  handle'[doing'[u]] # 0 /\ (pc'[u] = "read" => Kind[doing'[u]] = "query")
  <2>1. u # t /\ pc[u] = pc'[u] /\ doing'[u] = doing[u] /\ pc[u] \in Busy
    BY <1>4, <1>5 DEF Busy, Before
  <2>2. doing[u] # c /\ doing[u] \in Calls
    BY <1>3, <2>1 DEF TypeOK
  <2> QED
    BY <1>1, <1>5, <2>1, <2>2 DEF HandleInv
<1>6. ASSUME NEW d \in Calls, ret'[d] = "ok", Kind[d] # "query" PROVE handle'[d] # 0
  <2>1. CASE d = c
    BY <1>4, <1>6, <2>1 DEF HandleInv
  <2>2. CASE d # c
    BY <1>1, <1>4, <1>6, <2>2 DEF HandleInv
  <2> QED
    BY <2>1, <2>2
<1> QED
  BY <1>2, <1>5, <1>6 DEF HandleInv

\* Every step keeps the handles within their places.
LEMMA HandleNext == TypeOK /\ CallInv /\ HandleInv /\ [Next]_vars => HandleInv'
<1> SUFFICES ASSUME TypeOK, CallInv, HandleInv, [Next]_vars PROVE HandleInv'
  OBVIOUS
<1>1. ASSUME NEW t \in Threads, NEW c \in Calls, Begin(t, c) PROVE HandleInv'
  <2>1. /\ pc'[t] \notin {"execute", "read"}
        /\ \A u \in Threads : u # t => pc'[u] = pc[u] /\ doing'[u] = doing[u]
    BY <1>1, GotoPc DEF Begin, TypeOK, Labels, Busy, Before
  <2> QED
    BY <1>1, <2>1, HandleGoesOn DEF Begin, conn
<1>2. ASSUME NEW t \in Threads, Connect(t) PROVE HandleInv'
  BY <1>2, GotoPc, HandleGoesOn DEF Connect, TypeOK, Labels, Busy, Before
<1>3. ASSUME NEW t \in Threads, Login(t) PROVE HandleInv'
  <2>1. CASE Goto(t, "alloc") /\ logins' = logins \cup {hcon} /\ UNCHANGED <<doing, ret>>
    BY <1>3, <2>1, GotoPc, HandleGoesOn DEF Login, TypeOK, Labels, Busy, Before
  <2>2. CASE Return(t, "error") /\ UNCHANGED logins
    BY <1>3, <2>2, HandleReturns DEF Login, Busy, Before
  <2> QED
    BY <1>3, <2>1, <2>2 DEF Login
<1>4. ASSUME NEW t \in Threads, AllocStmt(t) PROVE HandleInv'
  <2>1. CASE Return(t, "error") /\ UNCHANGED handle
    BY <1>4, <2>1, HandleReturns DEF AllocStmt, Busy, Before, conn
  <2>2. CASE Allocatable /\ Goto(t, "execute") /\ UNCHANGED <<doing, ret>>
             /\ handle' = [handle EXCEPT ![doing[t]] = hcon]
    <3> DEFINE c == doing[t]
    <3>1. c \in Calls /\ hcon \in logins /\ hcon \in Nat \ {0} /\ Cardinality(Held(hcon)) < MaxHandles
      BY <1>4, <2>2 DEF AllocStmt, Allocatable, TypeOK, Busy, Before
    <3>2. PICK place \in [Calls -> Nat] : Placed(place)
      BY DEF HandleInv
    <3>3. PICK k \in 1..MaxHandles : \A d \in Calls : handle[d] = hcon => place[d] # k
      BY <3>1, <3>2, FreePlace
    <3> DEFINE p == [place EXCEPT ![c] = k]
    <3>4. /\ handle'[c] = hcon /\ p[c] = k /\ logins' = logins
          /\ \A d \in Calls : d # c => handle'[d] = handle[d] /\ p[d] = place[d]
      BY <1>4, <2>2, <3>1 DEF AllocStmt, TypeOK, conn
    <3>5. p \in [Calls -> Nat]
      <4>1. MaxHandles \in Nat
        BY SessionAssumption
      <4>2. k \in Nat
        BY <4>1
      <4> QED
        BY <4>2
    <3> HIDE DEF p
    <3>6. \A d \in Calls : handle'[d] # 0 => p[d] \in 1..MaxHandles /\ handle'[d] \in logins'
      BY <3>1, <3>2, <3>4 DEF Placed
    <3>7. \A d, e \in Calls : handle'[d] # 0 /\ handle'[d] = handle'[e] /\ p[d] = p[e] => d = e
      <4> SUFFICES ASSUME NEW d \in Calls, NEW e \in Calls,
                          handle'[d] # 0, handle'[d] = handle'[e], p[d] = p[e], d # e
                   PROVE  FALSE
        OBVIOUS
      <4>1. CASE d = c
        BY <3>3, <3>4, <4>1
      <4>2. CASE e = c
        BY <3>3, <3>4, <4>2
      <4>3. CASE d # c /\ e # c
        BY <3>2, <3>4, <4>3 DEF Placed
      <4> QED
        BY <4>1, <4>2, <4>3
    <3>8. \E q \in [Calls -> Nat] : Placed(q)'
      BY <3>5, <3>6, <3>7 DEF Placed
    <3>9. pc'[t] = "execute" /\ \A u \in Threads : u # t => pc'[u] = pc[u]
      BY <2>2, GotoPc DEF TypeOK, Labels, Busy, Before
    <3>10. \A d \in Calls : handle[d] # 0 => handle'[d] # 0
      BY <3>1, <3>4
    <3>11. \A u \in Threads : pc[u] \in {"execute", "read"} => doing[u] \in Calls
      BY DEF TypeOK, Busy, Before
    <3>12. \A u \in Threads : pc'[u] \in {"execute", "read"} => handle'[doing'[u]] # 0
      BY <2>2, <3>1, <3>4, <3>9, <3>10, <3>11 DEF HandleInv
    <3> QED
      BY <2>2, <3>8, <3>9, <3>10, <3>12 DEF HandleInv
  <2> QED
    BY <1>4, <2>1, <2>2 DEF AllocStmt
<1>5. ASSUME NEW t \in Threads, ExecuteDone(t) PROVE HandleInv'
  <2>1. CASE Return(t, "ok")
    BY <1>5, <2>1, HandleReturns DEF ExecuteDone, Busy, Before, conn
  <2>2. CASE ~KeepsHandle(doing[t]) /\ Goto(t, "read") /\ UNCHANGED <<doing, ret>>
    <3>1. pc[t] = "execute" /\ UNCHANGED <<handle, logins>>
      BY <1>5 DEF ExecuteDone, conn
    <3>2. \E place \in [Calls -> Nat] : Placed(place)'
      BY <3>1, PlacedFewer DEF HandleInv
    <3>3. pc'[t] = "read" /\ \A u \in Threads : u # t => pc'[u] = pc[u]
      BY <2>2, GotoPc DEF TypeOK, Labels, Busy
    <3> QED
      BY <2>2, <3>1, <3>2, <3>3 DEF HandleInv, KeepsHandle
  <2> QED
    BY <1>5, <2>1, <2>2 DEF ExecuteDone
<1>6. ASSUME NEW t \in Threads, ExecuteFails(t) PROVE HandleInv'
  BY <1>6, HandleReturns DEF ExecuteFails, Busy, Before, conn
<1>7. ASSUME NEW t \in Threads, Read(t) PROVE HandleInv'
  <2>1. Kind[doing[t]] = "query"
    BY <1>7 DEF Read, HandleInv
  <2> QED
    BY <1>7, <2>1, HandleReturns DEF Read, Busy, Before, conn
<1>8. CASE Drop
  <2>1. \E place \in [Calls -> Nat] : Placed(place)'
    BY <1>8, PlacedFewer DEF HandleInv, Drop
  <2> QED
    BY <1>8, <2>1 DEF HandleInv, Drop
<1>9. CASE UNCHANGED vars
  <2>1. \E place \in [Calls -> Nat] : Placed(place)'
    BY <1>9, PlacedFewer DEF HandleInv, vars
  <2> QED
    BY <1>9, <2>1 DEF HandleInv, vars
<1> QED
  BY <1>1, <1>2, <1>3, <1>4, <1>5, <1>6, <1>7, <1>8, <1>9 DEF Next

\* DataInsert never gives the handle of a report it stored back, so all
\* connections together take at most MaxHandles reports for each login.
THEOREM StoredWithinHandles == Spec => []StoreLimit
<1> DEFINE Inv == TypeOK /\ CallInv /\ LoginInv /\ HandleInv
<1>1. Inv => StoreLimit
  <2> SUFFICES ASSUME TypeOK, LoginInv, HandleInv PROVE StoreLimit
    OBVIOUS
  <2> DEFINE Reports == {c \in Calls : Kind[c] = "insert" /\ ret[c] = "ok"}
             Slots == logins \X (1..MaxHandles)
  <2>1. PICK place \in [Calls -> Nat] : Placed(place)
    BY DEF HandleInv
  <2> DEFINE slot == [c \in Reports |-> <<handle[c], place[c]>>]
  <2>2. \A c \in Reports : handle[c] # 0
    BY DEF HandleInv
  <2>3. slot \in [Reports -> Slots]
    BY <2>1, <2>2 DEF Placed
  <2>4. \A c, d \in Reports : slot[c] = slot[d] => c = d
    BY <2>1, <2>2 DEF Placed
  <2> HIDE DEF slot
  <2>5. slot \in Injection(Reports, Slots)
    BY <2>3, <2>4, Fun_IsInj
  <2>6. PICK by \in [logins -> Threads] : \A h, g \in logins : by[h] = by[g] => h = g
    BY DEF LoginInv
  <2>7. by \in Injection(logins, Threads)
    BY <2>6, Fun_IsInj
  <2>8. IsFiniteSet(logins)
    BY <2>7, SessionAssumption, FS_Injection
  <2>9. MaxHandles \in Nat /\ IsFiniteSet(1..MaxHandles) /\ Cardinality(1..MaxHandles) = MaxHandles
    BY SessionAssumption, FS_Interval
  <2>10. IsFiniteSet(Slots) /\ Cardinality(Slots) = Cardinality(logins) * MaxHandles
    BY <2>8, <2>9, FS_Product
  <2>11. Cardinality(Reports) <= Cardinality(Slots)
    BY <2>5, <2>10, FS_Injection
  <2>12. Cardinality(logins) \in Nat
    BY <2>8, FS_CardinalityType
  <2>13. Cardinality(logins) * MaxHandles = MaxHandles * Cardinality(logins)
    BY <2>9, <2>12
  <2> QED
    BY <2>10, <2>11, <2>13 DEF StoreLimit
<1>2. Init => Inv
  BY TypeInit, CallInit, LoginInit, HandleInit
<1>3. Inv /\ [Next]_vars => Inv'
  BY TypeNext, CallNext, LoginNext, HandleNext
<1> QED
  BY <1>1, <1>2, <1>3, PTL DEF Spec
=============================================================================
