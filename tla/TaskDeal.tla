------------------------------ MODULE TaskDeal ------------------------------
(***************************************************************************)
(* CTaskDeal: the packets that the network threads hand to SolveTask, the  *)
(* thread pool that executes them and what executing one does.             *)
(*                                                                         *)
(* CMuduoServer::Start lets the network in before it starts the pool, and  *)
(* muduo's ThreadPool::run executes a task in the caller while it has no   *)
(* thread, so a task may run on a network thread as well as on a worker.   *)
(*                                                                         *)
(* Two places of the code are unfinished, and Builds says which builds are *)
(* looked at: in the committed one DecSm4Data is a stub (sm4 is FALSE) and *)
(* main never calls SetSqlCtl or SetFtpCtl (wired is FALSE).               *)
(***************************************************************************)
EXTENDS Integers, Sequences, FiniteSets, PacketMove

CONSTANTS
    Tasks,     \* the packets that arrive
    Version,   \* m_msgVersion of each
    Contents,  \* what the decrypted data of each may be, see Texts
    IoThreads, \* network threads
    Workers,   \* threads of the pool
    Builds,    \* builds [sm4, wired]: DecSm4Data decrypts, and main hands over
               \* the database and the ftp server
    None       \* no task

Backup == \h4300 \* the version of a request to set the backup period

\* A text is no JSON, has a member of the wrong type, has plain words or a
\* number or quoted text in its "data" member.
Texts == {"unparsable", "mistyped", "words", "literal"}

MsgVersions == 0..65535 \* what the field of a packet can hold

\* The versions with a table.
Versions == { \h4120, \h4121, \h4020, \h4021, \h4221, \h4222, \h4223,
              \h4224, \h4225, \h4226, \h4227, \h4228, \h4229 }

Threads == IoThreads \cup Workers

ASSUME TaskAssumption ==
    /\ Version \in [Tasks -> MsgVersions]
    /\ Contents \subseteq [Tasks -> Texts]
    /\ IoThreads \cap Workers = {}
    /\ None \notin Tasks
    /\ Builds \subseteq [sm4 : BOOLEAN, wired : BOOLEAN]

VARIABLES
    build,   \* the build that runs
    content, \* the decrypted data of each packet
    proc,    \* "setup" in main, then "up" until it is "exited" or "aborted"
    pdbCtl,  \* m_pdbCtl: "null", "wild" (uninitialised) or "set"
    pftpCtl, \* m_pftpCtl, likewise
    threads, \* the pool's threads that are started
    queue,   \* the pool's queue of tasks
    handed,  \* history: tasks that SolveTask got, in order
    given,   \* history: tasks given to a thread to execute, in order
    doing,   \* the task each thread executes
    stage,   \* how far it is: "idle", in ExcuteTask ("begin", "insert"), or a
             \* network thread that is about to leave SolveTask ("leave")
    ended,   \* tasks whose ExcuteTask has ended, in whatever way
    rows     \* the rows in the database, in order: task and table

vars == <<build, content, proc, pdbCtl, pftpCtl, threads, queue, handed, given, doing, stage, ended, rows>>
pool == <<threads, queue, handed, given>>
ctl == <<build, content, pdbCtl, pftpCtl>>

-----------------------------------------------------------------------------
(* Mutants: plausible mistakes in the definitions below.                   *)

ExecutableAlways(text) == text \in {"words", "literal"}

-----------------------------------------------------------------------------
\* m_mapTableName: one table per version, but 0x4020 and 0x4223 share one.
\* A table is named here by the first version that uses it.
InitVerTableName == [v \in Versions |-> IF v = \h4223 THEN \h4020 ELSE v]

Known(t) == Version[t] \in Versions

\* DecSm4Data leaves dataOut as it is: empty, which is no JSON.
DecSm4Data(t) == IF build.sm4 THEN content[t] ELSE "unparsable"

\* GetInserDataInOrder quotes every string but "data".
Executable(text) == text = "literal"

\* ExcuteTask names the table of 0x4120 for every report.
InsertTable(t) == InitVerTableName[\h4120]

-----------------------------------------------------------------------------
(* The members m_pdbCtl and m_pftpCtl are not initialised.                 *)
Init ==
    /\ build \in Builds /\ content \in Contents
    /\ proc = "setup"
    /\ pdbCtl \in {"null", "wild"}
    /\ pftpCtl \in {"null", "wild"}
    /\ threads = {}
    /\ queue = <<>> /\ handed = <<>> /\ given = <<>>
    /\ doing = [x \in Threads |-> None]
    /\ stage = [x \in Threads |-> "idle"]
    /\ ended = {}
    /\ rows = <<>>

\* A member is set only if it happens to be NULL.
SetSqlCtl ==
    /\ proc = "setup" /\ build.wired /\ pdbCtl = "null"
    /\ pdbCtl' = "set"
    /\ UNCHANGED <<build, content, proc, pftpCtl, pool, doing, stage, ended, rows>>

SetFtpCtl ==
    /\ proc = "setup" /\ build.wired /\ pftpCtl = "null"
    /\ pftpCtl' = "set"
    /\ UNCHANGED <<build, content, proc, pdbCtl, pool, doing, stage, ended, rows>>

\* m_server.start() in CMuduoServer::Start: packets may arrive from here on.
StartServer ==
    /\ proc = "setup"
    /\ build.wired => pdbCtl # "null" /\ pftpCtl # "null"
    /\ proc' = "up"
    /\ UNCHANGED <<ctl, pool, doing, stage, ended, rows>>

\* m_taskDeal.Start(): ThreadPool::start starts the threads one by one.
Start(w) ==
    /\ proc = "up"
    /\ w \in Workers \ threads
    /\ threads' = threads \cup {w}
    /\ UNCHANGED <<proc, ctl, queue, handed, given, doing, stage, ended, rows>>

Arrived == { handed[i] : i \in 1..Len(handed) }

\* Mutant: the packet is handed over before it is known whether the pool has
\* threads, and executed here as well.
SolveTaskTwice(io, t) ==
    /\ proc = "up" /\ stage[io] = "idle" /\ t \notin Arrived
    /\ handed' = Append(handed, t)
    /\ queue' = Append(queue, t)
    /\ given' = Append(given, t)
    /\ doing' = [doing EXCEPT ![io] = t]
    /\ stage' = [stage EXCEPT ![io] = "begin"]
    /\ UNCHANGED <<proc, ctl, threads, ended, rows>>

\* ThreadPool::run executes a task in the caller while the pool has no thread.
RunsInline == threads = {}

\* SolveTask then: the network thread executes.
SolveTaskInline(io, t) ==
    /\ RunsInline
    /\ given' = Append(given, t)
    /\ doing' = [doing EXCEPT ![io] = t]
    /\ stage' = [stage EXCEPT ![io] = "begin"]
    /\ UNCHANGED queue

\* SolveTask once the pool has a thread: the queue has no limit.
SolveTaskQueued(io, t) ==
    /\ ~RunsInline
    /\ queue' = Append(queue, t)
    /\ stage' = [stage EXCEPT ![io] = "leave"]
    /\ UNCHANGED <<given, doing>>

\* Mutant: a backup request does not wait behind the reports: the network thread
\* executes it.
SolveTaskUrgent(io, t) ==
    /\ proc = "up" /\ stage[io] = "idle" /\ t \notin Arrived
    /\ handed' = Append(handed, t)
    /\ \/ Version[t] # Backup /\ SolveTaskQueued(io, t)
       \/ /\ Version[t] = Backup \/ RunsInline
          /\ given' = Append(given, t)
          /\ doing' = [doing EXCEPT ![io] = t]
          /\ stage' = [stage EXCEPT ![io] = "begin"]
          /\ UNCHANGED queue
    /\ UNCHANGED <<proc, ctl, threads, ended, rows>>

\* A network thread hands a packet over, moving it into the bound task.
SolveTask(io, t) ==
    /\ proc = "up" /\ stage[io] = "idle" /\ t \notin Arrived
    /\ handed' = Append(handed, t)
    /\ SolveTaskInline(io, t) \/ SolveTaskQueued(io, t)
    /\ UNCHANGED <<proc, ctl, threads, ended, rows>>

\* The packets that were moved from (onMessage's, SolveTask's parameter and the
\* one in the temporary that std::bind returns) are destroyed when run() has
\* returned, so when the task is in the queue or was executed here.  All three
\* survive that, or one whose pointer was changed ends the process.
LeaveSolveTask(io) ==
    /\ proc = "up" /\ stage[io] = "leave"
    /\ \/ /\ \E low \in PointerLow : Survives(low)
          /\ stage' = [stage EXCEPT ![io] = "idle"]
          /\ UNCHANGED proc
       \/ /\ \E low \in PointerLow : ~Survives(low)
          /\ proc' = "aborted"
          /\ UNCHANGED stage
    /\ UNCHANGED <<ctl, pool, doing, ended, rows>>

\* ThreadPool::runInThread takes the oldest task.
Take(w) ==
    /\ proc = "up" /\ w \in threads /\ stage[w] = "idle" /\ queue # <<>>
    /\ doing' = [doing EXCEPT ![w] = Head(queue)]
    /\ given' = Append(given, Head(queue))
    /\ queue' = Tail(queue)
    /\ stage' = [stage EXCEPT ![w] = "begin"]
    /\ UNCHANGED <<proc, ctl, threads, handed, ended, rows>>

-----------------------------------------------------------------------------
(* ExcuteTask.                                                             *)

Return(x) ==
    /\ ended' = ended \cup {doing[x]}
    /\ doing' = [doing EXCEPT ![x] = None]
    /\ stage' = [stage EXCEPT ![x] = IF x \in IoThreads THEN "leave" ELSE "idle"]
    /\ UNCHANGED <<proc, ctl, pool>>

\* exit(-1), or an exception or a wild pointer that aborts the process.
Die(x, how) ==
    /\ proc' = how
    /\ ended' = ended \cup {doing[x]}
    /\ UNCHANGED <<ctl, pool, doing, stage, rows>>

\* case 0x4300: RetSetTimeSpan on m_pftpCtl.
ExcuteBackup(x) ==
    /\ proc = "up" /\ stage[x] = "begin" /\ Version[doing[x]] = Backup
    /\ \/ pftpCtl = "set" /\ Return(x) /\ UNCHANGED rows
       \/ pftpCtl # "set" /\ Die(x, "aborted")

\* default: a version that is not in the map is dropped.
ExcuteUnknown(x) ==
    /\ proc = "up" /\ stage[x] = "begin"
    /\ Version[doing[x]] # Backup /\ ~Known(doing[x])
    /\ Return(x)
    /\ UNCHANGED rows

\* Mutant: what DataInfoBase throws is caught and the report dropped.
ExcuteParseCatches(x) ==
    LET text == DecSm4Data(doing[x])
    IN  /\ proc = "up" /\ stage[x] = "begin" /\ Version[doing[x]] # Backup
        /\ Known(doing[x])
        /\ \/ text = "unparsable" /\ Die(x, "exited")
           \/ text = "mistyped" /\ Return(x) /\ UNCHANGED rows
           \/ text \in {"words", "literal"} /\ pdbCtl # "set" /\ Die(x, "aborted")
           \/ /\ text \in {"words", "literal"} /\ pdbCtl = "set"
              /\ stage' = [stage EXCEPT ![x] = "insert"]
              /\ UNCHANGED <<proc, ctl, pool, doing, ended, rows>>

\* default: DataInfoBase exits on text that is no JSON and throws on a
\* member of the wrong type; GetModelName needs m_pdbCtl.
ExcuteParse(x) ==
    LET text == DecSm4Data(doing[x])
    IN  /\ proc = "up" /\ stage[x] = "begin" /\ Version[doing[x]] # Backup
        /\ Known(doing[x])
        /\ \/ text = "unparsable" /\ Die(x, "exited")
           \/ text = "mistyped" /\ Die(x, "aborted")
           \/ text \in {"words", "literal"} /\ pdbCtl # "set" /\ Die(x, "aborted")
           \/ /\ text \in {"words", "literal"} /\ pdbCtl = "set"
              /\ stage' = [stage EXCEPT ![x] = "insert"]
              /\ UNCHANGED <<proc, ctl, pool, doing, ended, rows>>

\* Mutant: a refused statement is tried again instead of being dropped.
ExcuteInsertRetry(x) ==
    /\ proc = "up" /\ stage[x] = "insert"
    /\ Executable(DecSm4Data(doing[x]))
    /\ rows' = Append(rows, [task |-> doing[x], table |-> InsertTable(doing[x])])
    /\ Return(x)

\* DataInsert, whose result is ignored: the database may refuse the
\* statement or be away.
ExcuteInsert(x) ==
    /\ proc = "up" /\ stage[x] = "insert"
    /\ \/ /\ Executable(DecSm4Data(doing[x]))
          /\ rows' = Append(rows, [task |-> doing[x], table |-> InsertTable(doing[x])])
       \/ rows' = rows
    /\ Return(x)

ExcuteTask(x) ==
    ExcuteBackup(x) \/ ExcuteUnknown(x) \/ ExcuteParse(x) \/ ExcuteInsert(x)

Next ==
    \/ SetSqlCtl \/ SetFtpCtl \/ StartServer
    \/ \E w \in Workers : Start(w) \/ Take(w)
    \/ \E io \in IoThreads : LeaveSolveTask(io) \/ \E t \in Tasks : SolveTask(io, t)
    \/ \E x \in Threads : ExcuteTask(x)

\* main starts the server and the pool, and the operating system runs every
\* thread that has something to do.
Fairness ==
    /\ WF_vars(SetSqlCtl) /\ WF_vars(SetFtpCtl) /\ WF_vars(StartServer)
    /\ \A w \in Workers : WF_vars(Start(w)) /\ WF_vars(Take(w))
    /\ \A io \in IoThreads : WF_vars(LeaveSolveTask(io))
    /\ \A x \in Threads : WF_vars(ExcuteTask(x))

Spec == Init /\ [][Next]_vars /\ Fairness

-----------------------------------------------------------------------------
(* Properties.                                                             *)

\* No packet is given to two threads, queued twice, or queued or executed
\* again after it was, whichever way SolveTask went.
ExecutedOnce ==
    /\ \A i, j \in 1..Len(given) : given[i] = given[j] => i = j
    /\ \A x, y \in Threads : doing[x] = doing[y] /\ doing[x] # None => x = y
    /\ proc = "up" => \A x \in Threads : doing[x] \notin ended
    /\ \A i \in 1..Len(queue) : /\ queue[i] \notin ended
                                /\ \A x \in Threads : doing[x] # queue[i]

\* Packets are given to threads in the order in which SolveTask got them, and
\* none is lost on the way: one that arrives while the pool is being started
\* is not overtaken by those the network threads execute themselves, what was
\* not given yet waits in the queue, and what was given is in execution or has
\* ended.
GivenInOrder ==
    /\ handed = given \o queue
    /\ \A i \in 1..Len(given) : given[i] \in ended \/ \E x \in Threads : doing[x] = given[i]

\* A row in the database is there once, and comes from an executed report of
\* a known version that is well formed.
RowsAreReports ==
    /\ \A i, j \in 1..Len(rows) : rows[i].task = rows[j].task => i = j
    /\ \A i \in 1..Len(rows) :
          LET t == rows[i].task
          IN  t \in ended /\ Version[t] \in Versions /\ content[t] = "literal"

\* A packet ends the process: a backup request while there is no ftp server
\* to tell, or a known report that is malformed or has no database to go to.
Fatal(t) ==
    \/ Version[t] = Backup /\ pftpCtl # "set"
    \/ /\ Version[t] \in Versions
       /\ DecSm4Data(t) \in {"unparsable", "mistyped"} \/ pdbCtl # "set"

\* Such a packet takes the process and all that waits with it down, however
\* many are queued before it and whichever thread gets it: nothing on the way
\* from SolveTask to the INSERT absorbs it.
FatalEnds ==
    (\E t \in Arrived : Fatal(t)) ~> proc \in {"exited", "aborted"}

\* Every packet that SolveTask got is executed unless the process ends first.
EveryTaskEnds ==
    \A t \in Tasks : (t \in Arrived) ~> (t \in ended \/ proc # "up")
=============================================================================
