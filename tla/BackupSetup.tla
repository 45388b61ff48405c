---------------------------- MODULE BackupSetup -----------------------------
(***************************************************************************)
(* CSqlGradOperate::SetDbBackup: before it serves, main turns on the        *)
(* database's archive log and sets up two backup jobs, one full and one     *)
(* incremental.  Each function runs a script of statements; the database   *)
(* outlives the program, which may fail or crash between any two of them   *)
(* and be started again.                                                   *)
(*                                                                         *)
(* SetBackUpDB, SetAddBackUp and AlterAddBackUp end without a return       *)
(* statement: what SetDbBackup sees is any value of FallOff.  Startup       *)
(* composes this with the rest of main.                                    *)
(***************************************************************************)
EXTENDS Integers, Sequences

CONSTANTS
    Inis,     \* contents of system_info.ini: a value for some <<section, key>>
    FallOff,  \* results of a function that falls off its end: of -1, 0, 1
    MaxFaults \* bound: failed statements, lost answers and crashes

ASSUME BackupAssumption ==
    FallOff \subseteq {-1, 0, 1} /\ FallOff # {} /\ MaxFaults \in Nat

VARIABLES
    ini,    \* the configuration file, which may be edited between two starts
    db,     \* the database: mode, archive log on, its destination, two jobs
    fn, k,  \* the function that runs and the statement it is at
    state,  \* "setup", then "ready" (main goes on) or "failed" (main has exited)
    missed, \* history: in this run a statement was not executed and its
            \* positive error code taken for success
    fell,   \* history: in this run a positive FallOff ended SetDbBackup
    faults

backupVars == <<ini, db, fn, k, state, missed, fell, faults>>

\* What a job has: it is created, has a step, a schedule, and is committed.
JobParts == {"created", "step", "schedule", "live"}

\* The error codes the functions look for: the database is mounted, or open,
\* already, the archive log has its destination, the job is there.
IsMounted == -510
IsOpen    == -514
DestThere == -806
JobThere  == -8413

-----------------------------------------------------------------------------
(* Mutants: plausible mistakes in the definitions below.                   *)

ToleratedNot510(stmt, code) ==
    \/ stmt = "addArchivelog" /\ code = DestThere
    \/ stmt = "open" /\ code = IsOpen

-----------------------------------------------------------------------------
(* The statements, in the order in which each function runs them.          *)

Script ==
    [ SetBackUpDB       |-> <<"mount", "archivelog", "addArchivelog", "open">>,
      SetCompliBackUp   |-> <<"create", "start", "addStep", "addSchedule", "commit">>,
      AlterCompliBackUp |-> <<"start", "alterStep", "alterSchedule", "commit">>,
      SetAddBackUp      |-> <<"create", "start", "addStep", "addSchedule", "commit">>,
      AlterAddBackUp    |-> <<"start", "alterStep", "alterSchedule", "commit">> ]

\* CSimpleIniEx::GetValue (external): the entry or the default.
Configured(section, key, default) ==
    IF <<section, key>> \in DOMAIN ini THEN ini[<<section, key>>] ELSE default

BackUpDir  == Configured("dbInfo", "BackUpDir", "/dm8/backup")
BackAddDir == Configured("dbInfo", "BackAddDir", "/dm8/backup")

\* Mutant of Step: the incremental job builds on the default directory.
StepDefaultBase(f) ==
    IF f \in {"SetCompliBackUp", "AlterCompliBackUp"} THEN <<BackUpDir>> ELSE <<"/dm8/backup", BackAddDir>>

\* What a job's step is told: the directory of the full backup and, for the
\* incremental one, that of its own behind it.  AlterCompliBackUp puts a
\* further slash in front of an absolute path, which names the same directory.
Step(f) ==
    IF f \in {"SetCompliBackUp", "AlterCompliBackUp"} THEN <<BackUpDir>> ELSE <<BackUpDir, BackAddDir>>

Job(f) == IF f \in {"SetCompliBackUp", "AlterCompliBackUp"} THEN "full" ELSE "add"

\* What a function does with an error code other than returning it.
Tolerated(stmt, code) ==
    \/ stmt = "mount" /\ code = IsMounted
    \/ stmt = "addArchivelog" /\ code = DestThere
    \/ stmt = "open" /\ code = IsOpen

\* SP_CREATE_JOB on a job that is there: the function to return through.
Alter(f) == IF f = "SetCompliBackUp" THEN "AlterCompliBackUp" ELSE "AlterAddBackUp"

\* What the function may return at its end.
Results(f) == IF Job(f) = "full" THEN {0} ELSE FallOff

\* What SetDbBackup calls after a function that returned 0.
Caller(f) ==
    CASE f = "SetBackUpDB" -> "SetCompliBackUp"
      [] Job(f) = "full" -> "SetAddBackUp"
      [] OTHER -> "main"

-----------------------------------------------------------------------------
(* The database (external): the code and the effect of a statement.        *)

Done(d) == [code |-> 0, db |-> d]
Error(c) == [code |-> c, db |-> db]

\* a job has its parts, the step it runs and the step it will run once the
\* configuration is committed
ExecJob(stmt, f) ==
    LET job == Job(f)
        has == db[job].parts
        With(part) == Done([db EXCEPT ![job].parts = @ \cup {part}])
        Told == Done([db EXCEPT ![job].parts = @ \cup {"step"}, ![job].next = Step(f)])
    IN  IF db.mode = "mount" \/ (stmt # "create" /\ "created" \notin has) THEN Error(-1) ELSE
        CASE stmt = "create" -> IF "created" \in has THEN Error(JobThere) ELSE With("created")
          [] stmt = "start" -> Done(db)
          [] stmt = "addStep" -> IF "step" \in has THEN Error(-1) ELSE Told
          [] stmt = "addSchedule" -> IF "schedule" \in has THEN Error(-1) ELSE With("schedule")
          [] stmt = "alterStep" -> IF "step" \in has THEN Told ELSE Error(-1)
          [] stmt = "alterSchedule" -> IF "schedule" \in has THEN Done(db) ELSE Error(-1)
          [] stmt = "commit" -> Done([db EXCEPT ![job].parts = @ \cup {"live"}, ![job].step = db[job].next])

Exec(stmt, f) ==
    CASE stmt = "mount" ->
            IF db.mode = "mount" THEN Error(IsMounted) ELSE Done([db EXCEPT !.mode = "mount"])
      [] stmt = "archivelog" ->
            IF db.mode = "mount" THEN Done([db EXCEPT !.log = TRUE]) ELSE Error(-1)
      [] stmt = "addArchivelog" ->
            IF db.dest THEN Error(DestThere) ELSE Done([db EXCEPT !.dest = TRUE])
      [] stmt = "open" ->
            IF db.mode = "open" THEN Error(IsOpen) ELSE Done([db EXCEPT !.mode = "open"])
      [] OTHER -> ExecJob(stmt, f)

\* BindSql2ExeEx: no connection or no handle (nothing is executed, the code
\* is -1 or SH_SQL_GETHANDLE_ERROR), or the answer to the statement is lost.
HandleError == 1
BindSql2ExeEx(stmt, f, out) ==
    \/ out = Exec(stmt, f) /\ faults' = faults
    \/ /\ out \in {Error(-1), Error(HandleError), [Exec(stmt, f) EXCEPT !.code = -1]}
       /\ faults < MaxFaults /\ faults' = faults + 1

-----------------------------------------------------------------------------
NoJob == [parts |-> {}, step |-> <<>>, next |-> <<>>]

BackupInit ==
    /\ ini \in Inis
    /\ db = [mode |-> "open", log |-> FALSE, dest |-> FALSE, full |-> NoJob, add |-> NoJob]
    /\ fn = "SetBackUpDB" /\ k = 1
    /\ state = "setup"
    /\ missed = FALSE /\ fell = FALSE
    /\ faults = 0

\* SetDbBackup and main on the result of the function that ends: negative
\* and main exits, positive and main goes on, 0 and the next one is called.
Finish(ret) ==
    /\ k' = 1
    /\ fell' = (fell \/ ret > 0)
    /\ state' = CASE ret < 0 -> "failed"
                  [] ret > 0 \/ (ret = 0 /\ Caller(fn) = "main") -> "ready"
                  [] OTHER -> "setup"
    /\ fn' = IF ret = 0 /\ Caller(fn) # "main" THEN Caller(fn) ELSE fn

\* One statement of the function that runs.
Statement ==
    LET stmt == Script[fn][k]
    IN  /\ state = "setup" /\ UNCHANGED ini
        /\ \E out \in {Exec(stmt, fn), Error(-1), Error(HandleError),
                       [Exec(stmt, fn) EXCEPT !.code = -1]} :
              /\ BindSql2ExeEx(stmt, fn, out)
              /\ db' = out.db
              /\ missed' = (missed \/ out.code = HandleError)
              /\ \/ /\ out.code < 0 /\ ~Tolerated(stmt, out.code)
                    /\ stmt = "create" /\ out.code = JobThere
                    /\ fn' = Alter(fn) /\ k' = 1 /\ UNCHANGED <<state, fell>>
                 \/ /\ out.code < 0 /\ ~Tolerated(stmt, out.code)
                    /\ ~(stmt = "create" /\ out.code = JobThere)
                    /\ Finish(out.code)
                 \/ /\ out.code >= 0 \/ Tolerated(stmt, out.code)
                    /\ k < Len(Script[fn])
                    /\ k' = k + 1 /\ UNCHANGED <<fn, state, fell>>
                 \/ /\ out.code >= 0 \/ Tolerated(stmt, out.code)
                    /\ k = Len(Script[fn])
                    /\ \E ret \in Results(fn) : Finish(ret)

\* What the end of main's session leaves of a job's configuration that was
\* not committed is up to the database (external).
Uncommitted(job) ==
    [db[job] EXCEPT !.parts = IF "live" \in @ THEN @ ELSE @ \cap {"created"}, !.next = db[job].step]

SessionEnds ==
    \/ db' = db
    \/ db' = [db EXCEPT !.full = Uncommitted("full"), !.add = Uncommitted("add")]

\* main is started again after it exited or crashed.
Restart ==
    /\ ini' \in Inis
    /\ fn' = "SetBackUpDB" /\ k' = 1 /\ state' = "setup"
    /\ missed' = FALSE /\ fell' = FALSE
    /\ SessionEnds

-----------------------------------------------------------------------------
(* Properties.                                                             *)

\* The database makes both backups: the archive log is on, the database open
\* and both jobs are complete, store where this start's configuration says,
\* and the incremental one builds on the directory of the full one.
BackedUp ==
    /\ db.mode = "open" /\ db.log /\ db.dest
    /\ db.full.parts = JobParts /\ db.add.parts = JobParts
    /\ db.full.step = <<BackUpDir>> /\ db.add.step = <<BackUpDir, BackAddDir>>

\* A database that a crash or an exit left mounted does not stay so: the next
\* start takes "already mounted" for success and gets to open it, unless it
\* takes a statement for executed that was not.
MountedIsOpened == (db.mode = "mount") ~> (db.mode = "open" \/ missed)
=============================================================================
