--------------------------- MODULE StartupProofs ----------------------------
(***************************************************************************)
(* What main has brought up by the time it serves, for any contents of the *)
(* configuration file, any results of the functions that fall off their    *)
(* end and any number of faults and restarts; and, at the end, what the    *)
(* object that holds the configuration keeps of a file's memory.           *)
(***************************************************************************)
EXTENDS Startup, SimpleIni, WellFoundedInduction, TLAPS

\* The functions of SetDbBackup.
JobFns == {"SetCompliBackUp", "AlterCompliBackUp", "SetAddBackUp", "AlterAddBackUp"}
Fns == JobFns \cup {"SetBackUpDB"}

-----------------------------------------------------------------------------
(* Types.  What the configuration may say is any value, so that a record   *)
(* is only said to have its fields.                                        *)

\* A job.
IsJob(j) == DOMAIN j = {"parts", "step", "next"} /\ j.parts \subseteq JobParts

\* A database.
IsDb(d) ==
    /\ DOMAIN d = {"mode", "log", "dest", "full", "add"}
    /\ d.mode \in {"open", "mount"} /\ d.log \in BOOLEAN /\ d.dest \in BOOLEAN
    /\ IsJob(d.full) /\ IsJob(d.add)

\* SetDbBackup is at a statement of one of its functions.
SetupOK == IsDb(db) /\ fn \in Fns /\ k \in 1..Len(Script[fn])

\* The report server is started last.
StartedInv == stage # "serving" => net.started = FALSE

\* main is behind SetDbBackup only if that returned, and behind StartFtp only
\* with an ftp server.
StageInv ==
    /\ stage = "startFtp" => "started" \in DOMAIN ftp
    /\ stage \in {"ftp", "startFtp", "net", "startNet", "serving"} => state = "ready"
    /\ stage \in {"net", "startNet", "serving"} => ftp.started = TRUE

-----------------------------------------------------------------------------
(* What a statement has achieved once it was executed, or was taken for it. *)

\* The part that a statement gives its job, or finds there.
Part(stmt) ==
    CASE stmt \in {"create", "start"} -> "created"
      [] stmt \in {"addStep", "alterStep"} -> "step"
      [] stmt \in {"addSchedule", "alterSchedule"} -> "schedule"
      [] stmt = "commit" -> "live"

\* What stmt of f is for is there.
Holds(d, stmt, f) ==
    /\ stmt = "archivelog" => d.log = TRUE
    /\ stmt = "addArchivelog" => d.dest = TRUE
    /\ stmt = "open" => d.mode = "open"
    /\ f \in JobFns => Part(stmt) \in d[Job(f)].parts
    /\ stmt \in {"addStep", "alterStep"} => d[Job(f)].next = Step(f)
    /\ stmt = "commit" => d[Job(f)].step = d[Job(f)].next

\* What SetBackUpDB is for, and what the functions of a job are.
LogOn(d) == d.mode = "open" /\ d.log = TRUE /\ d.dest = TRUE
JobOn(d, f) == d[Job(f)].parts = JobParts /\ d[Job(f)].step = Step(f)

\* The statements before n of f have achieved what they are for, and so have
\* the functions before f.
SetupAt(d, f, n, st) ==
    /\ st = "setup" =>
          /\ \A i \in 1..(n - 1) : Holds(d, Script[f][i], f)
          /\ f \in JobFns => LogOn(d)
          /\ f \in {"SetAddBackUp", "AlterAddBackUp"} => JobOn(d, "SetCompliBackUp")
    /\ st = "ready" => LogOn(d) /\ JobOn(d, "SetCompliBackUp") /\ JobOn(d, "SetAddBackUp")

\* ... in a run in which nothing was missed.
SetupInv == ~missed /\ ~fell => SetupAt(db, fn, k, state)

-----------------------------------------------------------------------------
(* The stages of main.                                                     *)

\* The settings are read from a file that does not change while main runs.
LEMMA SameIni ==
    ASSUME UNCHANGED ini
    PROVE  \A section, key, default : Configured(section, key, default)' = Configured(section, key, default)
BY Zenon DEF Configured

\* How a statement ends: SP_CREATE_JOB finds the job, or the function returns
\* an error, goes on to its next statement, or is at its end.
Executed(stmt, out) == out.code >= 0 \/ Tolerated(stmt, out.code)

JobIsThere(stmt, out) ==
    /\ stmt = "create" /\ out.code = JobThere
    /\ fn' = Alter(fn) /\ k' = 1 /\ UNCHANGED <<state, fell>>

Fails(out) == out.code < 0 /\ Finish(out.code)

GoesOn(stmt, out) ==
    /\ Executed(stmt, out)
    /\ k < Len(Script[fn]) /\ k' = k + 1 /\ UNCHANGED <<fn, state, fell>>

Ends(stmt, out) ==
    /\ Executed(stmt, out)
    /\ k = Len(Script[fn]) /\ \E ret \in Results(fn) : Finish(ret)

\* A statement ends in one of the four ways.
LEMMA StatementEnds ==
    ASSUME Statement
    PROVE  LET stmt == Script[fn][k]
           IN  /\ state = "setup" /\ UNCHANGED ini
               /\ \E out \in {Exec(stmt, fn), Error(-1), Error(HandleError), [Exec(stmt, fn) EXCEPT !.code = -1]} :
                     /\ db' = out.db /\ missed' = (missed \/ out.code = HandleError)
                     /\ JobIsThere(stmt, out) \/ Fails(out) \/ GoesOn(stmt, out) \/ Ends(stmt, out)
<1> DEFINE stmt == Script[fn][k]
           Outs == {Exec(stmt, fn), Error(-1), Error(HandleError), [Exec(stmt, fn) EXCEPT !.code = -1]}
           End(out) == \/ /\ out.code < 0 /\ ~Tolerated(stmt, out.code)
                          /\ stmt = "create" /\ out.code = JobThere
                          /\ fn' = Alter(fn) /\ k' = 1 /\ UNCHANGED <<state, fell>>
                       \/ /\ out.code < 0 /\ ~Tolerated(stmt, out.code)
                          /\ ~(stmt = "create" /\ out.code = JobThere)
                          /\ Finish(out.code)
                       \/ /\ out.code >= 0 \/ Tolerated(stmt, out.code)
                          /\ k < Len(Script[fn])
                          /\ k' = k + 1 /\ UNCHANGED <<fn, state, fell>>
                       \/ /\ out.code >= 0 \/ Tolerated(stmt, out.code)
                          /\ k = Len(Script[fn])
                          /\ \E ret \in Results(fn) : Finish(ret)
<1> HIDE DEF stmt
<1>1. ASSUME NEW out, End(out)
      PROVE  JobIsThere(stmt, out) \/ Fails(out) \/ GoesOn(stmt, out) \/ Ends(stmt, out)
  BY <1>1, Zenon DEF JobIsThere, Fails, GoesOn, Ends, Executed
<1> HIDE DEF End
<1>2. /\ state = "setup" /\ UNCHANGED ini
      /\ \E out \in Outs : /\ db' = out.db /\ missed' = (missed \/ out.code = HandleError)
                           /\ End(out)
  BY Zenon DEF Statement, stmt, End
<1> QED
  BY <1>1, <1>2, Zenon DEF stmt

\* A statement decides where main is next, and nothing else outside of the
\* backups.
LEMMA BackupStage ==
    ASSUME SetDbBackup
    PROVE  /\ stage = "backup" /\ stage' \in {"backup", "ftp", "exited"} /\ UNCHANGED <<ini, ftp, net>>
           /\ state' \in {"setup", "ready", "failed"}
<1>1. stage = "backup" /\ UNCHANGED <<ini, ftp, net>> /\ Statement
  BY Zenon DEF SetDbBackup, Statement
<1>2. state' \in {"setup", "ready", "failed"}
  <2>1. ASSUME NEW ret, Finish(ret) PROVE state' \in {"setup", "ready", "failed"}
    BY <2>1 DEF Finish
  <2>2. state = "setup"
    BY <1>1, Zenon DEF Statement
  <2> QED
    BY <1>1, <2>1, <2>2, StatementEnds, Zenon DEF JobIsThere, Fails, GoesOn, Ends
<1>3. stage' = CASE state' = "setup" -> "backup" [] state' = "ready" -> "ftp" [] state' = "failed" -> "exited"
  BY Zenon DEF SetDbBackup
<1> QED
  BY <1>1, <1>2, <1>3

\* The constructor of Cftp ends the program or makes the object.
LEMMA FtpMade ==
    ASSUME ConstructFtp
    PROVE  /\ stage = "ftp" /\ UNCHANGED backupVars /\ UNCHANGED net
           /\ stage' = "exited" \/ (stage' = "startFtp" /\ "started" \in DOMAIN ftp')
<1>1. ASSUME NEW p \in Garbage, MakeFtp(p) PROVE "started" \in DOMAIN ftp'
  BY <1>1 DEF MakeFtp
<1> QED
  BY <1>1, Zenon DEF ConstructFtp, Exit

\* So does that of CMuduoServer.
LEMMA NetMade ==
    ASSUME ConstructServer
    PROVE  /\ stage = "net" /\ UNCHANGED backupVars /\ UNCHANGED ftp
           /\ stage' \in {"exited", "startNet"}
BY DEF ConstructServer, Exit

\* No step but the last starts the report server, and no step but a start
\* leaves it.
LEMMA StartedNext ==
    ASSUME StartedInv, [Next]_vars
    PROVE  StartedInv'
<1>1. CASE FromTheStart
  BY <1>1 DEF FromTheStart, NoNet, StartedInv
<1>2. CASE InitSchema \/ StartFtp
  <2>1. stage # "serving" /\ UNCHANGED net
    BY <1>2, Zenon DEF InitSchema, StartFtp
  <2> QED
    BY <2>1 DEF StartedInv
<1>3. CASE SetDbBackup \/ ConstructFtp
  <2>1. stage # "serving" /\ UNCHANGED net
    BY <1>3, BackupStage, FtpMade, Zenon
  <2> QED
    BY <2>1 DEF StartedInv
<1>4. CASE ConstructServer
  <2>1. stage = "net" /\ (net' = net \/ MakeNet)
    BY <1>4, Zenon DEF ConstructServer
  <2>2. MakeNet => net'.started = FALSE
    BY DEF MakeNet
  <2> QED
    BY <2>1, <2>2 DEF StartedInv
<1>5. CASE StartServer
  <2>1. stage = "startNet" /\ (stage' = "serving" \/ UNCHANGED net)
    BY <1>5, Zenon DEF StartServer
  <2> QED
    BY <2>1 DEF StartedInv
<1>6. CASE UpdateCompliBackUp \/ UNCHANGED vars
  <2>1. UNCHANGED stage /\ UNCHANGED net
    BY <1>6, Zenon DEF UpdateCompliBackUp, vars
  <2> QED
    BY <2>1 DEF StartedInv
<1> QED
  BY <1>1, <1>2, <1>3, <1>4, <1>5, <1>6, Zenon DEF Next, Main, StartAgain, Crash

-----------------------------------------------------------------------------
(* The scripts.                                                            *)

\* The statements of SetBackUpDB, and those on a job.
LogStmts == {"mount", "archivelog", "addArchivelog", "open"}
JobStmts == {"create", "start", "addStep", "alterStep", "addSchedule", "alterSchedule", "commit"}

\* Sequences of four elements ...
LEMMA Four ==
    ASSUME NEW s, NEW a, NEW b, NEW c, NEW d, s = <<a, b, c, d>>
    PROVE  Len(s) = 4 /\ s[1] = a /\ s[2] = b /\ s[3] = c /\ s[4] = d
OBVIOUS

\* ... and of five.
LEMMA Five ==
    ASSUME NEW s, NEW a, NEW b, NEW c, NEW d, NEW e, s = <<a, b, c, d, e>>
    PROVE  Len(s) = 5 /\ s[1] = a /\ s[2] = b /\ s[3] = c /\ s[4] = d /\ s[5] = e
OBVIOUS

\* The scripts, statement by statement.
LEMMA TheScripts ==
    ASSUME NEW f \in Fns
    PROVE  LET s == Script[f]
           IN  /\ f = "SetBackUpDB" =>
                     /\ Len(s) = 4 /\ s[1] = "mount" /\ s[2] = "archivelog" /\ s[3] = "addArchivelog"
                     /\ s[4] = "open"
               /\ f \in {"SetCompliBackUp", "SetAddBackUp"} =>
                     /\ Len(s) = 5 /\ s[1] = "create" /\ s[2] = "start" /\ s[3] = "addStep"
                     /\ s[4] = "addSchedule" /\ s[5] = "commit"
               /\ f \in {"AlterCompliBackUp", "AlterAddBackUp"} =>
                     /\ Len(s) = 4 /\ s[1] = "start" /\ s[2] = "alterStep" /\ s[3] = "alterSchedule"
                     /\ s[4] = "commit"
<1> DEFINE s == Script[f]
<1>1. CASE f = "SetBackUpDB"
  <2>1. s = <<"mount", "archivelog", "addArchivelog", "open">>
    BY <1>1 DEF Script
  <2> HIDE DEF s
  <2>2. Len(s) = 4 /\ s[1] = "mount" /\ s[2] = "archivelog" /\ s[3] = "addArchivelog" /\ s[4] = "open"
    BY <2>1, Four, Zenon
  <2> QED
    BY <1>1, <2>2 DEF s
<1>2. CASE f \in {"SetCompliBackUp", "SetAddBackUp"}
  <2>1. s = <<"create", "start", "addStep", "addSchedule", "commit">>
    <3>1. CASE f = "SetCompliBackUp"
      BY <3>1 DEF Script
    <3>2. CASE f = "SetAddBackUp"
      BY <3>2 DEF Script
    <3> QED
      BY <1>2, <3>1, <3>2, Zenon
  <2> HIDE DEF s
  <2>2. /\ Len(s) = 5 /\ s[1] = "create" /\ s[2] = "start" /\ s[3] = "addStep"
        /\ s[4] = "addSchedule" /\ s[5] = "commit"
    BY <2>1, Five, Zenon
  <2> QED
    BY <1>2, <2>2 DEF s
<1>3. CASE f \in {"AlterCompliBackUp", "AlterAddBackUp"}
  <2>1. s = <<"start", "alterStep", "alterSchedule", "commit">>
    <3>1. CASE f = "AlterCompliBackUp"
      BY <3>1 DEF Script
    <3>2. CASE f = "AlterAddBackUp"
      BY <3>2 DEF Script
    <3> QED
      BY <1>3, <3>1, <3>2, Zenon
  <2> HIDE DEF s
  <2>2. Len(s) = 4 /\ s[1] = "start" /\ s[2] = "alterStep" /\ s[3] = "alterSchedule" /\ s[4] = "commit"
    BY <2>1, Four, Zenon
  <2> QED
    BY <1>3, <2>2 DEF s
<1> QED
  BY <1>1, <1>2, <1>3, Zenon DEF Fns, JobFns

\* Only the first statement mounts the database, and only the last commits.
LEMMA Scripts ==
    ASSUME NEW f \in Fns, NEW n \in 1..Len(Script[f])
    PROVE  /\ f = "SetBackUpDB" => Script[f][n] \in LogStmts
           /\ f = "SetBackUpDB" /\ n > 1 => Script[f][n] # "mount"
           /\ f \in JobFns => Script[f][n] \in JobStmts
           /\ n < Len(Script[f]) => Script[f][n] # "commit"
<1> DEFINE s == Script[f]
<1>0. n \in 1..Len(s)
  OBVIOUS
<1>1. CASE f = "SetBackUpDB"
  <2>1. Len(s) = 4 /\ s[1] = "mount" /\ s[2] = "archivelog" /\ s[3] = "addArchivelog" /\ s[4] = "open"
    BY <1>1, TheScripts, Zenon
  <2> HIDE DEF s
  <2>2. n = 1 \/ n = 2 \/ n = 3 \/ n = 4
    BY <1>0, <2>1
  <2>3. s[n] \in LogStmts /\ (n > 1 => s[n] # "mount") /\ s[n] # "commit" /\ f \notin JobFns
    BY <1>1, <2>1, <2>2 DEF LogStmts, JobFns
  <2> QED
    BY <1>1, <2>3, Zenon DEF s
<1>2. CASE f \in {"SetCompliBackUp", "SetAddBackUp"}
  <2>1. /\ Len(s) = 5 /\ s[1] = "create" /\ s[2] = "start" /\ s[3] = "addStep"
        /\ s[4] = "addSchedule" /\ s[5] = "commit"
    BY <1>2, TheScripts, Zenon
  <2> HIDE DEF s
  <2>2. n = 1 \/ n = 2 \/ n = 3 \/ n = 4 \/ n = 5
    BY <1>0, <2>1
  <2>3. s[n] \in JobStmts /\ (n < Len(s) => s[n] # "commit") /\ f # "SetBackUpDB"
    BY <1>2, <2>1, <2>2 DEF JobStmts
  <2> QED
    BY <2>3, Zenon DEF s
<1>3. CASE f \in {"AlterCompliBackUp", "AlterAddBackUp"}
  <2>1. Len(s) = 4 /\ s[1] = "start" /\ s[2] = "alterStep" /\ s[3] = "alterSchedule" /\ s[4] = "commit"
    BY <1>3, TheScripts, Zenon
  <2> HIDE DEF s
  <2>2. n = 1 \/ n = 2 \/ n = 3 \/ n = 4
    BY <1>0, <2>1
  <2>3. s[n] \in JobStmts /\ (n < Len(s) => s[n] # "commit") /\ f # "SetBackUpDB"
    BY <1>3, <2>1, <2>2 DEF JobStmts
  <2> QED
    BY <2>3, Zenon DEF s
<1> QED
  BY <1>1, <1>2, <1>3, Zenon DEF Fns, JobFns

\* What a function has achieved at its end.
LEMMA ScriptDone ==
    ASSUME NEW d, NEW f \in Fns, \A n \in 1..Len(Script[f]) : Holds(d, Script[f][n], f)
    PROVE  /\ f = "SetBackUpDB" => LogOn(d)
           /\ f \in JobFns => JobParts \subseteq d[Job(f)].parts /\ d[Job(f)].step = Step(f)
<1> DEFINE s == Script[f]
<1>0. \A n \in 1..Len(s) : Holds(d, s[n], f)
  OBVIOUS
<1>1. CASE f = "SetBackUpDB"
  <2>1. Len(s) = 4 /\ s[1] = "mount" /\ s[2] = "archivelog" /\ s[3] = "addArchivelog" /\ s[4] = "open"
    BY <1>1, TheScripts, Zenon
  <2> HIDE DEF s
  <2>2. Holds(d, "archivelog", f) /\ Holds(d, "addArchivelog", f) /\ Holds(d, "open", f)
    BY <1>0, <2>1
  <2> QED
    BY <1>1, <2>2 DEF LogOn, Holds, JobFns
<1>2. ASSUME f \in JobFns, Holds(d, "start", f), NEW a \in {"addStep", "alterStep"},
             NEW b \in {"addSchedule", "alterSchedule"},
             Holds(d, a, f), Holds(d, b, f), Holds(d, "commit", f)
      PROVE  JobParts \subseteq d[Job(f)].parts /\ d[Job(f)].step = Step(f)
  <2>1. Part("start") = "created" /\ Part(a) = "step" /\ Part(b) = "schedule" /\ Part("commit") = "live"
    BY DEF Part
  <2>2. {Part("start"), Part(a), Part(b), Part("commit")} \subseteq d[Job(f)].parts
    BY <1>2, Zenon DEF Holds
  <2>3. d[Job(f)].step = Step(f)
    BY <1>2, Zenon DEF Holds
  <2> QED
    BY <2>1, <2>2, <2>3, Zenon DEF JobParts
<1>3. CASE f \in {"SetCompliBackUp", "SetAddBackUp"}
  <2>1. /\ Len(s) = 5 /\ s[1] = "create" /\ s[2] = "start" /\ s[3] = "addStep"
        /\ s[4] = "addSchedule" /\ s[5] = "commit"
    BY <1>3, TheScripts, Zenon
  <2> HIDE DEF s
  <2>2. /\ Holds(d, "start", f) /\ Holds(d, "addStep", f) /\ Holds(d, "addSchedule", f)
        /\ Holds(d, "commit", f)
    BY <1>0, <2>1
  <2>3. f \in JobFns /\ f # "SetBackUpDB"
    BY <1>3 DEF JobFns
  <2> QED
    BY <1>2, <2>2, <2>3, Zenon
<1>4. CASE f \in {"AlterCompliBackUp", "AlterAddBackUp"}
  <2>1. Len(s) = 4 /\ s[1] = "start" /\ s[2] = "alterStep" /\ s[3] = "alterSchedule" /\ s[4] = "commit"
    BY <1>4, TheScripts, Zenon
  <2> HIDE DEF s
  <2>2. /\ Holds(d, "start", f) /\ Holds(d, "alterStep", f) /\ Holds(d, "alterSchedule", f)
        /\ Holds(d, "commit", f)
    BY <1>0, <2>1
  <2>3. f \in JobFns /\ f # "SetBackUpDB"
    BY <1>4 DEF JobFns
  <2> QED
    BY <1>2, <2>2, <2>3, Zenon
<1> QED
  BY <1>1, <1>3, <1>4, Zenon DEF Fns, JobFns

\* A database that differs in its mode, or has its log turned on, is one.
LEMMA DbWith ==
    ASSUME IsDb(db)
    PROVE  /\ \A m \in {"open", "mount"} :
                 LET d == [db EXCEPT !.mode = m]
                 IN  IsDb(d) /\ d.mode = m /\ d.log = db.log /\ d.dest = db.dest
           /\ LET d == [db EXCEPT !.log = TRUE]
              IN  IsDb(d) /\ d.mode = db.mode /\ d.log = TRUE /\ d.dest = db.dest
           /\ LET d == [db EXCEPT !.dest = TRUE]
              IN  IsDb(d) /\ d.mode = db.mode /\ d.log = db.log /\ d.dest = TRUE
<1> DEFINE F == {"mode", "log", "dest", "full", "add"}
<1>1. /\ DOMAIN db = F
      /\ db.mode \in {"open", "mount"} /\ db.log \in BOOLEAN /\ db.dest \in BOOLEAN
      /\ IsJob(db.full) /\ IsJob(db.add)
  BY Zenon DEF IsDb
<1>3. ASSUME NEW m \in {"open", "mount"}
      PROVE  LET d == [db EXCEPT !.mode = m]
             IN  IsDb(d) /\ d.mode = m /\ d.log = db.log /\ d.dest = db.dest
  <2> DEFINE d == [db EXCEPT !.mode = m]
  <2>1. DOMAIN d = F /\ d.mode = m /\ d.log = db.log /\ d.dest = db.dest /\ d.full = db.full /\ d.add = db.add
    BY <1>1
  <2> HIDE DEF d
  <2> QED
    BY <1>1, <1>3, <2>1, Zenon DEF IsDb, d
<1>4. ASSUME NEW v
      PROVE  LET d == [db EXCEPT !.log = v]
             IN  DOMAIN d = F /\ d.mode = db.mode /\ d.log = v /\ d.dest = db.dest /\ d.full = db.full /\ d.add = db.add
  BY <1>1
<1>5. LET d == [db EXCEPT !.log = TRUE]
      IN  IsDb(d) /\ d.mode = db.mode /\ d.log = TRUE /\ d.dest = db.dest
  BY <1>1, <1>4, Zenon DEF IsDb
<1>6. ASSUME NEW v
      PROVE  LET d == [db EXCEPT !.dest = v]
             IN  DOMAIN d = F /\ d.mode = db.mode /\ d.log = db.log /\ d.dest = v /\ d.full = db.full /\ d.add = db.add
  BY <1>1
<1>7. LET d == [db EXCEPT !.dest = TRUE]
      IN  IsDb(d) /\ d.mode = db.mode /\ d.log = db.log /\ d.dest = TRUE
  BY <1>1, <1>6, Zenon DEF IsDb
<1> QED
  BY <1>3, <1>5, <1>7, Zenon

\* What comes back from the database.
LEMMA Outcome ==
    ASSUME NEW d, NEW c
    PROVE  /\ Done(d).code = 0 /\ Done(d).db = d
           /\ Error(c).code = c /\ Error(c).db = db
           /\ DOMAIN Done(d) = {"code", "db"} /\ DOMAIN Error(c) = {"code", "db"}
BY DEF Done, Error

\* The statements of SetBackUpDB: what they achieve when they are executed or
\* their error is taken for it, and what they leave.
LEMMA LogExec ==
    ASSUME IsDb(db), NEW f, NEW stmt \in LogStmts
    PROVE  LET out == Exec(stmt, f)
           IN  /\ IsDb(out.db) /\ out.code # JobThere
               /\ Executed(stmt, out) => /\ stmt = "archivelog" => out.db.log = TRUE
                                         /\ stmt = "addArchivelog" => out.db.dest = TRUE
                                         /\ stmt = "open" => out.db.mode = "open"
               /\ db.log = TRUE => out.db.log = TRUE
               /\ db.dest = TRUE => out.db.dest = TRUE
               /\ stmt # "mount" /\ db.mode = "open" => out.db.mode = "open"
<1> DEFINE out == Exec(stmt, f)
<1>1. db.mode \in {"open", "mount"} /\ db.log \in BOOLEAN /\ db.dest \in BOOLEAN
  BY Zenon DEF IsDb
<1>0. 0 # JobThere /\ IsMounted # JobThere /\ -1 # JobThere /\ DestThere # JobThere /\ IsOpen # JobThere
  BY DEF IsMounted, IsOpen, DestThere, JobThere
<1>2. CASE stmt = "mount"
  <2> DEFINE d == [db EXCEPT !.mode = "mount"]
  <2>1. out = Error(IsMounted) \/ out = Done(d)
    BY <1>2 DEF Exec
  <2>2. IsDb(d) /\ d.log = db.log /\ d.dest = db.dest /\ d.mode = "mount"
    BY DbWith, Zenon
  <2> HIDE DEF out, d
  <2>3. (out.code = IsMounted /\ out.db = db) \/ (out.code = 0 /\ out.db = d)
    BY <2>1, Outcome, Zenon
  <2>4. stmt # "archivelog" /\ stmt # "addArchivelog" /\ stmt # "open"
    BY <1>2
  <2> QED
    BY <1>0, <1>2, <2>2, <2>3, <2>4, Zenon DEF out
<1>3. CASE stmt = "archivelog"
  <2> DEFINE d == [db EXCEPT !.log = TRUE]
  <2>1. out = Error(-1) \/ out = Done(d)
    BY <1>3 DEF Exec
  <2>2. IsDb(d) /\ d.mode = db.mode /\ d.dest = db.dest /\ d.log = TRUE
    BY DbWith, Zenon
  <2> HIDE DEF out, d
  <2>3. (out.code = -1 /\ out.db = db) \/ (out.code = 0 /\ out.db = d)
    BY <2>1, Outcome, Zenon
  <2>4. out.code = -1 => ~Executed(stmt, out)
    BY <1>3 DEF Executed, Tolerated
  <2>5. stmt # "addArchivelog" /\ stmt # "open"
    BY <1>3
  <2> QED
    BY <1>0, <1>3, <2>2, <2>3, <2>4, <2>5, Zenon DEF out
<1>4. CASE stmt = "addArchivelog"
  <2> DEFINE d == [db EXCEPT !.dest = TRUE]
  <2>1. (db.dest /\ out = Error(DestThere)) \/ out = Done(d)
    BY <1>4 DEF Exec
  <2>2. IsDb(d) /\ d.mode = db.mode /\ d.log = db.log /\ d.dest = TRUE
    BY DbWith, Zenon
  <2> HIDE DEF out, d
  <2>3. (out.code = DestThere /\ out.db = db /\ db.dest) \/ (out.code = 0 /\ out.db = d)
    BY <2>1, Outcome, Zenon
  <2>4. stmt # "archivelog" /\ stmt # "open"
    BY <1>4
  <2>5. db.dest => db.dest = TRUE
    BY <1>1, Zenon
  <2> QED
    BY <1>0, <2>2, <2>3, <2>4, <2>5, Zenon DEF out
<1>5. CASE stmt = "open"
  <2> DEFINE d == [db EXCEPT !.mode = "open"]
  <2>1. (db.mode = "open" /\ out = Error(IsOpen)) \/ out = Done(d)
    BY <1>5 DEF Exec
  <2>2. IsDb(d) /\ d.log = db.log /\ d.dest = db.dest /\ d.mode = "open"
    BY DbWith, Zenon
  <2> HIDE DEF out, d
  <2>3. (out.code = IsOpen /\ out.db = db /\ db.mode = "open") \/ (out.code = 0 /\ out.db = d)
    BY <2>1, Outcome, Zenon
  <2>4. stmt # "archivelog" /\ stmt # "addArchivelog"
    BY <1>5
  <2> QED
    BY <1>0, <2>2, <2>3, <2>4, Zenon DEF out
<1> QED
  BY <1>2, <1>3, <1>4, <1>5, Zenon DEF LogStmts

\* A database with another job in the place of one of its jobs.
Replaced(d, j, q) ==
    DOMAIN d = DOMAIN db /\ d[j] = q /\ \A x \in DOMAIN db : x # j => d[x] = db[x]

\* EXCEPT replaces a job.
LEMMA Replacing ==
    ASSUME NEW j \in DOMAIN db, NEW q, NEW d, d = [db EXCEPT ![j] = q]
    PROVE  Replaced(d, j, q)
BY DEF Replaced

\* A database with another job is one, and keeps the rest.
LEMMA DbWithJob ==
    ASSUME IsDb(db), NEW j \in {"full", "add"}, NEW q, IsJob(q), NEW d, Replaced(d, j, q)
    PROVE  /\ IsDb(d) /\ d.mode = db.mode /\ d.log = db.log /\ d.dest = db.dest /\ d[j] = q
           /\ j = "add" => d.full = db.full
           /\ j = "full" => d.add = db.add
<1> DEFINE F == {"mode", "log", "dest", "full", "add"}
<1>1. /\ DOMAIN db = F
      /\ db.mode \in {"open", "mount"} /\ db.log \in BOOLEAN /\ db.dest \in BOOLEAN
      /\ IsJob(db.full) /\ IsJob(db.add)
  BY Zenon DEF IsDb
<1>2. CASE j = "full"
  <2>1. DOMAIN d = F /\ d.mode = db.mode /\ d.log = db.log /\ d.dest = db.dest /\ d.full = q /\ d.add = db.add
    <3>1. DOMAIN db = F /\ Replaced(d, "full", q)
      BY <1>1, <1>2, Zenon
    <3> QED
      BY <3>1 DEF Replaced
  <2>2. IsDb(d)
    BY <1>1, <2>1, Zenon DEF IsDb
  <2>3. d[j] = q /\ j # "add"
    BY <1>2, <2>1
  <2> QED
    BY <2>1, <2>2, <2>3, Zenon
<1>3. CASE j = "add"
  <2>1. DOMAIN d = F /\ d.mode = db.mode /\ d.log = db.log /\ d.dest = db.dest /\ d.full = db.full /\ d.add = q
    <3>1. DOMAIN db = F /\ Replaced(d, "add", q)
      BY <1>1, <1>3, Zenon
    <3> QED
      BY <3>1 DEF Replaced
  <2>2. IsDb(d)
    BY <1>1, <2>1, Zenon DEF IsDb
  <2>3. d[j] = q /\ j # "full"
    BY <1>3, <2>1
  <2> QED
    BY <2>1, <2>2, <2>3, Zenon
<1> QED
  BY <1>2, <1>3, Zenon

\* A change within a job as a change of the job.
LEMMA WithinJob ==
    ASSUME NEW d, NEW j \in DOMAIN d, NEW A, NEW v
    PROVE  /\ [d EXCEPT ![j].parts = A] = [d EXCEPT ![j] = [d[j] EXCEPT !.parts = A]]
           /\ [d EXCEPT ![j].parts = A, ![j].next = v] = [d EXCEPT ![j] = [d[j] EXCEPT !.parts = A, !.next = v]]
           /\ [d EXCEPT ![j].parts = A, ![j].step = v] = [d EXCEPT ![j] = [d[j] EXCEPT !.parts = A, !.step = v]]
OBVIOUS

\* What a statement on a job does: it fails and changes nothing, finds what it
\* would do done, or adds its part.
LEMMA JobOutcome ==
    ASSUME NEW f \in JobFns, NEW stmt \in JobStmts
    PROVE  LET out == Exec(stmt, f)
               j == Job(f)
               has == db[j].parts
           IN  \/ out = Error(-1) \/ (stmt = "create" /\ out = Error(JobThere))
               \/ stmt \in {"start", "alterSchedule"} /\ Part(stmt) \in has /\ out = Done(db)
               \/ /\ stmt \in {"create", "addSchedule"}
                  /\ out = Done([db EXCEPT ![j].parts = @ \cup {Part(stmt)}])
               \/ /\ stmt \in {"addStep", "alterStep"}
                  /\ out = Done([db EXCEPT ![j].parts = @ \cup {Part(stmt)}, ![j].next = Step(f)])
               \/ /\ stmt = "commit"
                  /\ out = Done([db EXCEPT ![j].parts = @ \cup {Part(stmt)}, ![j].step = db[j].next])
<1>1. Exec(stmt, f) = ExecJob(stmt, f)
  BY DEF Exec, JobStmts
<1> DEFINE out == ExecJob(stmt, f)
           j == Job(f)
           has == db[j].parts
<1>2. CASE stmt = "create"
  <2>1. Part(stmt) = "created"
    BY <1>2 DEF Part
  <2>2. \/ out = Error(-1) \/ out = Error(JobThere)
        \/ out = Done([db EXCEPT ![j].parts = @ \cup {"created"}])
    BY <1>2 DEF ExecJob
  <2>3. stmt \in {"create", "addSchedule"}
    BY <1>2
  <2> QED
    BY <1>1, <1>2, <2>1, <2>2, <2>3, Zenon
<1>3. CASE stmt = "start"
  <2>1. Part(stmt) = "created"
    BY <1>3 DEF Part
  <2>2. out = Error(-1) \/ ("created" \in has /\ out = Done(db))
    BY <1>3 DEF ExecJob
  <2>3. stmt \in {"start", "alterSchedule"}
    BY <1>3
  <2> QED
    BY <1>1, <2>1, <2>2, <2>3, Zenon
<1>4. CASE stmt \in {"addStep", "alterStep"}
  <2>1. Part(stmt) = "step"
    BY <1>4 DEF Part
  <2>2. \/ out = Error(-1)
        \/ out = Done([db EXCEPT ![j].parts = @ \cup {"step"}, ![j].next = Step(f)])
    <3>1. CASE stmt = "addStep"
      BY <3>1 DEF ExecJob
    <3>2. CASE stmt = "alterStep"
      BY <3>2 DEF ExecJob
    <3> QED
      BY <1>4, <3>1, <3>2
  <2> QED
    BY <1>1, <1>4, <2>1, <2>2, Zenon
<1>5. CASE stmt = "addSchedule"
  <2>1. Part(stmt) = "schedule"
    BY <1>5 DEF Part
  <2>2. \/ out = Error(-1) \/ out = Done([db EXCEPT ![j].parts = @ \cup {"schedule"}])
    BY <1>5 DEF ExecJob
  <2>3. stmt \in {"create", "addSchedule"}
    BY <1>5
  <2> QED
    BY <1>1, <2>1, <2>2, <2>3, Zenon
<1>6. CASE stmt = "alterSchedule"
  <2>1. Part(stmt) = "schedule"
    BY <1>6 DEF Part
  <2>2. out = Error(-1) \/ ("schedule" \in has /\ out = Done(db))
    BY <1>6 DEF ExecJob
  <2>3. stmt \in {"start", "alterSchedule"}
    BY <1>6
  <2> QED
    BY <1>1, <2>1, <2>2, <2>3, Zenon
<1>7. CASE stmt = "commit"
  <2>1. Part(stmt) = "live"
    BY <1>7 DEF Part
  <2>2. \/ out = Error(-1)
        \/ out = Done([db EXCEPT ![j].parts = @ \cup {"live"}, ![j].step = db[j].next])
    BY <1>7 DEF ExecJob
  <2> QED
    BY <1>1, <1>7, <2>1, <2>2, Zenon
<1> QED
  BY <1>2, <1>3, <1>4, <1>5, <1>6, <1>7, Zenon DEF JobStmts

\* The statements on a job: what they achieve when they are executed, and
\* what they leave.
LEMMA JobExec ==
    ASSUME IsDb(db), NEW f \in JobFns, NEW stmt \in JobStmts
    PROVE  LET out == Exec(stmt, f)
               j == Job(f)
           IN  /\ IsDb(out.db)
               /\ out.db.mode = db.mode /\ out.db.log = db.log /\ out.db.dest = db.dest
               /\ j = "add" => out.db.full = db.full
               /\ j = "full" => out.db.add = db.add
               /\ db[j].parts \subseteq out.db[j].parts
               /\ out.db[j].next = db[j].next \/ out.db[j].next = Step(f)
               /\ stmt # "commit" => out.db[j].step = db[j].step
               /\ Executed(stmt, out) => Holds(out.db, stmt, f)
<1> DEFINE out == Exec(stmt, f)
           j == Job(f)
           A == db[j].parts \cup {Part(stmt)}
           Kept == /\ IsDb(out.db)
                   /\ out.db.mode = db.mode /\ out.db.log = db.log /\ out.db.dest = db.dest
                   /\ j = "add" => out.db.full = db.full
                   /\ j = "full" => out.db.add = db.add
                   /\ db[j].parts \subseteq out.db[j].parts
                   /\ out.db[j].next = db[j].next \/ out.db[j].next = Step(f)
                   /\ stmt # "commit" => out.db[j].step = db[j].step
<1>1. j \in {"full", "add"}
  BY DEF Job
<1>2. IsJob(db[j]) /\ j \in DOMAIN db
  BY <1>1 DEF IsDb
<1>3. Part(stmt) \in JobParts
  BY DEF Part, JobStmts, JobParts
<1>4. /\ DOMAIN db[j] = {"parts", "step", "next"} /\ db[j].parts \subseteq JobParts
      /\ A \subseteq JobParts
  BY <1>2, <1>3, Zenon DEF IsJob
<1>5. stmt # "archivelog" /\ stmt # "addArchivelog" /\ stmt # "open"
  BY DEF JobStmts
<1> HIDE DEF j, A
<1>6. ASSUME out.db = db PROVE Kept
  BY <1>6, Zenon
<1>7. ASSUME NEW q, DOMAIN q = {"parts", "step", "next"}, q.parts = A,
             q.next = db[j].next \/ q.next = Step(f),
             stmt # "commit" => q.step = db[j].step,
             Replaced(out.db, j, q)
      PROVE  Kept /\ out.db[j] = q
  <2> HIDE DEF out
  <2>1. IsJob(q)
    BY <1>4, <1>7, Zenon DEF IsJob
  <2>2. /\ IsDb(out.db) /\ out.db.mode = db.mode /\ out.db.log = db.log /\ out.db.dest = db.dest
        /\ out.db[j] = q
        /\ j = "add" => out.db.full = db.full
        /\ j = "full" => out.db.add = db.add
    <3> DEFINE d == out.db
    <3>1. Replaced(d, j, q)
      BY <1>7
    <3> HIDE DEF d
    <3>2. /\ IsDb(d) /\ d.mode = db.mode /\ d.log = db.log /\ d.dest = db.dest /\ d[j] = q
          /\ j = "add" => d.full = db.full
          /\ j = "full" => d.add = db.add
      BY <1>1, <2>1, <3>1, DbWithJob
    <3> QED
      BY <3>2, Zenon DEF d
  <2> QED
    BY <1>7, <2>2, Zenon DEF A
<1>8. CASE out = Error(-1) \/ (stmt = "create" /\ out = Error(JobThere))
  <2> HIDE DEF out
  <2>1. out.db = db /\ (out.code = -1 \/ out.code = JobThere)
    BY <1>8, Outcome, Zenon
  <2>2. ~Executed(stmt, out)
    <3>1. ~Tolerated(stmt, out.code)
      <4>1. stmt # "mount"
        BY DEF JobStmts
      <4> QED
        BY <1>5, <4>1 DEF Tolerated
    <3> QED
      BY <2>1, <3>1 DEF Executed, JobThere
  <2> QED
    BY <1>6, <2>1, <2>2, Zenon DEF out, j
<1>9. CASE stmt \in {"start", "alterSchedule"} /\ Part(stmt) \in db[j].parts /\ out = Done(db)
  <2> HIDE DEF out
  <2>1. out.db = db
    BY <1>9, Outcome, Zenon
  <2>2. stmt \notin {"addStep", "alterStep"} /\ stmt # "commit"
    BY <1>9
  <2>3. Holds(out.db, stmt, f)
    BY <1>5, <1>9, <2>1, <2>2, Zenon DEF Holds, j
  <2> QED
    BY <1>6, <2>1, <2>3, Zenon DEF out, j
<1>10. CASE stmt \in {"create", "addSchedule"} /\ out = Done([db EXCEPT ![j].parts = A])
  <2> DEFINE q == [db[j] EXCEPT !.parts = A]
  <2>1. out.db = [db EXCEPT ![j].parts = A]
    <3> HIDE DEF out
    <3> QED
      BY <1>10, Outcome, Zenon
  <2>2. DOMAIN q = {"parts", "step", "next"} /\ q.parts = A /\ q.step = db[j].step /\ q.next = db[j].next
    BY <1>4
  <2>3. Replaced(out.db, j, q)
    <3> DEFINE d == out.db
    <3>1. d = [db EXCEPT ![j] = q]
      BY <1>2, <2>1, WithinJob, Zenon
    <3> HIDE DEF d, q
    <3> QED
      BY <1>2, <3>1, Replacing DEF d
  <2> HIDE DEF q
  <2>4. Kept /\ out.db[j] = q
    BY <1>7, <2>2, <2>3, Zenon
  <2>5. stmt \notin {"addStep", "alterStep"} /\ stmt # "commit"
    BY <1>10
  <2> HIDE DEF out
  <2>6. Holds(out.db, stmt, f)
    BY <1>5, <2>2, <2>4, <2>5, Zenon DEF Holds, j, A
  <2> QED
    BY <2>4, <2>6, Zenon DEF out, j
<1>11. CASE /\ stmt \in {"addStep", "alterStep"}
            /\ out = Done([db EXCEPT ![j].parts = A, ![j].next = Step(f)])
  <2> DEFINE q == [db[j] EXCEPT !.parts = A, !.next = Step(f)]
  <2>1. out.db = [db EXCEPT ![j].parts = A, ![j].next = Step(f)]
    <3> HIDE DEF out
    <3> QED
      BY <1>11, Outcome, Zenon
  <2>2. DOMAIN q = {"parts", "step", "next"} /\ q.parts = A /\ q.step = db[j].step /\ q.next = Step(f)
    BY <1>4
  <2>3. Replaced(out.db, j, q)
    <3> DEFINE d == out.db
    <3>1. d = [db EXCEPT ![j] = q]
      BY <1>2, <2>1, WithinJob, Zenon
    <3> HIDE DEF d, q
    <3> QED
      BY <1>2, <3>1, Replacing DEF d
  <2> HIDE DEF q
  <2>4. Kept /\ out.db[j] = q
    BY <1>7, <2>2, <2>3, Zenon
  <2>5. stmt # "commit"
    BY <1>11
  <2> HIDE DEF out
  <2>6. Holds(out.db, stmt, f)
    BY <1>5, <2>2, <2>4, <2>5, Zenon DEF Holds, j, A
  <2> QED
    BY <2>4, <2>6, Zenon DEF out, j
<1>12. CASE stmt = "commit" /\ out = Done([db EXCEPT ![j].parts = A, ![j].step = db[j].next])
  <2> DEFINE q == [db[j] EXCEPT !.parts = A, !.step = db[j].next]
  <2>1. out.db = [db EXCEPT ![j].parts = A, ![j].step = db[j].next]
    <3> HIDE DEF out
    <3> QED
      BY <1>12, Outcome, Zenon
  <2>2. DOMAIN q = {"parts", "step", "next"} /\ q.parts = A /\ q.step = db[j].next /\ q.next = db[j].next
    BY <1>4
  <2>3. Replaced(out.db, j, q)
    <3> DEFINE d == out.db
    <3>1. d = [db EXCEPT ![j] = q]
      BY <1>2, <2>1, WithinJob, Zenon
    <3> HIDE DEF d, q
    <3> QED
      BY <1>2, <3>1, Replacing DEF d
  <2> HIDE DEF q
  <2>4. Kept /\ out.db[j] = q
    BY <1>7, <1>12, <2>2, <2>3, Zenon
  <2>5. stmt \notin {"addStep", "alterStep"}
    BY <1>12
  <2> HIDE DEF out
  <2>6. Holds(out.db, stmt, f)
    BY <1>5, <2>2, <2>4, <2>5, Zenon DEF Holds, j, A
  <2> QED
    BY <2>4, <2>6, Zenon DEF out, j
<1> QED
  BY <1>8, <1>9, <1>10, <1>11, <1>12, JobOutcome, Zenon DEF j, A

\* The database answers with a code.
LEMMA Answer ==
    ASSUME NEW out, NEW c \in Int, NEW d, out = Error(c) \/ out = Done(d)
    PROVE  DOMAIN out = {"code", "db"} /\ out.code \in Int
BY DEF Done, Error

\* Every statement is answered.
LEMMA Answers ==
    ASSUME NEW f, NEW stmt, stmt \in LogStmts \/ (f \in JobFns /\ stmt \in JobStmts)
    PROVE  DOMAIN Exec(stmt, f) = {"code", "db"} /\ Exec(stmt, f).code \in Int
<1> DEFINE out == Exec(stmt, f)
<1>1. -1 \in Int /\ IsMounted \in Int /\ IsOpen \in Int /\ DestThere \in Int /\ JobThere \in Int
  BY DEF IsMounted, IsOpen, DestThere, JobThere
<1>2. CASE stmt \in LogStmts
  <2>1. CASE stmt = "mount"
    <3> DEFINE d == [db EXCEPT !.mode = "mount"]
    <3>1. out = Error(IsMounted) \/ out = Done(d)
      BY <2>1 DEF Exec
    <3> HIDE DEF out, d
    <3> QED
      BY <1>1, <3>1, Answer, Zenon DEF out
  <2>2. CASE stmt = "archivelog"
    <3> DEFINE d == [db EXCEPT !.log = TRUE]
    <3>1. out = Error(-1) \/ out = Done(d)
      BY <2>2 DEF Exec
    <3> HIDE DEF out, d
    <3> QED
      BY <1>1, <3>1, Answer, Zenon DEF out
  <2>3. CASE stmt = "addArchivelog"
    <3> DEFINE d == [db EXCEPT !.dest = TRUE]
    <3>1. out = Error(DestThere) \/ out = Done(d)
      BY <2>3 DEF Exec
    <3> HIDE DEF out, d
    <3> QED
      BY <1>1, <3>1, Answer, Zenon DEF out
  <2>4. CASE stmt = "open"
    <3> DEFINE d == [db EXCEPT !.mode = "open"]
    <3>1. out = Error(IsOpen) \/ out = Done(d)
      BY <2>4 DEF Exec
    <3> HIDE DEF out, d
    <3> QED
      BY <1>1, <3>1, Answer, Zenon DEF out
  <2> QED
    BY <1>2, <2>1, <2>2, <2>3, <2>4, Zenon DEF LogStmts
<1>3. CASE f \in JobFns /\ stmt \in JobStmts
  <2>1. out = Error(-1) \/ out = Error(JobThere) \/ \E d : out = Done(d)
    BY <1>3, JobOutcome, Zenon
  <2> HIDE DEF out
  <2> QED
    BY <1>1, <2>1, Answer, Zenon DEF out
<1> QED
  BY <1>2, <1>3, Zenon

\* BindSql2ExeEx either left the database alone or had the statement executed,
\* and what is taken for executed was, if not for a positive error code.
LEMMA Outs ==
    ASSUME NEW f, NEW stmt, stmt \in LogStmts \/ (f \in JobFns /\ stmt \in JobStmts),
           NEW out \in {Exec(stmt, f), Error(-1), Error(HandleError), [Exec(stmt, f) EXCEPT !.code = -1]}
    PROVE  /\ out.db = db \/ out.db = Exec(stmt, f).db
           /\ Executed(stmt, out) /\ out.code # HandleError => out = Exec(stmt, f)
           /\ out.code \in Int
<1> DEFINE e == Exec(stmt, f)
           l == [e EXCEPT !.code = -1]
<1>1. DOMAIN e = {"code", "db"} /\ e.code \in Int
  BY Answers, Zenon
<1> HIDE DEF e
<1>2. l.code = -1 /\ l.db = e.db
  BY <1>1
<1> HIDE DEF l
<1>3. Error(-1).code = -1 /\ Error(-1).db = db /\ Error(HandleError).code = HandleError /\ Error(HandleError).db = db
  BY Outcome, Zenon
<1>4. ASSUME out.code = -1 PROVE ~Executed(stmt, out)
  BY <1>4 DEF Executed, Tolerated, IsMounted, IsOpen, DestThere
<1>5. out = e \/ out = Error(-1) \/ out = Error(HandleError) \/ out = l
  BY Zenon DEF e, l
<1>6. (out.db = db \/ out.db = e.db) /\ (out = e \/ out.code = -1 \/ out.code = HandleError)
  BY <1>2, <1>3, <1>5, Zenon
<1>7. -1 \in Int /\ HandleError \in Int
  BY DEF HandleError
<1>8. out.code \in Int
  BY <1>1, <1>6, <1>7, Zenon
<1> QED
  BY <1>4, <1>6, <1>8, Zenon DEF e

\* What the statements before this one achieved, it leaves.
LEMMA HoldsOn ==
    ASSUME IsDb(db), NEW f \in Fns, NEW n \in 1..Len(Script[f]), NEW i \in 1..(n - 1),
           Holds(db, Script[f][i], f)
    PROVE  Holds(Exec(Script[f][n], f).db, Script[f][i], f)
<1> DEFINE s == Script[f][i]
           stmt == Script[f][n]
           d == Exec(stmt, f).db
<1>1. /\ i \in 1..Len(Script[f]) /\ i < Len(Script[f]) /\ n > 1
  <2>1. Len(Script[f]) \in Nat
    BY TheScripts DEF Fns, JobFns
  <2> QED
    BY <2>1
<1>2. CASE f = "SetBackUpDB"
  <2>1. s \in LogStmts /\ stmt \in LogStmts /\ stmt # "mount" /\ f \notin JobFns
    BY <1>1, <1>2, Scripts DEF JobFns
  <2>2. s \notin {"addStep", "alterStep"} /\ s # "commit"
    BY <2>1 DEF LogStmts
  <2>3. Holds(db, s, f)
    OBVIOUS
  <2> HIDE DEF s, stmt
  <2>4. /\ db.log = TRUE => d.log = TRUE
        /\ db.dest = TRUE => d.dest = TRUE
        /\ db.mode = "open" => d.mode = "open"
    BY <2>1, LogExec, Zenon
  <2> HIDE DEF d
  <2>5. Holds(d, s, f)
    BY <2>1, <2>2, <2>3, <2>4, Zenon DEF Holds
  <2> QED
    BY <2>5 DEF d, s, stmt
<1>3. CASE f \in JobFns
  <2>1. s \in JobStmts /\ stmt \in JobStmts /\ s # "commit"
    BY <1>1, <1>3, Scripts, Zenon
  <2>2. s # "archivelog" /\ s # "addArchivelog" /\ s # "open"
    BY <2>1 DEF JobStmts
  <2>3. Holds(db, s, f)
    OBVIOUS
  <2> HIDE DEF s, stmt
  <2>4. /\ db[Job(f)].parts \subseteq d[Job(f)].parts
        /\ d[Job(f)].next = db[Job(f)].next \/ d[Job(f)].next = Step(f)
    BY <1>3, <2>1, JobExec, Zenon
  <2> HIDE DEF d
  <2>5. Holds(d, s, f)
    BY <1>3, <2>1, <2>2, <2>3, <2>4, Zenon DEF Holds
  <2> QED
    BY <2>5 DEF d, s, stmt
<1> QED
  BY <1>2, <1>3, Zenon DEF Fns

-----------------------------------------------------------------------------
(* One statement of SetDbBackup.                                           *)

\* Which functions are for which job, and which one comes next.
LEMMA FnKinds ==
    /\ \A f \in Fns : f = "SetBackUpDB" \/ f \in JobFns
    /\ \A f \in JobFns : f # "SetBackUpDB" /\ f \in Fns /\ Job(f) \in {"full", "add"}
    /\ \A f \in {"SetCompliBackUp", "AlterCompliBackUp"} :
          f \in JobFns /\ Job(f) = "full" /\ f \notin {"SetAddBackUp", "AlterAddBackUp"}
          /\ Caller(f) = "SetAddBackUp"
    /\ \A f \in {"SetAddBackUp", "AlterAddBackUp"} : f \in JobFns /\ Job(f) = "add" /\ Caller(f) = "main"
    /\ Caller("SetBackUpDB") = "SetCompliBackUp"
    /\ \A f \in JobFns : f \in {"SetCompliBackUp", "AlterCompliBackUp"} \/ f \in {"SetAddBackUp", "AlterAddBackUp"}
BY DEF Fns, JobFns, Job, Caller

\* Two functions for the same job tell it the same.
LEMMA SameJob ==
    /\ \A f \in {"SetCompliBackUp", "AlterCompliBackUp"} : Job(f) = Job("SetCompliBackUp") /\ Step(f) = Step("SetCompliBackUp")
    /\ \A f \in {"SetAddBackUp", "AlterAddBackUp"} : Job(f) = Job("SetAddBackUp") /\ Step(f) = Step("SetAddBackUp")
BY DEF Job, Step

\* What functions before this one achieved, a statement leaves.
LEMMA DoneBefore ==
    ASSUME IsDb(db), NEW f \in JobFns, NEW stmt \in JobStmts, NEW d, d = db \/ d = Exec(stmt, f).db
    PROVE  /\ LogOn(db) => LogOn(d)
           /\ f \in {"SetAddBackUp", "AlterAddBackUp"} /\ JobOn(db, "SetCompliBackUp") => JobOn(d, "SetCompliBackUp")
<1>1. CASE d = db
  BY <1>1, Zenon
<1>2. CASE d = Exec(stmt, f).db
  <2>1. /\ d.mode = db.mode /\ d.log = db.log /\ d.dest = db.dest
        /\ Job(f) = "add" => d.full = db.full
    BY <1>2, JobExec, Zenon
  <2>2. LogOn(db) => LogOn(d)
    BY <2>1, Zenon DEF LogOn
  <2>3. ASSUME f \in {"SetAddBackUp", "AlterAddBackUp"}, JobOn(db, "SetCompliBackUp")
        PROVE  JobOn(d, "SetCompliBackUp")
    <3>1. Job(f) = "add" /\ Job("SetCompliBackUp") = "full"
      BY <2>3 DEF Job
    <3>2. d.full = db.full
      BY <2>1, <3>1, Zenon
    <3>3. d["full"] = db["full"]
      BY <3>2
    <3> QED
      BY <2>3, <3>1, <3>3, Zenon DEF JobOn
  <2> QED
    BY <2>2, <2>3, Zenon
<1> QED
  BY <1>1, <1>2, Zenon

\* The database stays one.
LEMMA DbStays ==
    ASSUME IsDb(db), NEW f, NEW stmt, stmt \in LogStmts \/ (f \in JobFns /\ stmt \in JobStmts),
           NEW d, d = db \/ d = Exec(stmt, f).db
    PROVE  IsDb(d)
BY LogExec, JobExec, Zenon

\* What Finish makes of a result.
LEMMA Finished ==
    ASSUME fn \in Fns, NEW ret \in Int, Finish(ret)
    PROVE  /\ k' = 1 /\ fn' \in Fns
           /\ ret < 0 => state' = "failed"
           /\ ret > 0 => fell'
           /\ ret = 0 /\ Caller(fn) = "main" => state' = "ready"
           /\ ret = 0 /\ Caller(fn) # "main" => state' = "setup" /\ fn' = Caller(fn)
           /\ ~fell' => ~fell
<1>1. k' = 1 /\ (~fell' => ~fell) /\ (ret > 0 => fell')
  BY Zenon DEF Finish
<1>2. fn' = IF ret = 0 /\ Caller(fn) # "main" THEN Caller(fn) ELSE fn
  BY Zenon DEF Finish
<1>3. state' = CASE ret < 0 -> "failed"
                 [] ret > 0 \/ (ret = 0 /\ Caller(fn) = "main") -> "ready"
                 [] OTHER -> "setup"
  BY Zenon DEF Finish
<1>4. Caller(fn) # "main" => Caller(fn) \in Fns
  BY DEF Caller, Fns, JobFns
<1>5. fn' \in Fns
  BY <1>2, <1>4, Zenon
<1>6. /\ ret < 0 => state' = "failed"
      /\ ret = 0 /\ Caller(fn) = "main" => state' = "ready"
      /\ ret = 0 /\ Caller(fn) # "main" => state' = "setup"
  BY <1>3
<1>7. ret = 0 /\ Caller(fn) # "main" => fn' = Caller(fn)
  BY <1>2
<1> QED
  BY <1>1, <1>5, <1>6, <1>7, Zenon

\* SP_CREATE_JOB is the first statement of the functions that set a job up.
LEMMA CreateIn ==
    ASSUME NEW f \in JobFns, NEW n \in 1..Len(Script[f]), Script[f][n] = "create"
    PROVE  f \in {"SetCompliBackUp", "SetAddBackUp"}
<1> SUFFICES ASSUME f \in {"AlterCompliBackUp", "AlterAddBackUp"} PROVE FALSE
  BY DEF JobFns
<1> DEFINE s == Script[f]
<1>1. Len(s) = 4 /\ s[1] = "start" /\ s[2] = "alterStep" /\ s[3] = "alterSchedule" /\ s[4] = "commit"
  BY TheScripts, FnKinds, Zenon
<1>2. n \in 1..Len(s) /\ s[n] = "create"
  OBVIOUS
<1> HIDE DEF s
<1>3. n = 1 \/ n = 2 \/ n = 3 \/ n = 4
  BY <1>1, <1>2
<1> QED
  BY <1>1, <1>2, <1>3

\* Every function has a first statement.
LEMMA FirstStatement == \A f \in Fns : 1 \in 1..Len(Script[f]) /\ Len(Script[f]) \in Nat
<1> SUFFICES ASSUME NEW f \in Fns PROVE 1 \in 1..Len(Script[f]) /\ Len(Script[f]) \in Nat
  OBVIOUS
<1> DEFINE len == Len(Script[f])
<1>1. len = 4 \/ len = 5
  BY TheScripts DEF Fns, JobFns
<1> HIDE DEF len
<1>2. 1 \in 1..len /\ len \in Nat
  BY <1>1
<1> QED
  BY <1>2 DEF len

\* A function's last statement completes what it is for.
LEMMA FunctionDone ==
    ASSUME NEW d, IsDb(d), NEW f \in Fns, \A n \in 1..Len(Script[f]) : Holds(d, Script[f][n], f)
    PROVE  /\ f = "SetBackUpDB" => LogOn(d)
           /\ f \in {"SetCompliBackUp", "AlterCompliBackUp"} => JobOn(d, "SetCompliBackUp")
           /\ f \in {"SetAddBackUp", "AlterAddBackUp"} => JobOn(d, "SetAddBackUp")
<1>1. /\ f = "SetBackUpDB" => LogOn(d)
      /\ f \in JobFns => JobParts \subseteq d[Job(f)].parts /\ d[Job(f)].step = Step(f)
  BY ScriptDone, Zenon
<1>2. ASSUME f \in JobFns PROVE JobOn(d, f)
  <2>1. d[Job(f)].parts \subseteq JobParts
    <3>1. IsJob(d.full) /\ IsJob(d.add)
      BY Zenon DEF IsDb
    <3>2. IsJob(d[Job(f)])
      BY <1>2, <3>1, FnKinds
    <3> QED
      BY <3>2, Zenon DEF IsJob
  <2>2. d[Job(f)].parts = JobParts
    BY <1>1, <1>2, <2>1, Zenon
  <2> QED
    BY <1>1, <1>2, <2>2, Zenon DEF JobOn
<1> QED
  BY <1>1, <1>2, FnKinds, SameJob, Zenon DEF JobOn

\* The invariant's state functions depend on the file only through what does
\* not change.
LEMMA SamePrimed ==
    ASSUME UNCHANGED ini
    PROVE  SetupAt(db', fn', k', state') => SetupAt(db, fn, k, state)'
<1>1. \A f : Step(f)' = Step(f)
  BY SameIni, Zenon DEF Step, BackUpDir, BackAddDir
<1> QED
  BY <1>1, Zenon DEF SetupAt, Holds, LogOn, JobOn

\* Every statement of SetDbBackup keeps what was achieved, adds to it if the
\* function goes on, and lets main go on only when all of it is.
LEMMA StatementSetup ==
    ASSUME SetupOK, SetupInv, Statement
    PROVE  SetupOK' /\ SetupInv'
<1> DEFINE stmt == Script[fn][k]
           Outcomes == {Exec(stmt, fn), Error(-1), Error(HandleError), [Exec(stmt, fn) EXCEPT !.code = -1]}
<1>1. IsDb(db) /\ fn \in Fns /\ k \in 1..Len(Script[fn])
  BY Zenon DEF SetupOK
<1>2. state = "setup" /\ UNCHANGED ini
  BY StatementEnds, Zenon
<1>3. PICK out \in Outcomes :
        /\ db' = out.db /\ missed' = (missed \/ out.code = HandleError)
        /\ JobIsThere(stmt, out) \/ Fails(out) \/ GoesOn(stmt, out) \/ Ends(stmt, out)
  BY StatementEnds, Zenon
<1>4. stmt \in LogStmts \/ (fn \in JobFns /\ stmt \in JobStmts)
  BY <1>1, FnKinds, Scripts, Zenon
<1>5. \A i \in 1..(k - 1) : Holds(db, Script[fn][i], fn) => Holds(Exec(stmt, fn).db, Script[fn][i], fn)
  BY <1>1, HoldsOn, Zenon
<1>6. \A i \in 1..k : i = k \/ i \in 1..(k - 1)
  <2>1. k \in Nat
    BY <1>1, FirstStatement
  <2> QED
    BY <2>1
<1>7. /\ out.db = db \/ out.db = Exec(stmt, fn).db
      /\ Executed(stmt, out) /\ out.code # HandleError => out = Exec(stmt, fn)
      /\ out.code \in Int
  BY <1>3, <1>4, Outs, Zenon
<1>8. fn \in JobFns => stmt \in JobStmts
  BY <1>1, Scripts, Zenon
<1>9. IsDb(db')
  BY <1>1, <1>3, <1>4, <1>7, DbStays, Zenon
<1>10. ASSUME out = Exec(stmt, fn), Executed(stmt, out) PROVE Holds(db', stmt, fn)
  <2>1. CASE fn = "SetBackUpDB"
    <3>1. stmt \in LogStmts /\ fn \notin JobFns
      BY <1>1, <2>1, FnKinds, Scripts, Zenon
    <3>2. stmt \notin {"addStep", "alterStep"} /\ stmt # "commit"
      BY <3>1 DEF LogStmts
    <3> HIDE DEF stmt
    <3>3. /\ stmt = "archivelog" => db'.log = TRUE
          /\ stmt = "addArchivelog" => db'.dest = TRUE
          /\ stmt = "open" => db'.mode = "open"
      BY <1>1, <1>3, <1>10, <3>1, LogExec, Zenon
    <3> QED
      BY <3>1, <3>2, <3>3, Zenon DEF Holds
  <2>2. CASE fn \in JobFns
    BY <1>1, <1>3, <1>8, <1>10, <2>2, JobExec, Zenon
  <2> QED
    BY <1>1, <2>1, <2>2, FnKinds, Zenon
<1> HIDE DEF stmt, Outcomes
<1>11. CASE JobIsThere(stmt, out)
  <2>1. stmt = "create" /\ fn' = Alter(fn) /\ k' = 1 /\ UNCHANGED <<state, fell>> /\ out.code = JobThere
    BY <1>11, Zenon DEF JobIsThere
  <2>2. stmt \notin LogStmts
    BY <2>1 DEF LogStmts
  <2>3. fn \in JobFns
    BY <1>4, <2>2, Zenon
  <2>4. /\ fn' \in JobFns
        /\ fn' \in {"SetAddBackUp", "AlterAddBackUp"} => fn \in {"SetAddBackUp", "AlterAddBackUp"}
    <3>1. fn \in {"SetCompliBackUp", "SetAddBackUp"}
      BY <1>1, <2>1, <2>3, CreateIn DEF stmt
    <3> QED
      BY <2>1, <3>1 DEF Alter, JobFns
  <2>5. SetupOK'
    BY <1>9, <2>1, <2>4, FnKinds, FirstStatement, Zenon DEF SetupOK
  <2>6. ASSUME ~missed', ~fell' PROVE SetupAt(db', fn', k', state')
    <3>1. SetupAt(db, fn, k, "setup")
      BY <1>2, <1>3, <2>1, <2>6, Zenon DEF SetupInv
    <3>2. LogOn(db')
      BY <1>1, <1>3, <1>7, <1>8, <2>3, <3>1, DoneBefore, Zenon DEF SetupAt
    <3>3. fn' \in {"SetAddBackUp", "AlterAddBackUp"} => JobOn(db', "SetCompliBackUp")
      BY <1>1, <1>3, <1>7, <1>8, <2>3, <2>4, <3>1, DoneBefore, Zenon DEF SetupAt
    <3>4. \A i \in 1..(k' - 1) : FALSE
      BY <2>1
    <3>5. state' = "setup" /\ state' # "ready"
      BY <1>2, <2>1
    <3> QED
      BY <3>2, <3>3, <3>4, <3>5, Zenon DEF SetupAt
  <2> QED
    BY <1>2, <2>5, <2>6, SamePrimed, Zenon DEF SetupInv
<1>12. CASE Fails(out)
  <2>1. out.code < 0 /\ Finish(out.code)
    BY <1>12, Zenon DEF Fails
  <2>2. k' = 1 /\ fn' \in Fns /\ state' = "failed"
    BY <1>1, <1>7, <2>1, Finished, Zenon
  <2>3. SetupOK'
    BY <1>9, <2>2, FirstStatement, Zenon DEF SetupOK
  <2>4. state' # "setup" /\ state' # "ready"
    BY <2>2
  <2>5. SetupAt(db', fn', k', state')
    BY <2>4, Zenon DEF SetupAt
  <2> QED
    BY <1>2, <2>3, <2>5, SamePrimed, Zenon DEF SetupInv
<1>13. CASE GoesOn(stmt, out)
  <2>1. Executed(stmt, out) /\ k < Len(Script[fn]) /\ k' = k + 1 /\ UNCHANGED <<fn, state, fell>>
    BY <1>13, Zenon DEF GoesOn
  <2>2. k \in Nat /\ k' \in 1..Len(Script[fn]) /\ k' - 1 = k
    <3>1. Len(Script[fn]) \in Nat
      BY <1>1, FirstStatement, Zenon
    <3> QED
      BY <1>1, <2>1, <3>1
  <2>3. SetupOK'
    BY <1>1, <1>9, <2>1, <2>2, Zenon DEF SetupOK
  <2>4. ASSUME ~missed', ~fell' PROVE SetupAt(db', fn', k', state')
    <3>1. SetupAt(db, fn, k, "setup") /\ out = Exec(stmt, fn)
      BY <1>2, <1>3, <1>7, <2>1, <2>4, Zenon DEF SetupInv
    <3>2. fn \in JobFns => LogOn(db')
      BY <1>1, <1>3, <1>7, <1>8, <3>1, DoneBefore, Zenon DEF SetupAt
    <3>3. fn \in {"SetAddBackUp", "AlterAddBackUp"} => JobOn(db', "SetCompliBackUp")
      BY <1>1, <1>3, <1>7, <1>8, <3>1, FnKinds, DoneBefore, Zenon DEF SetupAt
    <3>4. \A i \in 1..k : Holds(db', Script[fn][i], fn)
      <4>1. \A i \in 1..(k - 1) : Holds(db', Script[fn][i], fn)
        BY <1>3, <1>5, <3>1, Zenon DEF SetupAt
      <4>2. Holds(db', Script[fn][k], fn)
        BY <1>10, <2>1, <3>1, Zenon DEF stmt
      <4> QED
        BY <1>6, <4>1, <4>2, Zenon
    <3>5. state' = "setup" /\ state' # "ready" /\ fn' = fn
      BY <1>2, <2>1
    <3> QED
      BY <2>2, <3>2, <3>3, <3>4, <3>5, Zenon DEF SetupAt
  <2> QED
    BY <1>2, <2>3, <2>4, SamePrimed, Zenon DEF SetupInv
<1>14. CASE Ends(stmt, out)
  <2>1. Executed(stmt, out) /\ k = Len(Script[fn])
    BY <1>14, Zenon DEF Ends
  <2>2. PICK ret \in Results(fn) : Finish(ret)
    BY <1>14, Zenon DEF Ends
  <2>3. ret \in Int /\ (ret < 0 \/ ret = 0 \/ ret > 0)
    BY <2>2, BackupAssumption DEF Results
  <2>4. /\ k' = 1 /\ fn' \in Fns
        /\ ret < 0 => state' = "failed"
        /\ ret > 0 => fell'
        /\ ret = 0 /\ Caller(fn) = "main" => state' = "ready"
        /\ ret = 0 /\ Caller(fn) # "main" => state' = "setup" /\ fn' = Caller(fn)
        /\ ~fell' => ~fell
    BY <1>1, <2>2, <2>3, Finished, Zenon
  <2>5. SetupOK'
    BY <1>9, <2>4, FirstStatement, Zenon DEF SetupOK
  <2>6. ASSUME ~missed', ~fell' PROVE SetupAt(db', fn', k', state')
    <3>1. SetupAt(db, fn, k, "setup") /\ out = Exec(stmt, fn)
      BY <1>2, <1>3, <1>7, <2>1, <2>4, <2>6, Zenon DEF SetupInv
    <3>2. fn \in JobFns => LogOn(db')
      BY <1>1, <1>3, <1>7, <1>8, <3>1, DoneBefore, Zenon DEF SetupAt
    <3>3. fn \in {"SetAddBackUp", "AlterAddBackUp"} => JobOn(db', "SetCompliBackUp")
      BY <1>1, <1>3, <1>7, <1>8, <3>1, FnKinds, DoneBefore, Zenon DEF SetupAt
    <3>4. \A i \in 1..Len(Script[fn]) : Holds(db', Script[fn][i], fn)
      <4>1. \A i \in 1..(k - 1) : Holds(db', Script[fn][i], fn)
        BY <1>3, <1>5, <3>1, Zenon DEF SetupAt
      <4>2. Holds(db', Script[fn][k], fn)
        BY <1>10, <2>1, <3>1, Zenon DEF stmt
      <4>3. \A i \in 1..k : Holds(db', Script[fn][i], fn)
        BY <1>6, <4>1, <4>2, Zenon
      <4> QED
        BY <2>1, <4>3, Zenon
    <3>5. /\ fn = "SetBackUpDB" => LogOn(db')
          /\ fn \in {"SetCompliBackUp", "AlterCompliBackUp"} => JobOn(db', "SetCompliBackUp")
          /\ fn \in {"SetAddBackUp", "AlterAddBackUp"} => JobOn(db', "SetAddBackUp")
      <4> DEFINE d == db'
      <4>1. IsDb(d) /\ \A i \in 1..Len(Script[fn]) : Holds(d, Script[fn][i], fn)
        BY <1>9, <3>4
      <4> HIDE DEF d
      <4>2. /\ fn = "SetBackUpDB" => LogOn(d)
            /\ fn \in {"SetCompliBackUp", "AlterCompliBackUp"} => JobOn(d, "SetCompliBackUp")
            /\ fn \in {"SetAddBackUp", "AlterAddBackUp"} => JobOn(d, "SetAddBackUp")
        BY <1>1, <4>1, FunctionDone, Zenon
      <4> QED
        BY <4>2 DEF d
    <3>6. \A i \in 1..(k' - 1) : FALSE
      BY <2>4
    <3>7. CASE ret < 0
      <4>1. state' # "setup" /\ state' # "ready"
        BY <2>4, <3>7
      <4> QED
        BY <4>1, Zenon DEF SetupAt
    <3>8. CASE ret > 0
      BY <2>4, <2>6, <3>8, Zenon
    <3>9. CASE ret = 0 /\ fn = "SetBackUpDB"
      <4>1. Caller(fn) = "SetCompliBackUp"
        BY <3>9, FnKinds, Zenon
      <4>2. state' = "setup" /\ fn' = "SetCompliBackUp"
        BY <2>4, <3>9, <4>1
      <4>3. state' # "ready" /\ fn' \notin {"SetAddBackUp", "AlterAddBackUp"}
        BY <4>2
      <4> QED
        BY <3>5, <3>6, <3>9, <4>2, <4>3, Zenon DEF SetupAt
    <3>10. CASE ret = 0 /\ fn \in {"SetCompliBackUp", "AlterCompliBackUp"}
      <4>1. Caller(fn) = "SetAddBackUp" /\ fn \in JobFns
        BY <3>10, FnKinds, Zenon
      <4>2. state' = "setup" /\ fn' = "SetAddBackUp"
        BY <2>4, <3>10, <4>1
      <4>3. state' # "ready"
        BY <4>2
      <4> QED
        BY <3>2, <3>5, <3>6, <3>10, <4>1, <4>3, Zenon DEF SetupAt
    <3>11. CASE ret = 0 /\ fn \in {"SetAddBackUp", "AlterAddBackUp"}
      <4>1. Caller(fn) = "main" /\ fn \in JobFns
        BY <3>11, FnKinds, Zenon
      <4>2. state' = "ready" /\ state' # "setup"
        BY <2>4, <3>11, <4>1
      <4> QED
        BY <3>2, <3>3, <3>5, <3>11, <4>1, <4>2, Zenon DEF SetupAt
    <3> QED
      BY <1>1, <2>3, <3>7, <3>8, <3>9, <3>10, <3>11, FnKinds, Zenon
  <2> QED
    BY <1>2, <2>5, <2>6, SamePrimed, Zenon DEF SetupInv
<1> QED
  BY <1>3, <1>11, <1>12, <1>13, <1>14, Zenon

-----------------------------------------------------------------------------
(* The other steps of main, and the start.                                 *)

\* What the end of a session leaves is a database.
LEMMA AfterSession ==
    ASSUME IsDb(db), SessionEnds
    PROVE  IsDb(db')
<1>1. /\ DOMAIN db = {"mode", "log", "dest", "full", "add"}
      /\ db.mode \in {"open", "mount"} /\ db.log \in BOOLEAN /\ db.dest \in BOOLEAN
      /\ IsJob(db.full) /\ IsJob(db.add)
  BY Zenon DEF IsDb
<1>2. ASSUME NEW j \in {"full", "add"} PROVE IsJob(Uncommitted(j))
  <2>1. IsJob(db[j])
    BY <1>1, <1>2
  <2>2. DOMAIN db[j] = {"parts", "step", "next"} /\ db[j].parts \subseteq JobParts
    BY <2>1, Zenon DEF IsJob
  <2> DEFINE A == IF "live" \in db[j].parts THEN db[j].parts ELSE db[j].parts \cap {"created"}
             u == Uncommitted(j)
  <2>3. A \subseteq JobParts
    BY <2>2
  <2>4. u = [db[j] EXCEPT !.parts = A, !.next = db[j].step]
    BY DEF Uncommitted
  <2> HIDE DEF A, u
  <2>5. DOMAIN u = {"parts", "step", "next"} /\ u.parts = A
    BY <2>2, <2>4
  <2> QED
    BY <2>3, <2>5, Zenon DEF IsJob, u
<1>3. CASE db' = db
  BY <1>3, Zenon
<1>4. CASE db' = [db EXCEPT !.full = Uncommitted("full"), !.add = Uncommitted("add")]
  <2> DEFINE p == Uncommitted("full")
             q == Uncommitted("add")
  <2>1. IsJob(p) /\ IsJob(q)
    BY <1>2
  <2>2. db' = [db EXCEPT !.full = p, !.add = q]
    BY <1>4
  <2> HIDE DEF p, q
  <2>3. /\ DOMAIN db' = {"mode", "log", "dest", "full", "add"}
        /\ db'.mode = db.mode /\ db'.log = db.log /\ db'.dest = db.dest /\ db'.full = p /\ db'.add = q
    BY <1>1, <2>2
  <2> QED
    BY <1>1, <2>1, <2>3, Zenon DEF IsDb
<1> QED
  BY <1>3, <1>4, Zenon DEF SessionEnds

\* A start begins with the first statement.
LEMMA RestartSetup ==
    ASSUME SetupOK, Restart
    PROVE  SetupOK' /\ SetupInv'
<1>1. fn' = "SetBackUpDB" /\ k' = 1 /\ state' = "setup" /\ SessionEnds
  BY Zenon DEF Restart
<1>2. IsDb(db')
  BY <1>1, AfterSession, Zenon DEF SetupOK
<1>3. fn' \in Fns /\ fn' \notin JobFns
  BY <1>1 DEF Fns, JobFns
<1>4. SetupOK'
  BY <1>1, <1>2, <1>3, FirstStatement, Zenon DEF SetupOK
<1>5. \A i \in 1..(k' - 1) : FALSE
  BY <1>1
<1>6. state' # "ready" /\ fn' \notin {"SetAddBackUp", "AlterAddBackUp"}
  BY <1>1
<1>7. SetupAt(db, fn, k, state)'
  BY <1>3, <1>5, <1>6, Zenon DEF SetupAt
<1> QED
  BY <1>4, <1>7, Zenon DEF SetupInv

\* A step altered while main serves is not committed, so the job that is
\* stored goes on as it was.
LEMMA UpdateSetup ==
    ASSUME SetupOK, SetupInv, StageInv, UpdateCompliBackUp
    PROVE  SetupOK' /\ SetupInv'
<1> DEFINE stmt == "alterStep"
           f == "AlterCompliBackUp"
<1>1. stage = "serving" /\ UNCHANGED ini /\ UNCHANGED <<fn, k, state, missed, fell>>
  BY Zenon DEF UpdateCompliBackUp
<1>2. PICK out \in {Exec(stmt, f), Error(-1), Error(HandleError), [Exec(stmt, f) EXCEPT !.code = -1]} :
        db' = out.db
  BY Zenon DEF UpdateCompliBackUp
<1>3. f \in JobFns /\ stmt \in JobStmts /\ Job(f) = "full" /\ stmt # "commit"
  BY DEF JobFns, JobStmts, Job
<1>4. IsDb(db) /\ state = "ready"
  <2>1. state = "ready"
    BY <1>1 DEF StageInv
  <2> QED
    BY <2>1, Zenon DEF SetupOK
<1>5. db' = db \/ db' = Exec(stmt, f).db
  BY <1>2, <1>3, Outs, Zenon
<1> HIDE DEF stmt, f
<1>6. IsDb(db')
  BY <1>3, <1>4, <1>5, DbStays, Zenon
<1>7. SetupOK'
  BY <1>1, <1>6, Zenon DEF SetupOK
<1>8. ASSUME ~missed', ~fell' PROVE SetupAt(db', fn', k', state')
  <2>1. LogOn(db) /\ JobOn(db, "SetCompliBackUp") /\ JobOn(db, "SetAddBackUp")
    BY <1>1, <1>4, <1>8, Zenon DEF SetupInv, SetupAt
  <2>2. LogOn(db')
    BY <1>3, <1>4, <1>5, <2>1, DoneBefore, Zenon
  <2>3. Job("SetCompliBackUp") = "full" /\ Job("SetAddBackUp") = "add"
    BY DEF Job
  <2>4. ASSUME db' = Exec(stmt, f).db
        PROVE  JobOn(db', "SetCompliBackUp") /\ JobOn(db', "SetAddBackUp")
    <3>1. /\ db'.add = db.add /\ db["full"].parts \subseteq db'["full"].parts /\ db'["full"].step = db["full"].step
      BY <1>3, <1>4, <2>4, JobExec, Zenon
    <3>2. IsJob(db'.full)
      BY <1>6, Zenon DEF IsDb
    <3>3. IsJob(db'["full"]) /\ db'["add"] = db["add"]
      BY <3>1, <3>2
    <3>4. db'["full"].parts \subseteq JobParts
      BY <3>3, Zenon DEF IsJob
    <3>a. db["full"].parts = JobParts /\ db["full"].step = Step("SetCompliBackUp")
      BY <2>1, <2>3, Zenon DEF JobOn
    <3>b. db'["full"].parts = JobParts
      BY <3>1, <3>4, <3>a, Zenon
    <3>5. JobOn(db', "SetCompliBackUp")
      BY <2>3, <3>1, <3>a, <3>b, Zenon DEF JobOn
    <3>6. JobOn(db', "SetAddBackUp")
      BY <2>1, <2>3, <3>3, Zenon DEF JobOn
    <3> QED
      BY <3>5, <3>6, Zenon
  <2>5. JobOn(db', "SetCompliBackUp") /\ JobOn(db', "SetAddBackUp")
    BY <1>5, <2>1, <2>4, Zenon
  <2>6. state' = "ready" /\ state' # "setup"
    BY <1>1, <1>4
  <2> QED
    BY <2>2, <2>5, <2>6, Zenon DEF SetupAt
<1> QED
  BY <1>1, <1>7, <1>8, SamePrimed, Zenon DEF SetupInv

\* No step of main, and no start, undoes the backups' setup unnoticed.
LEMMA SetupNext ==
    ASSUME SetupOK, SetupInv, StageInv, [Next]_vars
    PROVE  SetupOK' /\ SetupInv'
<1>1. CASE UNCHANGED backupVars
  <2>1. UNCHANGED <<ini, db, fn, k, state, missed, fell>>
    BY <1>1 DEF backupVars
  <2> QED
    BY <2>1, SamePrimed, Zenon DEF SetupOK, SetupInv
<1>2. CASE SetDbBackup
  BY <1>2, StatementSetup, Zenon DEF SetDbBackup
<1>3. CASE UpdateCompliBackUp
  BY <1>3, UpdateSetup, Zenon
<1>4. CASE FromTheStart
  BY <1>4, RestartSetup, Zenon DEF FromTheStart
<1>5. CASE InitSchema \/ ConstructFtp \/ StartFtp \/ ConstructServer \/ StartServer \/ UNCHANGED vars
  <2>1. UNCHANGED backupVars
    BY <1>5, FtpMade, NetMade, Zenon DEF InitSchema, StartFtp, StartServer, vars
  <2> QED
    BY <1>1, <2>1
<1> QED
  BY <1>2, <1>3, <1>4, <1>5, Zenon DEF Next, Main, StartAgain, Crash

\* main reaches a stage through the ones before it.
LEMMA StageNext ==
    ASSUME StageInv, [Next]_vars
    PROVE  StageInv'
<1>1. CASE FromTheStart
  <2>1. stage' = "schema"
    BY <1>1 DEF FromTheStart
  <2> QED
    BY <2>1 DEF StageInv
<1>2. CASE InitSchema
  <2>1. stage' \in {"exited", "backup"}
    BY <1>2, Zenon DEF InitSchema, Exit
  <2> QED
    BY <2>1 DEF StageInv
<1>3. CASE SetDbBackup
  <2>1. stage' \in {"backup", "ftp", "exited"}
    BY <1>3, BackupStage, Zenon
  <2>2. /\ stage' = CASE state' = "setup" -> "backup" [] state' = "ready" -> "ftp" [] state' = "failed" -> "exited"
        /\ state' \in {"setup", "ready", "failed"}
    BY <1>3, BackupStage, Zenon DEF SetDbBackup
  <2> QED
    BY <2>1, <2>2 DEF StageInv
<1>4. CASE ConstructFtp
  <2>1. /\ stage = "ftp" /\ UNCHANGED state
        /\ stage' = "exited" \/ (stage' = "startFtp" /\ "started" \in DOMAIN ftp')
    BY <1>4, FtpMade, Zenon DEF backupVars
  <2> QED
    BY <2>1 DEF StageInv
<1>5. CASE StartFtp
  <2>1. /\ stage = "startFtp" /\ UNCHANGED state
        /\ stage' = "exited" \/ (stage' = "net" /\ ftp' = [ftp EXCEPT !.started = TRUE])
    BY <1>5, Zenon DEF StartFtp, Exit, backupVars
  <2>2. "started" \in DOMAIN ftp
    BY <2>1 DEF StageInv
  <2>3. stage' = "net" => ftp'.started = TRUE
    BY <2>1, <2>2
  <2>4. state = "ready"
    BY <2>1 DEF StageInv
  <2> QED
    BY <2>1, <2>3, <2>4 DEF StageInv
<1>6. CASE ConstructServer
  <2>1. stage = "net" /\ UNCHANGED state /\ UNCHANGED ftp /\ stage' \in {"exited", "startNet"}
    BY <1>6, NetMade, Zenon DEF backupVars
  <2> QED
    BY <2>1 DEF StageInv
<1>7. CASE StartServer
  <2>1. stage = "startNet" /\ UNCHANGED state /\ UNCHANGED ftp /\ stage' \in {"serving", "exited"}
    BY <1>7, Zenon DEF StartServer, Exit, backupVars
  <2> QED
    BY <2>1 DEF StageInv
<1>8. CASE UpdateCompliBackUp \/ UNCHANGED vars
  <2>1. UNCHANGED state /\ UNCHANGED stage /\ UNCHANGED ftp
    BY <1>8, Zenon DEF UpdateCompliBackUp, vars, backupVars
  <2> QED
    BY <2>1 DEF StageInv
<1> QED
  BY <1>1, <1>2, <1>3, <1>4, <1>5, <1>6, <1>7, <1>8, Zenon DEF Next, Main, StartAgain, Crash

\* The program begins with a database that has neither job.
LEMMA SetupInit ==
    ASSUME Init
    PROVE  SetupOK /\ SetupInv /\ StageInv
<1>1. /\ stage = "schema" /\ state = "setup" /\ fn = "SetBackUpDB" /\ k = 1
      /\ db = [mode |-> "open", log |-> FALSE, dest |-> FALSE, full |-> NoJob, add |-> NoJob]
  BY DEF Init, BackupInit
<1>2. IsJob(NoJob)
  BY DEF IsJob, NoJob
<1>3. /\ DOMAIN db = {"mode", "log", "dest", "full", "add"}
      /\ db.mode = "open" /\ db.log = FALSE /\ db.dest = FALSE /\ db.full = NoJob /\ db.add = NoJob
  BY <1>1
<1>4. IsDb(db)
  BY <1>2, <1>3, Zenon DEF IsDb
<1>5. fn \in Fns /\ fn \notin JobFns /\ fn \notin {"SetAddBackUp", "AlterAddBackUp"} /\ state # "ready"
  BY <1>1 DEF Fns, JobFns
<1>6. \A i \in 1..(k - 1) : FALSE
  BY <1>1
<1>7. SetupOK
  BY <1>1, <1>4, <1>5, FirstStatement, Zenon DEF SetupOK
<1>8. SetupInv
  BY <1>5, <1>6, Zenon DEF SetupInv, SetupAt
<1>9. StageInv
  BY <1>1 DEF StageInv
<1> QED
  BY <1>7, <1>8, <1>9

\* No report can be received (StartServer) unless the ftp server runs and, if
\* no statement was taken for executed that was not and no function fell off
\* its end with a positive value, both backups are set up as this start's
\* configuration says: for every configuration, every number of failed
\* statements, lost answers, crashes and starts.
THEOREM ServesOnlyWithBackups == Spec => []ServesWithBackups
<1> DEFINE Inv == StartedInv /\ StageInv /\ SetupOK /\ SetupInv
<1>1. Init => Inv
  <2>1. Init => stage = "schema" /\ net.started = FALSE
    BY DEF Init, NoNet
  <2>2. Init => StartedInv
    BY <2>1 DEF StartedInv
  <2> QED
    BY <2>2, SetupInit
<1>2. Inv /\ [Next]_vars => Inv'
  BY StartedNext, StageNext, SetupNext, Zenon
<1>3. Inv => ServesWithBackups
  <2> SUFFICES ASSUME Inv, net.started PROVE ftp.started /\ (missed \/ fell \/ BackedUp)
    BY Zenon DEF ServesWithBackups
  <2>1. net.started # FALSE
    BY Zenon
  <2>2. stage = "serving"
    BY <2>1 DEF StartedInv
  <2>3. state = "ready" /\ ftp.started = TRUE
    BY <2>2 DEF StageInv
  <2>4. ASSUME ~missed, ~fell PROVE BackedUp
    <3>1. LogOn(db) /\ JobOn(db, "SetCompliBackUp") /\ JobOn(db, "SetAddBackUp")
      BY <2>3, <2>4, Zenon DEF SetupInv, SetupAt
    <3>2. Job("SetCompliBackUp") = "full" /\ Job("SetAddBackUp") = "add"
      BY DEF Job
    <3>3. "SetAddBackUp" \notin {"SetCompliBackUp", "AlterCompliBackUp"}
      OBVIOUS
    <3>4. Step("SetCompliBackUp") = <<BackUpDir>> /\ Step("SetAddBackUp") = <<BackUpDir, BackAddDir>>
      BY <3>3, Zenon DEF Step
    <3>5. /\ db["full"].parts = JobParts /\ db["add"].parts = JobParts
          /\ db["full"].step = <<BackUpDir>> /\ db["add"].step = <<BackUpDir, BackAddDir>>
      BY <3>1, <3>2, <3>4, Zenon DEF JobOn
    <3>6. /\ db.full.parts = JobParts /\ db.add.parts = JobParts
          /\ db.full.step = <<BackUpDir>> /\ db.add.step = <<BackUpDir, BackAddDir>>
      BY <3>5
    <3> QED
      BY <3>1, <3>6, Zenon DEF LogOn, BackedUp
  <2> QED
    BY <2>3, <2>4, Zenon
<1> QED
  BY <1>1, <1>2, <1>3, PTL DEF Spec

-----------------------------------------------------------------------------
(* The object main reads its configuration with, for any files, settings,  *)
(* calls and bounds.                                                       *)

\* An entry whose name and value are stored in the block or in a copy.
IsEntry(x) ==
    /\ DOMAIN x = {"name", "val", "at", "vat", "com", "order"}
    /\ x.at # "gone" /\ x.vat # "gone"

\* A sequence of such entries.
Of(es, S) == es \in Seq(S) /\ \A x \in S : IsEntry(x)
IsEntries(es) == \E S : Of(es, S)

\* A section of such entries whose own name is stored.
IsSection(sec) ==
    /\ DOMAIN sec = {"name", "at", "order", "com", "keys"}
    /\ sec.at # "gone"
    /\ \A j \in DOMAIN sec.keys : IsEntries(sec.keys[j])

\* An object of such sections.
IsObject(m) ==
    /\ DOMAIN m = {"data", "order", "loaded", "fileComment", "utf8"}
    /\ \A s \in DOMAIN m.data : IsSection(m.data[s])

\* The empty sequence is one of stored entries.
LEMMA NoEntries == IsEntries(<<>>)
<1>1. Of(<<>>, {})
  BY DEF Of
<1> QED
  BY <1>1, Zenon DEF IsEntries

\* So is one stored entry alone.
LEMMA OneEntry == ASSUME NEW x, IsEntry(x) PROVE IsEntries(<<x>>)
<1>1. Of(<<x>>, {x})
  BY DEF Of
<1> QED
  BY <1>1, Zenon DEF IsEntries

\* And a sequence to which one is appended.
LEMMA MoreEntries == ASSUME NEW es, IsEntries(es), NEW x, IsEntry(x) PROVE IsEntries(Append(es, x))
<1>1. PICK S : Of(es, S)
  BY Zenon DEF IsEntries
<1>2. es \in Seq(S \union {x})
  BY <1>1 DEF Of
<1>3. Of(Append(es, x), S \union {x})
  BY <1>1, <1>2 DEF Of
<1> QED
  BY <1>3, Zenon DEF IsEntries

\* The first entry may be taken, or exchanged for another.
LEMMA FirstEntry ==
    ASSUME NEW es, IsEntries(es), es # <<>>
    PROVE  IsEntry(es[1]) /\ \A x : IsEntry(x) => IsEntries(<<x>> \o Tail(es))
<1>1. PICK S : Of(es, S)
  BY Zenon DEF IsEntries
<1>2. es[1] \in S /\ Tail(es) \in Seq(S)
  BY <1>1 DEF Of
<1>3. ASSUME NEW x, IsEntry(x) PROVE IsEntries(<<x>> \o Tail(es))
  <2>1. <<x>> \in Seq(S \union {x}) /\ Tail(es) \in Seq(S \union {x})
    BY <1>2
  <2>2. Of(<<x>> \o Tail(es), S \union {x})
    BY <1>1, <1>3, <2>1 DEF Of
  <2> QED
    BY <2>2, Zenon DEF IsEntries
<1> QED
  BY <1>1, <1>2, <1>3 DEF Of

\* AddSection stores the name of a new section.
LEMMA SectionAdded ==
    ASSUME NEW m, IsObject(m), NEW e, NEW copy
    PROVE  /\ IsObject(AddSection(m, e, copy))
           /\ LowerName(e.sec) \in DOMAIN AddSection(m, e, copy).data
BY DEF IsObject, IsSection, AddSection, With, CopyString

\* PutKey puts stored entries into an object of such.
LEMMA KeyPut ==
    ASSUME NEW m, IsObject(m), NEW s \in DOMAIN m.data, NEW j, NEW es, IsEntries(es)
    PROVE  IsObject(PutKey(m, s, j, es))
<1> DEFINE sec == m.data[s]
           put == IF es = <<>> THEN WithoutKey(sec.keys, j) ELSE With(sec.keys, j, es)
           new == [sec EXCEPT !.keys = put]
           data == [m.data EXCEPT ![s] = new]
<1>1. IsSection(sec)
  BY DEF IsObject
<1>2. \A i \in DOMAIN put : IsEntries(put[i])
  BY <1>1 DEF IsSection, WithoutKey, With
<1>3. PutKey(m, s, j, es) = [m EXCEPT !.data = data]
  BY DEF PutKey
<1> HIDE DEF put
<1>4. IsSection(new)
  BY <1>1, <1>2 DEF IsSection
<1> HIDE DEF new
<1>5. \A t \in DOMAIN data : IsSection(data[t])
  BY <1>4 DEF IsObject
<1> HIDE DEF data
<1> QED
  BY <1>3, <1>5 DEF IsObject

\* AddKey copies the name exactly when it inserts it: the name that is not
\* copied belongs to the branch that keeps the name of the entry it changes.
LEMMA KeyAdded ==
    ASSUME NEW o, NEW m0, IsObject(m0), NEW e, NEW force, NEW copy, LowerName(e.sec) \in DOMAIN m0.data
    PROVE  IsObject(AddKey(o, m0, e, force, copy))
<1> DEFINE s == LowerName(e.sec)
           j == LowerName(e.key)
           old == IF j \in DOMAIN m0.data[s].keys THEN m0.data[s].keys[j] ELSE <<>>
           m == [m0 EXCEPT !.order = @ + 1]
           replace == old # <<>> /\ o.multiKey /\ force
           first == old[Oldest(old)]
           found == old # <<>> /\ ~replace
           always == o.multiKey /\ ~force
           val == IF e.val = NoText THEN EmptyValue ELSE e.val
           new == [name |-> e.key, val |-> val,
                   at |-> IF always \/ ~found THEN CopyString(copy) ELSE Uncopied(copy),
                   vat |-> CopyString(copy),
                   com |-> IF replace /\ first.com # NoText THEN first.com ELSE e.com,
                   order |-> IF replace THEN first.order ELSE m.order]
           changed == [old[1] EXCEPT !.val = new.val, !.vat = new.vat]
<1>1. AddKey(o, m0, e, force, copy) =
        IF ~found \/ always
        THEN PutKey(m, s, j, IF replace THEN <<new>> ELSE Append(old, new))
        ELSE PutKey(m, s, j, <<changed>> \o Tail(old))
  BY DEF AddKey
<1>2. IsEntries(old)
  BY NoEntries DEF IsObject, IsSection
<1>3. IsObject(m) /\ s \in DOMAIN m.data
  BY DEF IsObject
<1>4. CopyString(copy) # "gone"
  BY DEF CopyString
<1>5. ~found \/ always => IsEntry(new)
  BY <1>4 DEF IsEntry
<1>6. old # <<>> => IsEntry(changed)
  <2> SUFFICES ASSUME old # <<>> PROVE IsEntry(changed)
    OBVIOUS
  <2> HIDE DEF old
  <2>1. IsEntry(old[1])
    BY <1>2, FirstEntry
  <2>2. new.vat # "gone"
    BY <1>4
  <2> HIDE DEF new
  <2> QED
    BY <2>1, <2>2 DEF IsEntry
<1> HIDE DEF old, m, new, changed, replace, always, s, j
<1>7. CASE ~found \/ always
  <2>1. IsEntries(IF replace THEN <<new>> ELSE Append(old, new))
    BY <1>2, <1>5, <1>7, OneEntry, MoreEntries
  <2> QED
    BY <1>1, <1>3, <1>7, <2>1, KeyPut
<1>8. CASE ~(~found \/ always)
  <2>1. IsEntries(<<changed>> \o Tail(old))
    BY <1>2, <1>6, <1>8, FirstEntry
  <2> QED
    BY <1>1, <1>3, <1>8, <2>1, KeyPut
<1> QED
  BY <1>7, <1>8

\* AddEntry keeps an object one, whatever the entry and whoever calls it.
LEMMA EntryAdded ==
    ASSUME NEW o, NEW m, IsObject(m), NEW e, NEW force, NEW copy
    PROVE  IsObject(AddEntry(o, m, e, force, copy))
<1>1. IsObject(AddSection(m, e, copy)) /\ LowerName(e.sec) \in DOMAIN AddSection(m, e, copy).data
  BY SectionAdded
<1>2. IsObject(AddKey(o, AddSection(m, e, copy), e, force, copy))
  BY <1>1, KeyAdded
<1> QED
  BY <1>1, <1>2 DEF AddEntry

\* Deleting a section leaves the others as they are.
LEMMA SectionDeleted ==
    ASSUME NEW m, IsObject(m), NEW s
    PROVE  IsObject(DeleteSection(m, s))
BY DEF DeleteSection, IsObject

-----------------------------------------------------------------------------
(* The parser *)

\* A state of the parser whose object holds stored strings only.
IsParser(p) ==
    /\ DOMAIN p = {"opt", "mem", "copy", "sec", "open", "key", "val", "com", "run", "gap", "tag", "text", "stop"}
    /\ IsObject(p.mem)

\* An entry that is found is added.
LEMMA Emitted ==
    ASSUME NEW p, IsParser(p), NEW key, NEW val
    PROVE  IsParser(Emit(p, key, val))
<1> DEFINE q == IF key = NoText THEN p ELSE RunsOn(p, key[1])
           e == [sec |-> q.sec, key |-> key, val |-> val, com |-> q.com]
           m == AddEntry(q.opt, q.mem, e, FALSE, q.copy)
<1>1. IsParser(q)
  BY DEF IsParser, RunsOn
<1>2. Emit(p, key, val) =
        [q EXCEPT !.mem = m, !.com = NoText, !.run = FALSE, !.gap = <<>>, !.val = val]
  BY DEF Emit
<1> HIDE DEF q
<1>3. IsObject(m)
  BY <1>1, EntryAdded DEF IsParser
<1> HIDE DEF m
<1> QED
  BY <1>1, <1>2, <1>3 DEF IsParser

\* A line that makes no entry changes no object.
LEMMA Skipped == ASSUME NEW p, IsParser(p) PROVE IsParser(SkipLine(p))
BY DEF IsParser, SkipLine

\* No line of a file, of whatever kind, leaves a string that is not stored.
LEMMA EntryFound ==
    ASSUME NEW p, IsParser(p), NEW line
    PROVE  IsParser(FindEntry(p, line))
<1>1. IsParser(BlankLine(p))
  BY DEF IsParser, BlankLine
<1>2. IsParser(CommentLine(p, line))
  BY DEF IsParser, CommentLine, RunsOn
<1>3. IsParser(SectionLine(p, line))
  <2>1. IsParser([p EXCEPT !.sec = <<line.name>>, !.open = FALSE])
    BY DEF IsParser
  <2> QED
    BY <2>1, Emitted DEF SectionLine
<1>4. IsParser(BadSectionLine(p, line))
  BY DEF IsParser, BadSectionLine, SkipLine
<1>5. IsParser(PairLine(p, line))
  <2> DEFINE v == Trim(line.p)
             multi == p.opt.multiLine /\ IsMultiLineTag(v)
  <2>1. IsParser([p EXCEPT !.key = <<line.name>>, !.tag = v.t, !.text = <<>>])
    BY DEF IsParser
  <2>2. IsParser(Emit(p, <<line.name>>, <<Text(Unquoted(p.opt, v))>>))
    BY Emitted
  <2> QED
    BY <2>1, <2>2, Skipped DEF PairLine
<1>6. IsParser(KeyOnlyLine(p, line))
  BY Emitted, Skipped DEF KeyOnlyLine
<1>7. IsParser(TaggedLine(p, line))
  <2> DEFINE done == [p EXCEPT !.tag = ""]
  <2>1. IsParser(done) /\ IsParser([done EXCEPT !.stop = TRUE])
    BY DEF IsParser
  <2>2. IsParser([p EXCEPT !.text = Append(@, line)])
    BY DEF IsParser
  <2> HIDE DEF done
  <2>3. \A val : IsParser(Emit(done, p.key, val))
    BY <2>1, Emitted
  <2> USE DEF done
  <2> QED
    BY <2>1, <2>2, <2>3 DEF TaggedLine
<1> QED
  BY <1>1, <1>2, <1>3, <1>4, <1>5, <1>6, <1>7 DEF FindEntry

\* The states of the parser behind each line up to the n-th.
IsRun(g, a, lines, first, n) ==
    g = [i \in first..n |-> IF i = first THEN a ELSE FindEntry(g[i - 1], lines[i])]

\* A set of numbers that is not empty has a least one.
LEMMA LeastIndex ==
    ASSUME NEW T, T \subseteq Nat, T # {}
    PROVE  \E x \in T : \A y \in T : x <= y
<1> DEFINE R == OpToRel(<, Nat)
<1>1. IsWellFoundedOn(R, Nat)
  BY NatLessThanWellFounded, Zenon
<1>2. \A x, y \in Nat : y < x => <<y, x>> \in R
  BY DEF OpToRel
<1> HIDE DEF R
<1>3. PICK x \in T : \A y \in T : ~ (<<y, x>> \in R)
  BY <1>1, WFMin, Zenon
<1>4. \A y \in T : x \in Nat /\ y \in Nat /\ ~(y < x)
  BY <1>2, <1>3, Zenon
<1> QED
  BY <1>4

\* The definition of the parser's states has a solution.
LEMMA RunExists ==
    ASSUME NEW a, NEW lines, NEW first \in Nat, NEW n \in Nat, first <= n
    PROVE  \E g : IsRun(g, a, lines, first, n)
<1> DEFINE U == {i \in first..n : ~\E g : IsRun(g, a, lines, first, i)}
<1> SUFFICES ASSUME U # {} PROVE FALSE
  <2>1. n \in first..n
    OBVIOUS
  <2> QED
    BY <2>1, Zenon
<1>1. U \subseteq Nat
  OBVIOUS
<1>2. PICK x \in U : \A y \in U : x <= y
  <2> HIDE DEF U
  <2> QED
    BY <1>1, LeastIndex, Zenon
<1>3. x # first
  <2> DEFINE g == [i \in first..first |-> a]
  <2>1. IsRun(g, a, lines, first, first)
    <3>1. \A i \in first..first : i = first
      OBVIOUS
    <3> QED
      BY <3>1 DEF IsRun
  <2> HIDE DEF g
  <2> QED
    BY <1>2, <2>1, Zenon
<1>4. x \in Nat /\ x - 1 \in first..n /\ x - 1 \notin U /\ first <= x - 1
  BY <1>2, <1>3
<1>5. PICK g : IsRun(g, a, lines, first, x - 1)
  BY <1>4, Zenon
<1> DEFINE h == [i \in first..x |-> IF i = x THEN FindEntry(g[x - 1], lines[x]) ELSE g[i]]
<1>6. IsRun(h, a, lines, first, x)
  <2>1. \A i \in first..x : i = x \/ i \in first..(x - 1)
    BY <1>4
  <2>2. \A i \in first..(x - 1) : i \in first..x /\ i # x
    BY <1>4
  <2>3. \A i \in first..(x - 1) : h[i] = g[i]
    BY <2>2
  <2>4. \A i \in first..(x - 1) : g[i] = IF i = first THEN a ELSE FindEntry(g[i - 1], lines[i])
    BY <1>5 DEF IsRun
  <2>5. \A i \in first..(x - 1) : i = first \/ i - 1 \in first..(x - 1)
    BY <1>4
  <2>6. x \in first..x /\ x - 1 \in first..(x - 1)
    BY <1>4
  <2>7. h[x] = FindEntry(h[x - 1], lines[x])
    BY <2>3, <2>6
  <2>8. h = [i \in first..x |-> h[i]]
    OBVIOUS
  <2> HIDE DEF h
  <2>9. \A i \in first..x : h[i] = IF i = first THEN a ELSE FindEntry(h[i - 1], lines[i])
    BY <1>3, <2>1, <2>3, <2>4, <2>5, <2>7, Zenon
  <2> QED
    BY <2>8, <2>9, Zenon DEF IsRun
<1> HIDE DEF h
<1> QED
  BY <1>2, <1>6, Zenon

\* Every state of a run is one whose object holds stored strings only.
LEMMA RunParses ==
    ASSUME NEW a, IsParser(a), NEW lines, NEW first \in Nat, NEW n \in Nat, first <= n,
           NEW g, IsRun(g, a, lines, first, n)
    PROVE  IsParser(g[n])
<1> DEFINE U == {i \in first..n : ~IsParser(g[i])}
<1> SUFFICES ASSUME U # {} PROVE FALSE
  <2>1. n \in first..n
    OBVIOUS
  <2> QED
    BY <2>1, Zenon
<1>1. U \subseteq Nat
  OBVIOUS
<1>2. PICK x \in U : \A y \in U : x <= y
  <2> HIDE DEF U
  <2> QED
    BY <1>1, LeastIndex, Zenon
<1>3. \A i \in first..n : g[i] = IF i = first THEN a ELSE FindEntry(g[i - 1], lines[i])
  BY DEF IsRun
<1>4. x # first
  BY <1>2, <1>3
<1>5. x \in first..n /\ x - 1 \in first..n /\ x - 1 \notin U
  BY <1>2, <1>4
<1>6. IsParser(g[x - 1])
  BY <1>5
<1>7. IsParser(g[x])
  BY <1>3, <1>4, <1>5, <1>6, EntryFound
<1> QED
  BY <1>2, <1>7

\* LoadData's loop adds every entry of a file of any length.
LEMMA LoopParses ==
    ASSUME NEW o, NEW m, IsObject(m), NEW copy, NEW lines, NEW first \in Nat, Len(lines) \in Nat, first <= Len(lines)
    PROVE  IsObject(Parsed(o, m, copy, lines, first))
<1> DEFINE a == Start(o, m, copy)
           n == Len(lines)
           f == CHOOSE g : g = [i \in first..n |-> IF i = first THEN a ELSE FindEntry(g[i - 1], lines[i])]
<1>1. IsParser(a)
  BY DEF IsParser, Start
<1>2. \E g : IsRun(g, a, lines, first, n)
  <2> HIDE DEF a
  <2> QED
    BY RunExists, Zenon
<1>3. IsRun(f, a, lines, first, n)
  BY <1>2, Zenon DEF IsRun
<1>4. Parsed(o, m, copy, lines, first) = EndOfData(f[n]).mem
  BY DEF Parsed
<1> HIDE DEF f, a
<1>5. IsParser(f[n])
  BY <1>1, <1>3, RunParses
<1>6. IsParser(EndOfData(f[n]))
  BY <1>5, Emitted DEF EndOfData
<1> QED
  BY <1>4, <1>6 DEF IsParser

\* FindFileComment stops at some line.
LEMMA LeadEnds ==
    ASSUME NEW lines, Len(lines) \in Nat
    PROVE  Lead(lines) \in 0..Len(lines)
<1> DEFINE N == Len(lines)
           U == {i \in 0..N : i < N => lines[i + 1].kind # "comment"}
<1>1. U \subseteq Nat /\ N \in U
  OBVIOUS
<1>2. PICK x \in U : \A y \in U : x <= y
  <2>1. U \subseteq Nat /\ U # {}
    BY <1>1
  <2> HIDE DEF U
  <2> QED
    BY <2>1, LeastIndex, Zenon
<1>3. x \in 0..N /\ (x < N => lines[x + 1].kind # "comment")
  BY <1>2
<1>4. \A i \in 1..x : lines[i].kind = "comment"
  <2> SUFFICES ASSUME NEW i \in 1..x PROVE lines[i].kind = "comment"
    OBVIOUS
  <2>1. i - 1 \in 0..N /\ i - 1 < N /\ ~(x <= i - 1) /\ (i - 1) + 1 = i
    BY <1>3
  <2>2. i - 1 \notin U
    BY <1>2, <2>1
  <2> QED
    BY <2>1, <2>2
<1> HIDE DEF U
<1> QED
  BY <1>3, <1>4, Zenon DEF Lead

\* LoadData, into an empty object or a second file into a loaded one.
LEMMA Loaded ==
    ASSUME NEW o, NEW m, IsObject(m), NEW file, Len(file.lines) \in Nat
    PROVE  IsObject(LoadData(o, m, file))
<1> DEFINE m1 == IF file.bom /\ ~m.loaded THEN [m EXCEPT !.utf8 = TRUE] ELSE m
           n == IF m.fileComment = NoText THEN Lead(file.lines) ELSE 0
           m2 == IF n = 0 THEN m1 ELSE [m1 EXCEPT !.fileComment = SubSeq(file.lines, 1, n)]
           m3 == Parsed(o, m2, m.loaded, file.lines, n)
<1>1. LoadData(o, m, file) = IF file.lines = <<>> THEN m1 ELSE [m3 EXCEPT !.loaded = TRUE]
  BY DEF LoadData
<1>2. IsObject(m1)
  BY DEF IsObject
<1>3. n \in Nat /\ n <= Len(file.lines)
  <2>1. Lead(file.lines) \in 0..Len(file.lines)
    BY LeadEnds
  <2> QED
    BY <2>1
<1> HIDE DEF m1, n
<1>4. IsObject(m2)
  BY <1>2 DEF IsObject
<1> HIDE DEF m2
<1>5. IsObject(m3)
  BY <1>3, <1>4, LoopParses
<1> HIDE DEF m3
<1>6. IsObject([m3 EXCEPT !.loaded = TRUE])
  BY <1>5 DEF IsObject
<1> QED
  BY <1>1, <1>2, <1>6

-----------------------------------------------------------------------------
(* Deletion *)

\* What is kept of the first entries, for each number up to n.
IsKeeping(g, es, v, n) ==
    g = [i \in 0..n |-> IF i = 0 THEN <<>>
                        ELSE IF v = NoText \/ SameValue(es[i].val, v) THEN g[i - 1]
                        ELSE Append(g[i - 1], es[i])]

\* The definition of what is kept has a solution.
LEMMA KeepingExists ==
    ASSUME NEW es, NEW v, NEW n \in Nat
    PROVE  \E g : IsKeeping(g, es, v, n)
<1> DEFINE U == {i \in 0..n : ~\E g : IsKeeping(g, es, v, i)}
           step(g, i) == IF v = NoText \/ SameValue(es[i].val, v) THEN g[i - 1]
                         ELSE Append(g[i - 1], es[i])
<1> SUFFICES ASSUME U # {} PROVE FALSE
  <2>1. n \in 0..n
    OBVIOUS
  <2> QED
    BY <2>1, Zenon
<1>1. U \subseteq Nat
  OBVIOUS
<1>2. PICK x \in U : \A y \in U : x <= y
  <2> HIDE DEF U
  <2> QED
    BY <1>1, LeastIndex, Zenon
<1>3. x # 0
  <2> DEFINE g == [i \in 0..0 |-> <<>>]
  <2>1. IsKeeping(g, es, v, 0)
    <3>1. \A i \in 0..0 : i = 0
      OBVIOUS
    <3> QED
      BY <3>1 DEF IsKeeping
  <2> HIDE DEF g
  <2> QED
    BY <1>2, <2>1, Zenon
<1>4. x \in Nat /\ x - 1 \in 0..n /\ x - 1 \notin U /\ 0 <= x - 1
  BY <1>2, <1>3
<1>5. PICK g : IsKeeping(g, es, v, x - 1)
  BY <1>4, Zenon
<1> DEFINE h == [i \in 0..x |-> IF i = x THEN step(g, x) ELSE g[i]]
<1>6. IsKeeping(h, es, v, x)
  <2>1. \A i \in 0..x : i = x \/ i \in 0..(x - 1)
    BY <1>4
  <2>2. \A i \in 0..(x - 1) : i \in 0..x /\ i # x
    BY <1>4
  <2>3. \A i \in 0..(x - 1) : h[i] = g[i]
    BY <2>2
  <2>4. \A i \in 0..(x - 1) : g[i] = IF i = 0 THEN <<>> ELSE step(g, i)
    BY <1>5 DEF IsKeeping
  <2>5. \A i \in 0..(x - 1) : i = 0 \/ i - 1 \in 0..(x - 1)
    BY <1>4
  <2>6. x \in 0..x /\ x - 1 \in 0..(x - 1)
    BY <1>4
  <2>7. h[x] = step(h, x)
    BY <2>3, <2>6
  <2>8. h = [i \in 0..x |-> h[i]]
    OBVIOUS
  <2> HIDE DEF h
  <2>9. \A i \in 0..x : h[i] = IF i = 0 THEN <<>> ELSE step(h, i)
    BY <1>3, <2>1, <2>3, <2>4, <2>5, <2>7, Zenon
  <2> QED
    BY <2>8, <2>9, Zenon DEF IsKeeping
<1> HIDE DEF h
<1> QED
  BY <1>2, <1>6, Zenon

\* What is kept of stored entries are stored entries.
LEMMA KeptAreEntries ==
    ASSUME NEW es, IsEntries(es), NEW v
    PROVE  IsEntries(Staying(es, v))
<1> DEFINE n == Len(es)
           f == CHOOSE g : g = [i \in 0..n |-> IF i = 0 THEN <<>>
                        ELSE IF v = NoText \/ SameValue(es[i].val, v) THEN g[i - 1]
                        ELSE Append(g[i - 1], es[i])]
<1>1. n \in Nat /\ \A i \in 1..n : IsEntry(es[i])
  <2>1. PICK S : Of(es, S)
    BY Zenon DEF IsEntries
  <2> QED
    BY <2>1 DEF Of
<1>2. \E g : IsKeeping(g, es, v, n)
  BY <1>1, KeepingExists, Zenon
<1>3. IsKeeping(f, es, v, n)
  BY <1>2, Zenon DEF IsKeeping
<1>4. Staying(es, v) = f[n]
  BY DEF Staying
<1> HIDE DEF f, n
<1> DEFINE U == {i \in 0..n : ~IsEntries(f[i])}
<1>5. ASSUME U # {} PROVE FALSE
  <2>1. U \subseteq Nat
    BY <1>1
  <2>2. PICK x \in U : \A y \in U : x <= y
    <3> HIDE DEF U
    <3> QED
      BY <1>5, <2>1, LeastIndex, Zenon
  <2>3. \A i \in 0..n : f[i] = IF i = 0 THEN <<>>
                                ELSE IF v = NoText \/ SameValue(es[i].val, v) THEN f[i - 1]
                                ELSE Append(f[i - 1], es[i])
    BY <1>3 DEF IsKeeping
  <2>4. x # 0
    BY <1>1, <2>2, <2>3, NoEntries
  <2>5. x \in 0..n /\ x \in 1..n /\ x - 1 \in 0..n /\ x - 1 \notin U
    BY <1>1, <2>2, <2>4
  <2>6. IsEntries(f[x - 1]) /\ IsEntry(es[x])
    BY <1>1, <2>5
  <2>7. IsEntries(Append(f[x - 1], es[x]))
    BY <2>6, MoreEntries
  <2>8. IsEntries(f[x])
    BY <2>3, <2>4, <2>5, <2>6, <2>7
  <2> QED
    BY <2>2, <2>8
<1>6. n \in 0..n
  BY <1>1
<1> QED
  BY <1>4, <1>5, <1>6

\* DeleteValue keeps an object one.
LEMMA ValueDeleted ==
    ASSUME NEW m, IsObject(m), NEW s \in DOMAIN m.data, NEW j \in DOMAIN m.data[s].keys, NEW v, NEW removeEmpty
    PROVE  IsObject(DeleteValue(m, s, j, v, removeEmpty))
<1> DEFINE old == m.data[s].keys[j]
           keep == Staying(old, v)
           done == PutKey(m, s, j, keep)
<1>1. IsEntries(old)
  BY DEF IsObject, IsSection
<1>2. IsEntries(keep)
  BY <1>1, KeptAreEntries
<1>3. IsObject(done)
  BY <1>2, KeyPut
<1>4. IsObject(DeleteSection(m, s))
  BY SectionDeleted
<1> QED
  BY <1>3, <1>4 DEF DeleteValue

-----------------------------------------------------------------------------
\* A new object holds nothing.
LEMMA ObjectInit == IniInit => IsObject(mem)
BY DEF IniInit, Fresh, IsObject

\* Every operation keeps an object one that holds stored strings only.
LEMMA ObjectNext == IsObject(mem) /\ [IniNext]_iniVars => IsObject(mem)'
<1> SUFFICES ASSUME IsObject(mem), [IniNext]_iniVars PROVE IsObject(mem')
  OBVIOUS
<1>1. CASE UNCHANGED mem
  BY <1>1
<1>2. CASE LoadFile
  <2>1. Len(disk.lines) \in Nat /\ mem' = LoadData(opt, mem, disk)
    BY <1>2 DEF LoadFile
  <2> QED
    BY <2>1, Loaded
<1>3. CASE Reset
  BY <1>3 DEF Reset, ResetAll, IsObject
<1>4. ASSUME NEW c, SetValue(c) PROVE IsObject(mem')
  BY <1>4, EntryAdded DEF SetValue
<1>5. ASSUME NEW c, NEW text, SetText(c, text) PROVE IsObject(mem')
  BY <1>5, EntryAdded DEF SetText
<1>6. ASSUME NEW c, Delete(c) PROVE IsObject(mem')
  BY <1>6, SectionDeleted, ValueDeleted DEF Delete
<1> QED
  BY <1>1, <1>2, <1>3, <1>4, <1>5, <1>6
     DEF IniNext, iniVars, SaveFile, SetLongValue, SetDoubleValue, SetBoolValue

\* Such an object has no name and no value in memory that is gone.
LEMMA ObjectStored == IsObject(mem) => NoDangling
<1> SUFFICES ASSUME IsObject(mem), NEW s \in DOMAIN mem.data
             PROVE  /\ mem.data[s].at # "gone"
                    /\ \A j \in DOMAIN mem.data[s].keys :
                          \A x \in Range(mem.data[s].keys[j]) : x.at # "gone" /\ x.vat # "gone"
  BY DEF NoDangling, AllEntries
<1>1. IsSection(mem.data[s])
  BY DEF IsObject
<1>2. ASSUME NEW j \in DOMAIN mem.data[s].keys, NEW x \in Range(mem.data[s].keys[j])
      PROVE  x.at # "gone" /\ x.vat # "gone"
  <2>1. IsEntries(mem.data[s].keys[j])
    BY <1>1 DEF IsSection
  <2>2. PICK S : Of(mem.data[s].keys[j], S)
    BY <2>1, Zenon DEF IsEntries
  <2>3. x \in S
    BY <2>2 DEF Of, Range
  <2> QED
    BY <2>2, <2>3 DEF Of, IsEntry
<1> QED
  BY <1>1, <1>2 DEF IsSection

\* NoDangling for every file, setting and call: however an object is loaded,
\* changed and loaded again, AddEntry never keeps a pointer into the block of a
\* second load, which LoadData deletes, nor into its caller's memory.
THEOREM NothingDangles == IniSpec => []NoDangling
<1>1. IniSpec => []IsObject(mem)
  BY ObjectInit, ObjectNext, PTL DEF IniSpec
<1> QED
  BY <1>1, ObjectStored, PTL
=============================================================================
