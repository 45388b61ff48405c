------------------------------ MODULE Startup ------------------------------
(***************************************************************************)
(* main: the schema, the backups (BackupSetup), the ftp server and the     *)
(* report server are brought up one after the other, each from its section *)
(* of system_info.ini, and a failure ends the program.  It may crash at    *)
(* any point and be started again, with the file edited in between.        *)
(*                                                                         *)
(* CftpServerEx is not in the repository; it is taken to be the Cftp whose *)
(* constructor and StartFtp are.                                           *)
(***************************************************************************)
EXTENDS BackupSetup

CONSTANTS
    NotNumber, \* a value std::stoi throws on: no number, or one that no int holds
    Garbage,   \* what an uninitialised short may hold
    SizeMod    \* values of size_t: 2^64 in the build, smaller for TLC

VARIABLES
    stage, \* where main is: schema, backup, ftp, startFtp, net, startNet, serving, exited
    ftp,   \* Cftp: the port its server was made for, its members port and thread_number, m_started
    net    \* CMuduoServer: the port its address has, its CNetparam, and whether it has been started

vars == <<backupVars, stage, ftp, net>>

NoFtp == [listen |-> 0, port |-> 0, thread_number |-> 0, started |-> FALSE]
NoNet == [listen |-> 0, port |-> 0, ioThreadNum |-> 0, workThreadNumber |-> 0, started |-> FALSE]

-----------------------------------------------------------------------------
\* std::stoi of an entry; it throws out of main
Throws(section, key) == Configured(section, key, 0) = NotNumber

Init ==
    /\ BackupInit
    /\ stage = "schema"
    /\ ftp = NoFtp /\ net = NoNet

Exit == stage' = "exited"

\* InitDMShemaAndTable, of which SchemaInit has the detail; the port of the
\* database is read on the way
InitSchema ==
    /\ stage = "schema"
    /\ \/ Exit
       \/ ~Throws("dbInfo", "PORT") /\ stage' = "backup"
    /\ UNCHANGED <<backupVars, ftp, net>>

\* a statement of SetDbBackup, and main's look at its result at the end
SetDbBackup ==
    /\ stage = "backup"
    /\ Statement
    /\ stage' = CASE state' = "setup" -> "backup" [] state' = "ready" -> "ftp" [] state' = "failed" -> "exited"
    /\ UNCHANGED <<ftp, net>>

\* a number as the uint16_t that FtpServer and InetAddress take, an int as a
\* short, and as a size_t
ToPort(p)  == p % 65536
ToShort(n) == ((n + 32768) % 65536) - 32768
ToSize(n)  == n % SizeMod

\* The members as the constructor leaves them: server is the first of them,
\* so FtpServer gets port before InitFtpServerInfo has given it a value.
MakeFtp(p) ==
    ftp' = [listen |-> ToPort(p), port |-> ToShort(Configured("ftp", "PORT", 21)),
            thread_number |-> ToSize(Configured("ftp", "Thread_number", 4)), started |-> FALSE]

\* what it may return: an error of LoadFile, or whatever is there at its end
InitConfigReader == {-1} \cup FallOff

\* Cftp::Cftp: the program ends on a negative result, and on an entry that is
\* no number.
ConstructFtp ==
    /\ stage = "ftp"
    /\ \E ret \in InitConfigReader :
          \/ ret < 0 /\ Exit /\ UNCHANGED ftp
          \/ ret >= 0 /\ (Throws("ftp", "PORT") \/ Throws("ftp", "Thread_number")) /\ Exit /\ UNCHANGED ftp
          \/ /\ ret >= 0 /\ ~Throws("ftp", "PORT") /\ ~Throws("ftp", "Thread_number")
             /\ \E p \in Garbage : MakeFtp(p)
             /\ stage' = "startFtp"
    /\ UNCHANGED <<backupVars, net>>

StartFtp ==
    /\ stage = "startFtp"
    /\ \/ Exit /\ UNCHANGED ftp
       \/ ftp' = [ftp EXCEPT !.started = TRUE] /\ stage' = "net"
    /\ UNCHANGED <<backupVars, net>>

\* CNetparam, whose port is an int, and the address made of it
MakeNet ==
    net' = [listen           |-> ToPort(Configured("server", "port", 7824)),
            port             |-> Configured("server", "port", 7824),
            ioThreadNum      |-> Configured("server", "IOthreadNum", 5),
            workThreadNumber |-> Configured("server", "WorkthreadNum", 10),
            started          |-> FALSE]

\* CMuduoServer::CMuduoServer: binding to the port, or a negative number of
\* network threads, may end the program
ConstructServer ==
    /\ stage = "net"
    /\ \/ Exit /\ UNCHANGED net
       \/ /\ ~Throws("server", "port") /\ ~Throws("server", "IOthreadNum") /\ ~Throws("server", "WorkthreadNum")
          /\ MakeNet
          /\ stage' = "startNet"
    /\ UNCHANGED <<backupVars, ftp>>

\* CMuduoServer::Start and the loop; ThreadPool::start (external) makes room
\* for its threads first, which throws for a negative number of them
StartServer ==
    /\ stage = "startNet"
    /\ \/ net.workThreadNumber < 0 /\ Exit /\ UNCHANGED net
       \/ /\ net.workThreadNumber >= 0
          /\ net' = [net EXCEPT !.started = TRUE]
          /\ stage' = "serving"
    /\ UNCHANGED <<backupVars, ftp>>

\* UpdateCompliBackUp, which nothing in the repository calls: a step altered
\* while main serves, outside a START and COMMIT.  (UpdateAddBackUp returns
\* before its first statement.)
UpdateCompliBackUp ==
    LET stmt == "alterStep"
        f    == "AlterCompliBackUp"
    IN  /\ stage = "serving"
        /\ \E out \in {Exec(stmt, f), Error(-1), Error(HandleError), [Exec(stmt, f) EXCEPT !.code = -1]} :
              BindSql2ExeEx(stmt, f, out) /\ db' = out.db
        /\ UNCHANGED <<ini, fn, k, state, missed, fell, stage, ftp, net>>

FromTheStart ==
    Restart /\ stage' = "schema" /\ ftp' = NoFtp /\ net' = NoNet

StartAgain == stage = "exited" /\ FromTheStart /\ UNCHANGED faults

Crash == stage # "exited" /\ FromTheStart /\ faults < MaxFaults /\ faults' = faults + 1

Main == InitSchema \/ SetDbBackup \/ ConstructFtp \/ StartFtp \/ ConstructServer \/ StartServer

Next == Main \/ UpdateCompliBackUp \/ StartAgain \/ Crash

\* The program runs on, and whoever runs it starts it again when it exited.
\* InitDMShemaAndTable does not fail for ever, in particular not because an
\* earlier start has left the database mounted (the database is external).
Spec ==
    /\ Init /\ [][Next]_vars
    /\ WF_vars(Main) /\ WF_vars(StartAgain)
    /\ SF_vars(InitSchema /\ stage' = "backup")

-----------------------------------------------------------------------------
(* Properties *)

\* No report can be received (the report server has been started) unless the
\* ftp server runs and, if no statement was taken for executed that was not
\* and no function fell off its end with a positive value, both backups are
\* set up as this start's configuration says, whatever failed, crashed or was
\* configured in earlier starts.
ServesWithBackups ==
    net.started => ftp.started /\ (missed \/ fell \/ BackedUp)

\* "Start the ftp server as the configuration file says": it listens on the
\* configured port.
FtpPortAsConfigured == ftp.started => ftp.listen = ToPort(Configured("ftp", "PORT", 21))
=============================================================================
