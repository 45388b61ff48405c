----------------------------- MODULE MCStartup -----------------------------
(***************************************************************************)
(* The file that is shipped, whose section for the report server has       *)
(* another name than the one that is read, one with that section put right *)
(* and other directories and a port that is too large, and two with an     *)
(* entry that is no number or negative.                                    *)
(***************************************************************************)
EXTENDS Startup, TLC

AnyResult == {-1, 0, 1}

AnyShort == {0, 21, -1}

Shipped ==
    <<"dbInfo", "PORT">> :> 5236 @@ <<"dbInfo", "BackUpDir">> :> "/dm8/backUp_test"
    @@ <<"dbInfo", "BackAddDir">> :> "/dm8/backUp_2"
    @@ <<"sever", "IOthreadNum">> :> 5 @@ <<"sever", "WorkthreadNum">> :> 10 @@ <<"sever", "port">> :> 7548
    @@ <<"ftp", "PORT">> :> 221

Corrected ==
    <<"dbInfo", "BackUpDir">> :> "/dm8/other"
    @@ <<"server", "port">> :> 73084 @@ <<"server", "WorkthreadNum">> :> 2
    @@ <<"ftp", "PORT">> :> 40000 @@ <<"ftp", "Thread_number">> :> 1

Misspelt == <<"ftp", "Thread_number">> :> NotNumber

Negative == <<"server", "WorkthreadNum">> :> -1 @@ <<"ftp", "Thread_number">> :> -1

MCInis == {Shipped, Corrected, Misspelt, Negative}
=============================================================================
