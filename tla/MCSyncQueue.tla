----------------------------- MODULE MCSyncQueue ----------------------------
(***************************************************************************)
(* More items than a bounded queue has room for, and two threads on either *)
(* side that can wait, wake and contend for the mutex.                     *)
(***************************************************************************)
EXTENDS SyncQueue
=============================================================================
