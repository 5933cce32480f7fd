---------------------------- MODULE MCThreadPool ----------------------------
(***************************************************************************)
(* Small pools.  The guards stand for the worker's calls and the boot      *)
(* thread's, which overlap; five of them are enough to fill two slots and  *)
(* two places inside try_acquire and to have one more caller at the cap.   *)
(***************************************************************************)
EXTENDS ThreadPool

=============================================================================
