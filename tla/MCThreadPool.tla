---------------------------- MODULE MCThreadPool ----------------------------
(* A pool of two threads, one client beside the owner and three tasks. *)
EXTENDS ThreadPool
=============================================================================
