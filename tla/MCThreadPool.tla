---------------------------- MODULE MCThreadPool ----------------------------
(* ThreadPool as it is: workers are not interchangeable for liveness. *)
EXTENDS ThreadPool
=============================================================================
