---------------------------- MODULE MCThreadPool ----------------------------
(* Small pools for TLC. No symmetry: the run checks liveness.               *)
EXTENDS ThreadPool, TLC
=============================================================================
