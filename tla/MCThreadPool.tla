----------------------------- MODULE MCThreadPool -----------------------------
(* Instances of ThreadPool for TLC.  Threads and tasks are model values; the *)
(* runs check liveness too, so no symmetry.                                  *)
EXTENDS ThreadPool

===============================================================================
