----------------------------- MODULE MCEventLoops -----------------------------
(* Instances of EventLoops for TLC.                                          *)
EXTENDS EventLoops

===============================================================================
