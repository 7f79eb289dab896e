------------------------- MODULE MCNotificationCenter -------------------------
(* Instances of NotificationCenter for TLC: threads and connections are      *)
(* model values.  No symmetry is declared, since the run also checks         *)
(* liveness.                                                                 *)
EXTENDS NotificationCenter, TLC

===============================================================================
