------------------------------- MODULE MCLogger -------------------------------
(* Instances of Logger for TLC: messages and sinks are model values.  No     *)
(* symmetry is declared, since the run also checks liveness.                 *)
EXTENDS Logger, TLC

===============================================================================
