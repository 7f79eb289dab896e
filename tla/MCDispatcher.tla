----------------------------- MODULE MCDispatcher -----------------------------
(* Instances of Dispatcher for TLC.                                          *)
EXTENDS Dispatcher, TLC

\* Connections and threads of the pool are interchangeable.
Symmetry == Permutations(Conns) \cup Permutations(Workers)

===============================================================================
