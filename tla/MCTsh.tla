------------------------------- MODULE MCTsh -------------------------------
(* Model-checking instances of the tiny shell. *)
EXTENDS TshInvariant, TLC

\* Process IDs are only compared for equality.
PidSymmetry == Permutations(Pids)
=============================================================================
