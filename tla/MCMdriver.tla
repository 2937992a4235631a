------------------------------ MODULE MCMdriver ------------------------------
(* The instance of the malloc driver for TLC: all of it is in the cfg.     *)
EXTENDS Mdriver
=============================================================================
