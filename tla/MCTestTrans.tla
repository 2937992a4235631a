---------------------------- MODULE MCTestTrans -----------------------------
(* The geometries of csim, and the matrices of driver.py with two more. *)
EXTENDS TestTrans

MCCaches == {[s |-> 1, E |-> 1, b |-> 0], [s |-> 1, E |-> 2, b |-> 1],
             [s |-> 2, E |-> 2, b |-> 0], [s |-> 1, E |-> 3, b |-> 0]}

MCDims == {<<32, 32>>, <<64, 64>>, <<61, 67>>, <<61, 32>>, <<40, 64>>}
=============================================================================
