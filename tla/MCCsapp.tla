------------------------------- MODULE MCCsapp ------------------------------
(* Three lines, some longer than a buffer and one empty, and a rest. *)
EXTENDS Csapp

MCData == <<"a", "b", "nl", "nl", "c", "a", "nl", "b">>
=============================================================================
