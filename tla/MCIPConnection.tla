----------------------------- MODULE MCIPConnection --------------------------
(* Small instances of IPConnection for TLC. *)
EXTENDS IPConnection

CONSTANTS t1, t2, t3, t4, t5, t6
==============================================================================
