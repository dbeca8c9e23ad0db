------------------------------ MODULE MCSendWait -----------------------------
(* Small instances of SendWait for TLC. *)
EXTENDS SendWait

CONSTANTS zone1, zone2, read1

\* Two actions, whose replies look alike, and the read of one memory block.
MCCalls == {zone1, zone2, read1}

MCAccepts == [c \in MCCalls |-> IF c = read1 THEN {read1} ELSE {zone1, zone2}]
==============================================================================
