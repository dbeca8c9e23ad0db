------------------------------- MODULE BusTurn -------------------------------
(***************************************************************************)
(* What Paradox.send_wait promises about the half-duplex bus to the panel: *)
(* the exchanges of different calls never overlap, a call is transmitted   *)
(* at most Retries times, it gives up with a timeout only when it has used *)
(* all of them, and it reports success only when it has the bus.           *)
(***************************************************************************)
EXTENDS Naturals

CONSTANTS Calls, Retries

VARIABLES
  onBus,    \* the calls waiting for an answer to what they transmitted
  sent,     \* how often each call was transmitted
  outcome   \* "none" while the call has not returned or raised

vars == <<onBus, sent, outcome>>

Init == /\ onBus = {}
        /\ sent = [c \in Calls |-> 0]
        /\ outcome = [c \in Calls |-> "none"]

\* The bus is free, or c still has it and transmits again.
Transmit(c) ==
  /\ outcome[c] = "none"
  /\ onBus \subseteq {c}
  /\ sent[c] < Retries
  /\ onBus' = {c}
  /\ sent' = [sent EXCEPT ![c] = @ + 1]
  /\ UNCHANGED outcome

\* c lets another call use the bus before it tries again.
Yield(c) ==
  /\ c \in onBus
  /\ onBus' = onBus \ {c}
  /\ UNCHANGED <<sent, outcome>>

Finish(c, o) ==
  /\ outcome[c] = "none"
  /\ o = "ok" => c \in onBus
  /\ o = "timeout" => c \in onBus /\ sent[c] = Retries
  /\ onBus' = onBus \ {c}
  /\ outcome' = [outcome EXCEPT ![c] = o]
  /\ UNCHANGED sent

Next == \E c \in Calls :
          \/ Transmit(c)
          \/ Yield(c)
          \/ \E o \in {"ok", "timeout", "connerr"} : Finish(c, o)

Spec == Init /\ [][Next]_vars
==============================================================================
