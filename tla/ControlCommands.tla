--------------------------- MODULE ControlCommands --------------------------
(***************************************************************************)
(* Control commands of the interfaces on the outputs of a Spectra or       *)
(* Magellan panel: Paradox.control_output and Panel.control_outputs, with  *)
(* zones and partitions as the case without a pulse.  The panel takes one  *)
(* element per request, so a command on several elements may fail half     *)
(* way; request_lock is free while a pulse sleeps, so commands run into    *)
(* each other.                                                             *)
(*                                                                         *)
(* A send_wait call is the one step in which its last exchange ends        *)
(* (module SendWait has the attempts): the action was carried out or not,  *)
(* and the call returns a reply or raises.                                 *)
(***************************************************************************)
EXTENDS Naturals, Sequences, SequencesExt

CONSTANT Wanted     \* the calls: [call |-> [selected : sequence of outputs, command]]

Calls == DOMAIN Wanted

Supported == {"on", "off", "pulse"}

VARIABLES
  on,         \* the outputs that are on, at the panel
  pc,         \* where each call is: "idle", "act", "sleep", "off", "done"
  at,         \* index of the output the call works on
  result,     \* what control_output returned: "none", "true", "false", "raised"
  connected,  \* connection.connected
  done        \* history: the outputs each call has brought where it wants them

vars == <<on, pc, at, result, connected, done>>

Command(c) == Wanted[c].command

Output(c) == Wanted[c].selected[at[c]]

Init ==
  /\ on = {}
  /\ pc = [c \in Calls |-> "idle"]
  /\ at = [c \in Calls |-> 1]
  /\ result = [c \in Calls |-> "none"]
  /\ connected = TRUE
  /\ done = [c \in Calls |-> {}]

-----------------------------------------------------------------------------

Return(c, r) ==
  /\ pc' = [pc EXCEPT ![c] = "done"]
  /\ result' = [result EXCEPT ![c] = r]
  /\ UNCHANGED at

\* select() found nothing, or the panel has no action for the command: False.
Begin(c) ==
  /\ pc[c] = "idle"
  /\ IF Wanted[c].selected = <<>> \/ Command(c) \notin Supported
     THEN Return(c, "false")
     ELSE pc' = [pc EXCEPT ![c] = "act"] /\ UNCHANGED <<at, result>>
  /\ UNCHANGED <<on, connected, done>>

\* The panel carries out the request: a pulse is two of them.
Perform(c) ==
  LET switchOn == Command(c) # "off" /\ pc[c] = "act"
  IN /\ on' = IF switchOn THEN on \cup {Output(c)} ELSE on \ {Output(c)}
     /\ done' = IF Command(c) = "pulse" /\ switchOn THEN done
                ELSE [done EXCEPT ![c] = @ \cup {Output(c)}]

\* The loop goes on with the next output or control_outputs returns accepted, which
\* is True as soon as one reply came.
NextOutput(c) ==
  IF at[c] < Len(Wanted[c].selected)
  THEN /\ at' = [at EXCEPT ![c] = @ + 1]
       /\ pc' = [pc EXCEPT ![c] = "act"]
       /\ UNCHANGED result
  ELSE Return(c, "true")

\* Mutant of Replied: a pulse on several outputs sleeps only once, at the end.
RepliedSleepingOnce(c) ==
  /\ pc[c] \in {"act", "off"} /\ connected
  /\ Perform(c)
  /\ IF Command(c) = "pulse" /\ pc[c] = "act" /\ at[c] = Len(Wanted[c].selected)
     THEN pc' = [pc EXCEPT ![c] = "sleep"] /\ UNCHANGED <<at, result>>
     ELSE NextOutput(c)
  /\ UNCHANGED connected

\* send_wait returns the reply; a pulse sleeps between its two requests.
Replied(c) ==
  /\ pc[c] \in {"act", "off"} /\ connected
  /\ Perform(c)
  /\ IF Command(c) = "pulse" /\ pc[c] = "act"
     THEN pc' = [pc EXCEPT ![c] = "sleep"] /\ UNCHANGED <<at, result>>
     ELSE NextOutput(c)
  /\ UNCHANGED connected

\* OUTPUT_PULSE_DURATION is over.
Awake(c) ==
  /\ pc[c] = "sleep"
  /\ pc' = [pc EXCEPT ![c] = "off"]
  /\ UNCHANGED <<on, at, result, connected, done>>

\* Mutant of Unanswered: a timeout is taken for a missing reply, as the loops do.
UnansweredGoesOn(c) ==
  /\ pc[c] \in {"act", "off"} /\ connected
  /\ Perform(c) \/ UNCHANGED <<on, done>>
  /\ NextOutput(c)
  /\ UNCHANGED connected

\* All attempts timed out, the panel may have carried the action out all the same.
\* The loop over the outputs has no handler: control_output catches TimeoutError
\* and returns False, whatever was accepted before.
Unanswered(c) ==
  /\ pc[c] \in {"act", "off"} /\ connected
  /\ Perform(c) \/ UNCHANGED <<on, done>>
  /\ Return(c, "false")
  /\ UNCHANGED connected

\* ConnectionError, which control_output lets pass.
NotConnected(c) ==
  /\ pc[c] \in {"act", "off"} /\ ~connected
  /\ Return(c, "raised")
  /\ UNCHANGED <<on, connected, done>>

LoseConnection ==
  /\ connected
  /\ connected' = FALSE
  /\ UNCHANGED <<on, pc, at, result, done>>

Next ==
  \/ \E c \in Calls : Begin(c) \/ Replied(c) \/ Awake(c) \/ Unanswered(c) \/ NotConnected(c)
  \/ LoseConnection

Spec == Init /\ [][Next]_vars

-----------------------------------------------------------------------------

\* "True if we have at least one success" is, for a command on several outputs, True
\* only if every one was brought where the command wants it, a pulse switched off
\* again: an exchange that fails ends the whole command.
TrueMeansAll ==
  \A c \in Calls :
    result[c] = "true" => ToSet(Wanted[c].selected) \subseteq done[c]

\* However pulses and other commands overlap, an output that is on after all of them
\* is on because "on" was asked for, or the caller of a pulse was not told True.
PulseDoesNotStay ==
  (\A c \in Calls : pc[c] = "done") =>
    \A o \in on : \E c \in Calls :
      /\ o \in ToSet(Wanted[c].selected)
      /\ \/ Command(c) = "on"
         \/ Command(c) = "pulse" /\ result[c] # "true"
==============================================================================
