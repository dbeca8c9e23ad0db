------------------------ MODULE ControlCommandsProofs -------------------------
(***************************************************************************)
(* What a command on several outputs can tell its caller, and what it      *)
(* leaves at the panel, for any calls that run at the same time: any       *)
(* commands, on any sequences of outputs, that fail or lose the connection *)
(* wherever they like.                                                     *)
(***************************************************************************)
EXTENDS ControlCommands, TLAPS

\* The elements a call selects are a sequence (ElementTypeContainer.select).
Selections(Outputs) == \A c \in Calls : Wanted[c].selected \in Seq(Outputs)

Working == {"act", "sleep", "off"}

Types(Outputs) ==
  /\ on \subseteq Outputs
  /\ pc \in [Calls -> Working \cup {"idle", "done"}]
  /\ at \in [Calls -> Nat]
  /\ result \in [Calls -> {"none", "true", "false", "raised"}]
  /\ connected \in BOOLEAN
  /\ done \in [Calls -> SUBSET Outputs]

\* A call at work has a command of the panel and has brought all the
\* outputs before its index where it wants them; only a pulse waits.
WorkOf(c) ==
  /\ pc[c] = "idle" => at[c] = 1
  /\ pc[c] \in Working =>
       /\ Command(c) \in Supported
       /\ at[c] \in 1..Len(Wanted[c].selected)
       /\ \A i \in 1..(at[c] - 1) : Wanted[c].selected[i] \in done[c]
  /\ pc[c] \in {"sleep", "off"} => Command(c) = "pulse"
  /\ pc[c] # "done" => result[c] = "none"
  /\ pc[c] = "done" => result[c] # "none"

WorkKept == \A c \in Calls : WorkOf(c)

\* c answers for the output o, should it be on.
AnswersFor(c, o) ==
  /\ o \in ToSet(Wanted[c].selected)
  /\ \/ Command(c) = "on"
     \/ Command(c) = "pulse" /\ pc[c] = "done" /\ result[c] # "true"
     \/ Command(c) = "pulse" /\ pc[c] \in {"sleep", "off"} /\ Output(c) = o

PulsesKept == \A o \in on : \E c \in Calls : AnswersFor(c, o)

Inv(Outputs) == Types(Outputs) /\ WorkKept /\ TrueMeansAll /\ PulsesKept

LEMMA Selected ==
  ASSUME NEW Outputs, NEW s \in Seq(Outputs)
  PROVE  /\ ToSet(s) \subseteq Outputs
         /\ \A i \in 1..Len(s) : s[i] \in ToSet(s)
         /\ \A o \in ToSet(s) : \E i \in 1..Len(s) : s[i] = o
BY DEF ToSet

LEMMA InitInv ==
  ASSUME NEW Outputs, Init
  PROVE  Inv(Outputs)
BY DEF Init, Inv, Types, WorkKept, WorkOf, TrueMeansAll, PulsesKept, Working

\* What the panel does when it carries out a request of c.
LEMMA PerformKeeps ==
  ASSUME NEW Outputs, Selections(Outputs), Inv(Outputs), NEW c \in Calls,
         pc[c] \in {"act", "off"}, Perform(c)
  PROVE  /\ on' \subseteq Outputs /\ done' \in [Calls -> SUBSET Outputs]
         /\ \A d \in Calls : done[d] \subseteq done'[d]
         /\ ~(Command(c) = "pulse" /\ pc[c] = "act") => Output(c) \in done'[c]
         /\ on' \subseteq on \cup {Output(c)}
         /\ Output(c) \in on' => Command(c) # "off" /\ pc[c] = "act"
         /\ Output(c) \in ToSet(Wanted[c].selected)
<1>1. /\ Wanted[c].selected \in Seq(Outputs) /\ at[c] \in 1..Len(Wanted[c].selected)
      /\ Output(c) \in Outputs /\ Output(c) \in ToSet(Wanted[c].selected)
  BY Selected DEF Selections, Inv, WorkKept, WorkOf, Working, Output
<1>2. on \subseteq Outputs /\ done \in [Calls -> SUBSET Outputs]
  BY DEF Inv, Types
<1>3. on' = on \cup {Output(c)} \/ on' = on \ {Output(c)}
  BY DEF Perform
<1>4. done' = done \/ done' = [done EXCEPT ![c] = @ \cup {Output(c)}]
  BY DEF Perform
<1>5. done' \in [Calls -> SUBSET Outputs] /\ \A d \in Calls : done[d] \subseteq done'[d]
  BY <1>1, <1>2, <1>4
<1>6. ~(Command(c) = "pulse" /\ pc[c] = "act") => Output(c) \in done'[c]
  BY <1>2 DEF Perform
<1>7. Output(c) \in on' => Command(c) # "off" /\ pc[c] = "act"
  BY DEF Perform
<1> QED BY <1>1, <1>2, <1>3, <1>5, <1>6, <1>7

\* Only the call itself changes where it is, and what others answer for they still
\* answer for.
LEMMA OthersKeep ==
  ASSUME NEW Outputs, Inv(Outputs), NEW c \in Calls, NEW o,
         \A d \in Calls : d # c => pc'[d] = pc[d] /\ at'[d] = at[d] /\ result'[d] = result[d],
         NEW d \in Calls, d # c, AnswersFor(d, o)
  PROVE  AnswersFor(d, o)'
BY DEF AnswersFor, Output

\* The steps of a call at work: it waits, goes on with the next output, or returns.
LEMMA RepliedKeepsInv ==
  ASSUME NEW Outputs, Selections(Outputs), Inv(Outputs), NEW c \in Calls, Replied(c)
  PROVE  Inv(Outputs)'
<1> USE DEF Working
<1> DEFINE n == Len(Wanted[c].selected)
<1>1. /\ pc[c] \in {"act", "off"} /\ Perform(c) /\ connected' = connected /\ connected \in BOOLEAN
      /\ Command(c) \in Supported /\ at[c] \in 1..n /\ n \in Nat
      /\ result[c] = "none"
      /\ \A i \in 1..(at[c] - 1) : Wanted[c].selected[i] \in done[c]
      /\ pc[c] = "off" => Command(c) = "pulse"
  BY DEF Replied, Inv, Types, WorkKept, WorkOf, Selections
<1>2. /\ on' \subseteq Outputs /\ done' \in [Calls -> SUBSET Outputs]
      /\ \A d \in Calls : done[d] \subseteq done'[d]
      /\ ~(Command(c) = "pulse" /\ pc[c] = "act") => Output(c) \in done'[c]
      /\ on' \subseteq on \cup {Output(c)}
      /\ Output(c) \in on' => Command(c) # "off" /\ pc[c] = "act"
      /\ Output(c) \in ToSet(Wanted[c].selected)
  BY <1>1, PerformKeeps
<1>3. CASE Command(c) = "pulse" /\ pc[c] = "act"
  <2>1. pc' = [pc EXCEPT ![c] = "sleep"] /\ at' = at /\ result' = result
    BY <1>3 DEF Replied
  <2>2. /\ pc'[c] = "sleep" /\ Output(c)' = Output(c)
        /\ \A d \in Calls : d # c =>
             pc'[d] = pc[d] /\ at'[d] = at[d] /\ result'[d] = result[d]
    BY <2>1 DEF Inv, Types, Output
  <2>3. Types(Outputs)'
    BY <1>1, <1>2, <2>1 DEF Inv, Types
  <2>4. WorkKept' /\ TrueMeansAll'
    BY <1>1, <1>2, <1>3, <2>1, <2>2 DEF Inv, WorkKept, WorkOf, TrueMeansAll, Command
  <2>5. PulsesKept'
    <3> SUFFICES ASSUME NEW o \in on'
                 PROVE  \E d \in Calls : AnswersFor(d, o)'
      BY DEF PulsesKept
    <3>1. CASE o = Output(c)
      BY <1>2, <1>3, <2>2, <3>1 DEF AnswersFor, Command
    <3>2. CASE o # Output(c)
      <4>1. PICK d \in Calls : AnswersFor(d, o)
        BY <1>2, <3>2 DEF Inv, PulsesKept
      <4>2. d # c
        BY <1>3, <4>1 DEF AnswersFor
      <4> QED BY <2>2, <4>1, <4>2, OthersKeep
    <3> QED BY <3>1, <3>2
  <2> QED BY <2>3, <2>4, <2>5 DEF Inv
<1>4. CASE ~(Command(c) = "pulse" /\ pc[c] = "act")
  <2>1. NextOutput(c) /\ Output(c) \in done'[c]
    BY <1>2, <1>4 DEF Replied
  <2>2. \A i \in 1..at[c] : Wanted[c].selected[i] \in done'[c]
    <3>1. \A i \in 1..at[c] : i \in 1..(at[c] - 1) \/ i = at[c]
      BY <1>1
    <3> QED BY <1>1, <1>2, <2>1, <3>1 DEF Output
  <2>3. \A d \in Calls : d # c =>
          pc'[d] = pc[d] /\ at'[d] = at[d] /\ result'[d] = result[d]
    BY <2>1 DEF NextOutput, Return, Inv, Types
  <2>4. PulsesKept'
    <3> SUFFICES ASSUME NEW o \in on'
                 PROVE  \E d \in Calls : AnswersFor(d, o)'
      BY DEF PulsesKept
    <3>1. CASE o = Output(c)
      <4>1. Command(c) = "on"
        BY <1>1, <1>2, <1>4, <3>1 DEF Supported
      <4> QED BY <1>2, <3>1, <4>1 DEF AnswersFor, Command
    <3>2. CASE o # Output(c)
      <4>1. PICK d \in Calls : AnswersFor(d, o)
        BY <1>2, <3>2 DEF Inv, PulsesKept
      <4>2. CASE d = c
        <5>1. Command(c) = "on" /\ o \in ToSet(Wanted[c].selected)
          BY <1>1, <3>2, <4>1, <4>2 DEF AnswersFor
        <5> QED BY <5>1 DEF AnswersFor, Command
      <4>3. CASE d # c
        BY <2>3, <4>1, <4>3, OthersKeep
      <4> QED BY <4>2, <4>3
    <3> QED BY <3>1, <3>2
  <2>5. CASE at[c] < n
    <3>1. /\ at' = [at EXCEPT ![c] = at[c] + 1] /\ pc' = [pc EXCEPT ![c] = "act"]
          /\ result' = result
      BY <2>1, <2>5 DEF NextOutput
    <3>2. at'[c] = at[c] + 1 /\ pc'[c] = "act" /\ at[c] + 1 \in 1..n /\ (at[c] + 1) - 1 = at[c]
      BY <1>1, <2>5, <3>1 DEF Inv, Types
    <3>3. Types(Outputs)'
      BY <1>1, <1>2, <3>1 DEF Inv, Types
    <3>4. \A i \in 1..(at'[c] - 1) : Wanted[c].selected[i] \in done'[c]
      BY <2>2, <3>2
    <3>5. WorkKept'
      <4> SUFFICES ASSUME NEW d \in Calls
                   PROVE  WorkOf(d)'
        BY DEF WorkKept
      <4>1. CASE d = c
        BY <1>1, <3>1, <3>2, <3>4, <4>1 DEF WorkOf, Command
      <4>2. CASE d # c
        BY <1>2, <2>3, <4>2 DEF Inv, WorkKept, WorkOf, Command
      <4> QED BY <4>1, <4>2
    <3>6. TrueMeansAll'
      BY <1>2, <3>1 DEF Inv, TrueMeansAll
    <3> QED BY <2>4, <3>3, <3>5, <3>6 DEF Inv
  <2>6. CASE ~(at[c] < n)
    <3>1. /\ pc' = [pc EXCEPT ![c] = "done"] /\ result' = [result EXCEPT ![c] = "true"]
          /\ at' = at
      BY <2>1, <2>6 DEF NextOutput, Return
    <3>2. pc'[c] = "done" /\ result'[c] = "true" /\ at[c] = n
      BY <1>1, <2>6, <3>1 DEF Inv, Types
    <3>3. Types(Outputs)'
      BY <1>1, <1>2, <3>1 DEF Inv, Types
    <3>4. ToSet(Wanted[c].selected) \subseteq done'[c]
      BY <2>2, <3>2, Selected DEF Selections
    <3>5. WorkKept' /\ TrueMeansAll'
      BY <1>2, <2>3, <3>2, <3>4 DEF Inv, WorkKept, WorkOf, TrueMeansAll, Command
    <3> QED BY <2>4, <3>3, <3>5 DEF Inv
  <2> QED BY <2>5, <2>6
<1> QED BY <1>3, <1>4

\* A call that ends in any other way than True, with the request carried out or not.
LEMMA FailureKeepsInv ==
  ASSUME NEW Outputs, Selections(Outputs), Inv(Outputs), NEW c \in Calls,
         Unanswered(c) \/ NotConnected(c)
  PROVE  Inv(Outputs)'
<1> USE DEF Working
<1>1. PICK r \in {"false", "raised"} : Return(c, r)
  BY DEF Unanswered, NotConnected
<1>2. pc[c] \in {"act", "off"} /\ (Perform(c) \/ UNCHANGED <<on, done>>)
      /\ connected' = connected
  BY DEF Unanswered, NotConnected
<1>3. pc' = [pc EXCEPT ![c] = "done"] /\ result' = [result EXCEPT ![c] = r] /\ at' = at
  BY <1>1 DEF Return
<1>4. /\ pc'[c] = "done" /\ result'[c] = r
      /\ \A d \in Calls : d # c =>
           pc'[d] = pc[d] /\ at'[d] = at[d] /\ result'[d] = result[d]
  BY <1>3 DEF Inv, Types
<1>5. /\ on' \subseteq Outputs /\ done' \in [Calls -> SUBSET Outputs]
      /\ \A d \in Calls : done[d] \subseteq done'[d]
      /\ on' \subseteq on \/ on' \subseteq on \cup {Output(c)}
      /\ Output(c) \in on' => Output(c) \in on \/ Command(c) # "off"
      /\ Output(c) \in ToSet(Wanted[c].selected)
      /\ Command(c) \in Supported
  <2>1. Output(c) \in ToSet(Wanted[c].selected) /\ Command(c) \in Supported
    BY <1>2, Selected DEF Selections, Inv, WorkKept, WorkOf, Output
  <2>2. CASE Perform(c)
    BY <1>2, <2>1, <2>2, PerformKeeps
  <2>3. CASE UNCHANGED <<on, done>>
    BY <2>1, <2>3 DEF Inv, Types
  <2> QED BY <1>2, <2>2, <2>3
<1>6. Types(Outputs)'
  BY <1>2, <1>3, <1>5 DEF Inv, Types
<1>7. WorkKept' /\ TrueMeansAll'
  BY <1>4, <1>5 DEF Inv, WorkKept, WorkOf, TrueMeansAll, Command
<1>8. PulsesKept'
  <2> SUFFICES ASSUME NEW o \in on'
               PROVE  \E d \in Calls : AnswersFor(d, o)'
    BY DEF PulsesKept
  <2>1. CASE o \in on
    <3>1. PICK d \in Calls : AnswersFor(d, o)
      BY <2>1 DEF Inv, PulsesKept
    <3>2. CASE d = c
      BY <1>4, <3>1, <3>2 DEF AnswersFor, Command
    <3>3. CASE d # c
      BY <1>4, <3>1, <3>3, OthersKeep
    <3> QED BY <3>2, <3>3
  <2>2. CASE o \notin on
    BY <1>4, <1>5, <2>2 DEF AnswersFor, Command, Supported
  <2> QED BY <2>1, <2>2
<1> QED BY <1>6, <1>7, <1>8 DEF Inv

LEMMA OtherStepsKeepInv ==
  ASSUME NEW Outputs, Selections(Outputs), Inv(Outputs),
         \/ \E c \in Calls : Begin(c) \/ Awake(c)
         \/ LoseConnection
         \/ UNCHANGED vars
  PROVE  Inv(Outputs)'
<1> USE DEF Working
<1>1. ASSUME NEW c \in Calls, Begin(c)
      PROVE  Inv(Outputs)'
  <2>1. pc[c] = "idle" /\ at[c] = 1 /\ result[c] = "none" /\ Wanted[c].selected \in Seq(Outputs)
        /\ UNCHANGED <<on, at, connected, done>>
    BY <1>1 DEF Begin, Return, Inv, WorkKept, WorkOf, Selections
  <2>2. \/ /\ pc' = [pc EXCEPT ![c] = "done"] /\ result' = [result EXCEPT ![c] = "false"]
        \/ /\ pc' = [pc EXCEPT ![c] = "act"] /\ result' = result
           /\ Command(c) \in Supported /\ Wanted[c].selected # <<>>
    BY <1>1 DEF Begin, Return
  <2>3. Types(Outputs)'
    BY <2>1, <2>2 DEF Inv, Types
  <2>4. \A d \in Calls : d # c =>
          pc'[d] = pc[d] /\ at'[d] = at[d] /\ result'[d] = result[d]
    BY <2>1, <2>2 DEF Inv, Types
  <2>5. \/ pc'[c] = "done" /\ result'[c] = "false"
        \/ pc'[c] = "act" /\ result'[c] = "none" /\ Command(c) \in Supported
           /\ 1 \in 1..Len(Wanted[c].selected)
    <3>1. Wanted[c].selected # <<>> => 1 \in 1..Len(Wanted[c].selected)
      BY <2>1
    <3> QED BY <2>1, <2>2, <3>1 DEF Inv, Types
  <2>6. WorkKept' /\ TrueMeansAll'
    BY <2>1, <2>4, <2>5 DEF Inv, WorkKept, WorkOf, TrueMeansAll, Command
  <2>7. PulsesKept'
    <3> SUFFICES ASSUME NEW o \in on
                 PROVE  \E d \in Calls : AnswersFor(d, o)'
      BY <2>1 DEF PulsesKept
    <3>1. PICK d \in Calls : AnswersFor(d, o)
      BY DEF Inv, PulsesKept
    <3>2. CASE d = c
      BY <2>1, <3>1, <3>2 DEF AnswersFor, Command
    <3>3. CASE d # c
      BY <2>4, <3>1, <3>3, OthersKeep
    <3> QED BY <3>2, <3>3
  <2> QED BY <2>3, <2>6, <2>7 DEF Inv
<1>2. ASSUME NEW c \in Calls, Awake(c)
      PROVE  Inv(Outputs)'
  <2>1. /\ pc[c] = "sleep" /\ pc' = [pc EXCEPT ![c] = "off"]
        /\ UNCHANGED <<on, at, result, connected, done>>
    BY <1>2 DEF Awake
  <2>2. pc'[c] = "off" /\ \A d \in Calls : d # c => pc'[d] = pc[d]
    BY <2>1 DEF Inv, Types
  <2>3. Types(Outputs)'
    BY <2>1 DEF Inv, Types
  <2>4. WorkKept' /\ TrueMeansAll'
    BY <2>1, <2>2 DEF Inv, WorkKept, WorkOf, TrueMeansAll, Command
  <2>5. PulsesKept'
    BY <2>1, <2>2 DEF Inv, PulsesKept, AnswersFor, Command, Output
  <2> QED BY <2>3, <2>4, <2>5 DEF Inv
<1>3. CASE LoseConnection \/ UNCHANGED vars
  <2>1. UNCHANGED <<on, pc, at, result, done>> /\ connected' \in BOOLEAN
    BY <1>3 DEF LoseConnection, vars, Inv, Types
  <2> QED BY <2>1 DEF Inv, Types, WorkKept, WorkOf, TrueMeansAll, PulsesKept, AnswersFor, Command,
                      Output
<1> QED BY <1>1, <1>2, <1>3

THEOREM Invariance ==
  ASSUME NEW Outputs, Selections(Outputs)
  PROVE  Spec => []Inv(Outputs)
<1>1. Init => Inv(Outputs)
  BY InitInv
<1>2. Inv(Outputs) /\ [Next]_vars => Inv(Outputs)'
  BY RepliedKeepsInv, FailureKeepsInv, OtherStepsKeepInv DEF Next
<1> QED BY <1>1, <1>2, PTL DEF Spec

-----------------------------------------------------------------------------

\* control_outputs returns "at least one success", but since a failed exchange ends
\* the whole command it is True only when every output was brought where the
\* command wants it.
THEOREM TrueIsAll ==
  ASSUME NEW Outputs, Selections(Outputs)
  PROVE  Spec => []TrueMeansAll
<1>1. Inv(Outputs) => TrueMeansAll
  BY DEF Inv
<1> QED BY <1>1, Invariance, PTL

\* When all commands have returned, whatever outputs they shared and in whatever
\* order their exchanges came, an output is on because "on" was asked for, or
\* because a pulse that did not report True may have left it on.
THEOREM PulsesEnd ==
  ASSUME NEW Outputs, Selections(Outputs)
  PROVE  Spec => []PulseDoesNotStay
<1>1. Inv(Outputs) => PulseDoesNotStay
  <2> SUFFICES ASSUME Inv(Outputs), \A c \in Calls : pc[c] = "done", NEW o \in on
               PROVE  \E c \in Calls :
                        /\ o \in ToSet(Wanted[c].selected)
                        /\ \/ Command(c) = "on"
                           \/ Command(c) = "pulse" /\ result[c] # "true"
    BY DEF PulseDoesNotStay
  <2>1. PICK c \in Calls : AnswersFor(c, o)
    BY DEF Inv, PulsesKept
  <2> QED BY <2>1 DEF AnswersFor
<1> QED BY <1>1, Invariance, PTL
==============================================================================
