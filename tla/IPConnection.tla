----------------------------- MODULE IPConnection ----------------------------
(***************************************************************************)
(* The connection object of an IP panel and the transports it opens:       *)
(* MultiAttemptConnection.connect with BareIPConnection and                *)
(* LocalIPConnection (connections/ip/connection.py), the session commands  *)
(* of IPModuleConnectCommand (connections/ip/commands.py), and             *)
(* ConnectionProtocol (connections/protocols.py), of which every transport *)
(* has its own instance while all of them share one connection as handler. *)
(*                                                                         *)
(* One task uses the connection: it connects, has a session, and closes it *)
(* the way Paradox.disconnect does, only when Connection.connected.        *)
(***************************************************************************)
EXTENDS Naturals, Sequences

CONSTANTS
  Transports,   \* names for the transports that may be open at the same time
  Commands,     \* session commands: 4 with an IP module, 0 on a bare connection
  MaxTries,     \* the local variable max_tries
  CloseInTime,  \* TRUE: close() never takes longer than IO_TIMEOUT
  None

ASSUME NoneAssumption == None \notin Transports
ASSUME CommandsAssumption == Commands \in Nat
ASSUME MaxTriesAssumption == MaxTries \in Nat \ {0}
ASSUME CloseAssumption == CloseInTime \in BOOLEAN

VARIABLES
  pc,        \* where the task is
  tries,     \* the local variable of connect()
  step,      \* the session command whose answer is awaited, 0 outside of them
  answer,    \* the result of the FutureHandler of that command
  flag,      \* Connection._connected
  protocol,  \* Connection._protocol
  tcp,       \* each transport: open, closed by PAI but not yet lost, or gone
  pending,   \* the commands each transport carries to the module
  key,       \* the key of each protocol instance: None is the password, t the
             \* session key the module gave on transport t
  late       \* history: a command timed out with something still on a wire

vars == <<pc, tries, step, answer, flag, protocol, tcp, pending, key,
          late>>

Answers == [from : Transports, of : 1..Commands]

TypeOK ==
  /\ pc \in {"idle", "dialing", "command", "up", "closing", "critical"}
  /\ tries \in 1..MaxTries
  /\ step \in 0..Commands
  /\ step # 0 <=> pc = "command"
  /\ answer \in Answers \cup {None}
  /\ flag \in BOOLEAN
  /\ protocol \in Transports \cup {None}
  /\ tcp \in [Transports -> {"gone", "open", "shut"}]
  /\ pending \in [Transports -> Seq(1..Commands)]
  /\ key \in [Transports -> Transports \cup {None}]
  /\ late \in BOOLEAN

Init ==
  /\ pc = "idle"
  /\ tries = 1
  /\ step = 0
  /\ answer = None
  /\ flag = FALSE
  /\ protocol = None
  /\ tcp = [t \in Transports |-> "gone"]
  /\ pending = [t \in Transports |-> <<>>]
  /\ key = [t \in Transports |-> None]
  /\ late = FALSE

\* ConnectionProtocol.is_active
Active == protocol # None /\ tcp[protocol] = "open"

Connected == flag /\ Active

-----------------------------------------------------------------------------
(* connect() *)

Connect ==
  /\ pc = "idle"
  /\ pc' = "dialing"
  /\ tries' = 1
  /\ flag' = FALSE
  /\ UNCHANGED <<step, answer, protocol, tcp, pending, key, late>>

\* Mutant of TryFails: "tries += 1" is forgotten.
TryFailsUncounted ==
  /\ pc' = IF tries < MaxTries THEN "dialing" ELSE "idle"
  /\ step' = 0
  /\ answer' = None
  /\ UNCHANGED tries

\* Mutant of TryFails: the last try is followed by one more.
TryFailsOnceMore ==
  /\ pc' = IF tries <= MaxTries THEN "dialing" ELSE "idle"
  /\ tries' = IF tries <= MaxTries THEN tries + 1 ELSE tries
  /\ step' = 0
  /\ answer' = None

\* _try_connect raised: the next try, or connect() returns False.  The
\* transport of the try, if it has one, is not closed.
TryFails ==
  /\ pc' = IF tries < MaxTries THEN "dialing" ELSE "idle"
  /\ tries' = IF tries < MaxTries THEN tries + 1 ELSE tries
  /\ step' = 0
  /\ answer' = None

\* create_connection returned transport t.  Its protocol becomes the one of the
\* connection; a bare connection is established, any other authenticates with
\* the password (reset_key).
Dialed(t) ==
  /\ pc = "dialing"
  /\ tcp[t] = "gone"
  /\ tcp' = [tcp EXCEPT ![t] = "open"]
  /\ protocol' = t
  /\ key' = [key EXCEPT ![t] = None]
  /\ IF Commands = 0
     THEN pc' = "up" /\ flag' = TRUE /\ UNCHANGED <<step, pending>>
     ELSE /\ pc' = "command" /\ step' = 1
          /\ pending' = [pending EXCEPT ![t] = <<1>>]
          /\ UNCHANGED flag
  /\ UNCHANGED <<tries, answer, late>>

DialFails ==
  /\ pc = "dialing"
  /\ TryFails
  /\ UNCHANGED <<flag, protocol, tcp, pending, key, late>>

\* Mutant of Answered: set_key does not hand the key to the protocol.
AnsweredKeepingPassword ==
  /\ pc = "command"
  /\ answer # None
  /\ step = 1 => answer.of = 1
  /\ IF step = Commands
     THEN /\ pc' = "up" /\ flag' = TRUE /\ step' = 0 /\ answer' = None
          /\ UNCHANGED <<tries, pending>>
     ELSE IF Active
     THEN /\ step' = step + 1 /\ answer' = None
          /\ pending' = [pending EXCEPT ![protocol] = Append(@, step + 1)]
          /\ UNCHANGED <<pc, flag, tries>>
     ELSE TryFails /\ UNCHANGED <<flag, pending>>
  /\ UNCHANGED <<protocol, tcp, key, late>>

\* The awaited message came.  The answer to "connect" brings the session key
\* (set_key); of the other answers nothing is looked at.  The last one
\* establishes the session, otherwise the next command is written, which raises
\* ConnectionError on an inactive protocol.
Answered ==
  /\ pc = "command"
  /\ answer # None
  /\ step = 1 => answer.of = 1
  /\ key' = IF step = 1 THEN [key EXCEPT ![protocol] = answer.from] ELSE key
  /\ IF step = Commands
     THEN /\ pc' = "up" /\ flag' = TRUE /\ step' = 0 /\ answer' = None
          /\ UNCHANGED <<tries, pending>>
     ELSE IF Active
     THEN /\ step' = step + 1 /\ answer' = None
          /\ pending' = [pending EXCEPT ![protocol] = Append(@, step + 1)]
          /\ UNCHANGED <<pc, flag, tries>>
     ELSE TryFails /\ UNCHANGED <<flag, pending>>
  /\ UNCHANGED <<protocol, tcp, late>>

\* The message that came is not the answer to "connect", or the answer is
\* neither "success" nor "invalid_password".
AnswerUnusable ==
  /\ pc = "command" /\ step = 1
  /\ answer # None
  /\ TryFails
  /\ UNCHANGED <<flag, protocol, tcp, pending, key, late>>

\* "Invalid IP Module password": PAICriticalException leaves connect().
PasswordInvalid ==
  /\ pc = "command" /\ step = 1
  /\ answer # None /\ answer.of = 1
  /\ pc' = "critical" /\ step' = 0 /\ answer' = None
  /\ UNCHANGED <<tries, flag, protocol, tcp, pending, key, late>>

\* wait_for_ip_message gives up.
CommandTimesOut ==
  /\ pc = "command"
  /\ answer = None
  /\ late' = (late \/ \E t \in Transports : pending[t] # <<>>)
  /\ TryFails
  /\ UNCHANGED <<flag, protocol, tcp, pending, key>>

-----------------------------------------------------------------------------
(* close() *)

\* Mutant of Disconnect: close() forgets the protocol without closing it.
DisconnectForgetting ==
  /\ pc = "up"
  /\ pc' = "idle"
  /\ protocol' = IF Connected THEN None ELSE protocol
  /\ flag' = FALSE
  /\ UNCHANGED <<tries, step, answer, tcp, pending, key, late>>

\* Mutant of Disconnect: close() does not wait for connection_lost.
DisconnectWithoutWaiting ==
  /\ pc = "up"
  /\ pc' = "idle"
  /\ IF Connected
     THEN tcp' = [tcp EXCEPT ![protocol] = "shut"] /\ protocol' = None /\ flag' = FALSE
     ELSE UNCHANGED <<tcp, protocol, flag>>
  /\ UNCHANGED <<tries, step, answer, pending, key, late>>

\* Paradox.disconnect: close() of a connected session; nothing is done for one
\* that is not.
Disconnect ==
  /\ pc = "up"
  /\ IF Connected
     THEN pc' = "closing" /\ tcp' = [tcp EXCEPT ![protocol] = "shut"]
     ELSE pc' = "idle" /\ UNCHANGED tcp
  /\ UNCHANGED <<tries, step, answer, flag, protocol, pending, key, late>>

\* connection_lost has set _closed: Connection.close forgets the protocol.
Closed ==
  /\ pc = "closing"
  /\ tcp[protocol] = "gone"
  /\ pc' = "idle"
  /\ protocol' = None
  /\ flag' = FALSE
  /\ UNCHANGED <<tries, step, answer, tcp, pending, key, late>>

\* TimeoutError: the rest of Connection.close is skipped.
CloseTimesOut ==
  /\ pc = "closing"
  /\ ~CloseInTime
  /\ tcp[protocol] = "shut"
  /\ pc' = "idle"
  /\ UNCHANGED <<tries, step, answer, flag, protocol, tcp, pending, key, late>>

-----------------------------------------------------------------------------
(* The transports and the IP module *)

\* ConnectionProtocol.connection_lost, of whatever transport, and
\* Connection.on_connection_loss.
ConnectionLost(t) ==
  /\ tcp[t] # "gone"
  /\ tcp' = [tcp EXCEPT ![t] = "gone"]
  /\ pending' = [pending EXCEPT ![t] = <<>>]
  /\ flag' = FALSE
  /\ UNCHANGED <<pc, tries, step, answer, protocol, key, late>>

\* The module answers the first command of t; the FutureHandler has no check
\* function and takes every IP message.
ModuleAnswers(t) ==
  /\ tcp[t] = "open" /\ pending[t] # <<>>
  /\ pending' = [pending EXCEPT ![t] = Tail(@)]
  /\ answer' = IF pc = "command" /\ answer = None
               THEN [from |-> t, of |-> Head(pending[t])] ELSE answer
  /\ UNCHANGED <<pc, tries, step, flag, protocol, tcp, key, late>>

CommandLost(t) ==
  /\ pending[t] # <<>>
  /\ pending' = [pending EXCEPT ![t] = Tail(@)]
  /\ UNCHANGED <<pc, tries, step, answer, flag, protocol, tcp, key, late>>

-----------------------------------------------------------------------------
Dial == DialFails \/ \E t \in Transports : Dialed(t)

Await == Answered \/ AnswerUnusable \/ PasswordInvalid \/ CommandTimesOut

Wire(t) == ModuleAnswers(t) \/ CommandLost(t)

Next ==
  \/ Connect \/ Dial \/ Await \/ Disconnect \/ Closed \/ CloseTimesOut
  \/ \E t \in Transports : ConnectionLost(t) \/ Wire(t)

\* The event loop runs the task and its timers, what is on a wire arrives or is
\* lost, and a closed transport is lost in the end.
Fairness ==
  /\ WF_vars(Dial)
  /\ WF_vars(Await)
  /\ WF_vars(Closed \/ CloseTimesOut)
  /\ \A t \in Transports :
       WF_vars(Wire(t)) /\ WF_vars(tcp[t] = "shut" /\ ConnectionLost(t))

Spec == Init /\ [][Next]_vars

FairSpec == Spec /\ Fairness

-----------------------------------------------------------------------------
(* Properties *)

\* Every transport that is still open is the one the connection would close:
\* no retry and no reconnect leaves a socket behind.
NoTransportLeft ==
  \A t \in Transports : tcp[t] # "gone" => t = protocol

\* While no answer has come after a timeout: in a session the protocol encrypts
\* with the key the module gave on this very transport, not with that of an
\* earlier try, whose transport may still be open.
KeyOfSession ==
  ~late /\ pc = "up" /\ Commands > 0 => key[protocol] = protocol

\* An established session counts as lost only when its own transport is, or when
\* PAI closes it: the end of an older transport does not tear it down.
LossIsOwn ==
  [][pc = "up" /\ pc' = "up" /\ Connected => Connected' \/ tcp'[protocol] # "open"]_vars

\* connect() returns or raises after a bounded number of tries.
ConnectEnds == (pc \in {"dialing", "command"}) ~> (pc \in {"idle", "up", "critical"})
==============================================================================
