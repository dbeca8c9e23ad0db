------------------------------- MODULE Lifecycle -----------------------------
(***************************************************************************)
(* The sessions of PAI with the panel: run_loop and exit_handler (main.py),*)
(* Paradox.connect, full_connect, disconnect, pause and resume             *)
(* (paradox.py), and the IP clients that pause and resume PAI              *)
(* (IPInterface.handle_client).  loop() is reduced to when it polls and    *)
(* how it ends; module PollLoop has its inside.                            *)
(*                                                                         *)
(* full_connect is run by run_loop and by the resume task of every client  *)
(* that leaves; nothing keeps two of them apart.                           *)
(***************************************************************************)
EXTENDS Naturals, FiniteSets

CONSTANTS
  Main,           \* the task of run_loop
  Clients,        \* IP clients; c also names the resume task it leaves behind
  CloseInTime,    \* TRUE: Connection.close never takes longer than IO_TIMEOUT
  PasswordErrors  \* TRUE: the panel may report a wrong password or a lockout

ASSUME MainAssumption == Main \notin Clients
ASSUME CloseAssumption == CloseInTime \in BOOLEAN
ASSUME PasswordAssumption == PasswordErrors \in BOOLEAN

Connectors == Clients \cup {Main}

VARIABLES
  runState,   \* Paradox.run_state
  conn,       \* the transport of the connection: "down", "up", or "closing"
  panel,      \* Paradox.panel: None, the generic one, or that of the model found
  mainPc,     \* where run_loop is
  step,       \* where each task is inside full_connect
  exitPc,     \* the exit_handler started by a signal
  errorPc,    \* the disconnect started by a "panel_not_connected" message
  clientPc,   \* the clients of the IP interface
  alarmGone,  \* the global "alarm" of main.py is None
  critical,   \* history: a PAICriticalException was raised
  orphaned    \* history: an open transport was replaced by another one

vars == <<runState, conn, panel, mainPc, step, exitPc, errorPc, clientPc, alarmGone,
          critical, orphaned>>

TypeOK ==
  /\ runState \in {"STOP", "INIT", "CONNECTED", "RUN", "PAUSE", "ERROR"}
  /\ conn \in {"down", "up", "closing"}
  /\ panel \in {"none", "generic", "model"}
  /\ mainPc \in {"connect", "loop", "polling", "loopClosing", "sleep", "exit",
                 "exitClosing", "stopped"}
  /\ step \in [Connectors -> {"idle", "closing", "opening", "handshake", "loading"}]
  /\ mainPc = "connect" <=> step[Main] # "idle"
  /\ exitPc \in {"none", "closing", "done", "failed"}
  /\ errorPc \in {"none", "closing"}
  /\ clientPc \in [Clients -> {"out", "in", "leaving"}]
  /\ alarmGone \in BOOLEAN
  /\ critical \in BOOLEAN
  /\ orphaned \in BOOLEAN

Init ==
  /\ runState = "STOP"
  /\ conn = "down"
  /\ panel = "none"
  /\ mainPc = "sleep"
  /\ step = [p \in Connectors |-> "idle"]
  /\ exitPc = "none"
  /\ errorPc = "none"
  /\ clientPc = [c \in Clients |-> "out"]
  /\ alarmGone = FALSE
  /\ critical = FALSE
  /\ orphaned = FALSE

Running == mainPc # "stopped"

At(p, s) == Running /\ step[p] = s

Goto(p, s) == step' = [step EXCEPT ![p] = s]

-----------------------------------------------------------------------------
(* full_connect *)

\* Mutant of Ends: a critical exception is caught like any other.
EndsAlwaysRetrying(p, how) ==
  /\ Goto(p, "idle")
  /\ critical' = (critical \/ how = "critical")
  /\ mainPc' = IF p # Main THEN mainPc
               ELSE IF how = "true" /\ ~alarmGone THEN "loop"
               ELSE "sleep"

\* full_connect of task p returns (TRUE or FALSE) or raises.  run_loop goes on
\* with loop(), sleeps before the next attempt, or leaves its while loop after a
\* critical exception; in a resume task an exception is only logged.
Ends(p, how) ==
  /\ Goto(p, "idle")
  /\ critical' = (critical \/ how = "critical")
  /\ mainPc' = IF p # Main THEN mainPc
               ELSE IF how = "true" /\ ~alarmGone THEN "loop"
               ELSE IF how = "critical" THEN "exit"
               ELSE "sleep"

Fails(p) ==
  /\ runState' = "ERROR"
  /\ Ends(p, "false")

\* Mutant of BeginConnect: "socket needs to be also closed" is forgotten.
BeginConnectOpen(p) ==
  /\ runState' = "INIT"
  /\ panel' = "none"
  /\ UNCHANGED conn
  /\ Goto(p, "opening")

\* Mutant of BeginConnect: the panel is reset before run_state is changed.
BeginConnectSilently(p) ==
  /\ UNCHANGED runState
  /\ panel' = "none"
  /\ conn' = IF conn = "up" THEN "closing" ELSE conn
  /\ Goto(p, IF conn = "up" THEN "closing" ELSE "opening")

\* connect() up to its first await: a connected session is closed first.
BeginConnect(p) ==
  /\ runState' = IF conn = "up" THEN "STOP" ELSE "INIT"
  /\ panel' = IF conn = "up" THEN panel ELSE "none"
  /\ conn' = IF conn = "up" THEN "closing" ELSE conn
  /\ Goto(p, IF conn = "up" THEN "closing" ELSE "opening")

Closed(p) ==
  /\ At(p, "closing")
  /\ conn' = "down"
  /\ panel' = "none"
  /\ runState' = "INIT"
  /\ Goto(p, "opening")
  /\ UNCHANGED <<mainPc, exitPc, errorPc, clientPc, alarmGone, critical, orphaned>>

\* TimeoutError out of close(): full_connect reports a failed connection.
CloseTimesOut(p) ==
  /\ At(p, "closing")
  /\ ~CloseInTime
  /\ conn' = "down"
  /\ Fails(p)
  /\ UNCHANGED <<panel, exitPc, errorPc, clientPc, alarmGone, orphaned>>

\* connection.connect() returned True.  Opening takes longer than the rest of a
\* close that is under way.
Opened(p) ==
  /\ At(p, "opening")
  /\ conn # "closing"
  /\ conn' = "up"
  /\ orphaned' = (orphaned \/ conn = "up")
  /\ panel' = IF panel = "none" THEN "generic" ELSE panel
  /\ Goto(p, "handshake")
  /\ UNCHANGED <<runState, mainPc, exitPc, errorPc, clientPc, alarmGone, critical>>

OpenFails(p) ==
  /\ At(p, "opening")
  /\ Fails(p)
  /\ UNCHANGED <<conn, panel, exitPc, errorPc, clientPc, alarmGone, orphaned>>

\* connection.connect() raised: the serial port cannot be opened, or the IP module
\* refuses its password.  run_state stays INIT.
OpenRefused(p) ==
  /\ At(p, "opening")
  /\ Ends(p, "critical")
  /\ UNCHANGED <<runState, conn, panel, exitPc, errorPc, clientPc, alarmGone, orphaned>>

\* InitiateCommunication, StartCommunication and initialize_communication.
HandshakeDone(p) ==
  /\ At(p, "handshake")
  /\ conn = "up" /\ panel # "none"
  /\ panel' = "model"
  /\ runState' = "CONNECTED"
  /\ Goto(p, "loading")
  /\ UNCHANGED <<conn, mainPc, exitPc, errorPc, clientPc, alarmGone, critical, orphaned>>

\* A timeout or a ConnectionError of send_wait.
HandshakeFails(p) ==
  /\ At(p, "handshake")
  /\ Fails(p)
  /\ UNCHANGED <<conn, panel, exitPc, errorPc, clientPc, alarmGone, orphaned>>

\* PanelNotDetected or AuthenticationFailed: run_state stays as it is.
HandshakeRefused(p) ==
  /\ At(p, "handshake")
  /\ conn = "up" /\ panel # "none"
  /\ Ends(p, "critical")
  /\ UNCHANGED <<runState, conn, panel, exitPc, errorPc, clientPc, alarmGone, orphaned>>

\* Another task reset self.panel: AttributeError, which full_connect does not catch.
HandshakeCrashes(p) ==
  /\ At(p, "handshake")
  /\ panel = "none"
  /\ Ends(p, "raised")
  /\ UNCHANGED <<runState, conn, panel, exitPc, errorPc, clientPc, alarmGone, orphaned>>

\* load_memory
Loaded(p) ==
  /\ At(p, "loading")
  /\ conn = "up"
  /\ runState' = "RUN"
  /\ Ends(p, "true")
  /\ UNCHANGED <<conn, panel, exitPc, errorPc, clientPc, alarmGone, orphaned>>

LoadFails(p) ==
  /\ At(p, "loading")
  /\ Fails(p)
  /\ UNCHANGED <<conn, panel, exitPc, errorPc, clientPc, alarmGone, orphaned>>

ConnectStep(p) ==
  \/ Closed(p) \/ CloseTimesOut(p) \/ Opened(p) \/ OpenFails(p) \/ OpenRefused(p)
  \/ HandshakeDone(p) \/ HandshakeFails(p) \/ HandshakeRefused(p) \/ HandshakeCrashes(p)
  \/ Loaded(p) \/ LoadFails(p)

-----------------------------------------------------------------------------
(* run_loop and loop() *)

\* disconnect() by a task whose program counter is pc: STOP, then close() of a
\* connected session ("closing") or nothing to wait for ("closed").
Disconnect(pc, closing, closed) ==
  /\ runState' = "STOP"
  /\ conn' = IF conn = "up" THEN "closing" ELSE conn
  /\ pc' = IF conn = "up" THEN closing ELSE closed

\* asyncio.sleep is over (or run_loop begins): "while alarm is not None".
MainConnects ==
  /\ mainPc = "sleep" /\ ~alarmGone
  /\ BeginConnect(Main)
  /\ mainPc' = "connect"
  /\ UNCHANGED <<exitPc, errorPc, clientPc, alarmGone, critical, orphaned>>

MainStops ==
  /\ mainPc = "sleep" /\ alarmGone
  /\ mainPc' = "stopped"
  /\ UNCHANGED <<runState, conn, panel, step, exitPc, errorPc, clientPc, alarmGone,
                 critical, orphaned>>

\* "while self.run_state not in (STOP, ERROR)" is over.
LoopReturns ==
  /\ mainPc = "loop" /\ runState \in {"STOP", "ERROR"}
  /\ mainPc' = "sleep"
  /\ UNCHANGED <<runState, conn, panel, step, exitPc, errorPc, clientPc, alarmGone,
                 critical, orphaned>>

\* "if self.run_state == RunState.RUN": a poll begins.
BeginPoll ==
  /\ mainPc = "loop" /\ runState = "RUN"
  /\ mainPc' = "polling"
  /\ UNCHANGED <<runState, conn, panel, step, exitPc, errorPc, clientPc, alarmGone,
                 critical, orphaned>>

\* The poll succeeds, or fails without being one too many, whatever run_state is by now.
PollEnds ==
  /\ mainPc = "polling"
  /\ mainPc' = "loop"
  /\ UNCHANGED <<runState, conn, panel, step, exitPc, errorPc, clientPc, alarmGone,
                 critical, orphaned>>

\* A poll finds the connection closed: ConnectionError.
LoopRaises ==
  /\ mainPc = "polling" /\ conn # "up"
  /\ mainPc' = "sleep"
  /\ UNCHANGED <<runState, conn, panel, step, exitPc, errorPc, clientPc, alarmGone,
                 critical, orphaned>>

\* Too many replies are missing.
LoopGivesUp ==
  /\ mainPc = "polling"
  /\ Disconnect(mainPc, "loopClosing", "sleep")
  /\ UNCHANGED <<panel, step, exitPc, errorPc, clientPc, alarmGone, critical, orphaned>>

\* close() ended, in time or not: loop() returns or raises, and run_loop sleeps.
LoopClosed ==
  /\ mainPc = "loopClosing"
  /\ conn' = "down"
  /\ mainPc' = "sleep"
  /\ UNCHANGED <<runState, panel, step, exitPc, errorPc, clientPc, alarmGone, critical,
                 orphaned>>

\* After a critical exception: "if alarm: await exit_handler()".
MainExits ==
  /\ mainPc = "exit"
  /\ IF alarmGone
     THEN mainPc' = "stopped" /\ UNCHANGED <<runState, conn>>
     ELSE Disconnect(mainPc, "exitClosing", "stopped")
  /\ UNCHANGED <<panel, step, exitPc, errorPc, clientPc, alarmGone, critical, orphaned>>

MainExitClosed ==
  /\ mainPc = "exitClosing"
  /\ conn' = "down"
  /\ mainPc' = "stopped"
  /\ UNCHANGED <<runState, panel, step, exitPc, errorPc, clientPc, alarmGone, critical,
                 orphaned>>

MainStep ==
  \/ MainConnects \/ MainStops
  \/ LoopReturns \/ BeginPoll \/ PollEnds \/ LoopRaises \/ LoopGivesUp \/ LoopClosed
  \/ MainExits \/ MainExitClosed

-----------------------------------------------------------------------------
(* Signals, error messages of the panel, the link *)

\* SIGINT or SIGTERM: exit_handler starts.
Signal ==
  /\ Running /\ exitPc = "none" /\ ~alarmGone
  /\ Disconnect(exitPc, "closing", "done")
  /\ alarmGone' = (conn # "up")
  /\ UNCHANGED <<panel, mainPc, step, errorPc, clientPc, critical, orphaned>>

\* Mutant of ExitClosed: "alarm = None" is forgotten.
ExitClosedKeepingAlarm ==
  /\ Running /\ exitPc = "closing"
  /\ conn' = "down"
  /\ exitPc' = "done"
  /\ UNCHANGED <<runState, panel, mainPc, step, alarmGone, errorPc, clientPc, critical,
                 orphaned>>

ExitClosed ==
  /\ Running /\ exitPc = "closing"
  /\ conn' = "down"
  /\ alarmGone' = TRUE
  /\ exitPc' = "done"
  /\ UNCHANGED <<runState, panel, mainPc, step, errorPc, clientPc, critical, orphaned>>

\* TimeoutError out of close(): the rest of exit_handler is skipped.
ExitCloseTimesOut ==
  /\ Running /\ exitPc = "closing"
  /\ ~CloseInTime
  /\ conn' = "down"
  /\ exitPc' = "failed"
  /\ UNCHANGED <<runState, panel, mainPc, step, errorPc, clientPc, alarmGone, critical,
                 orphaned>>

\* handle_error_message: "panel_not_connected" starts a disconnect task.
PanelNotConnected ==
  /\ Running /\ conn = "up" /\ errorPc = "none"
  /\ Disconnect(errorPc, "closing", "none")
  /\ UNCHANGED <<panel, mainPc, step, exitPc, clientPc, alarmGone, critical, orphaned>>

ErrorClosed ==
  /\ Running /\ errorPc = "closing"
  /\ conn' = "down"
  /\ errorPc' = "none"
  /\ UNCHANGED <<runState, panel, mainPc, step, exitPc, clientPc, alarmGone, critical,
                 orphaned>>

\* handle_error_message raises AuthenticationFailed or CodeLockout.  It runs in
\* the task of schedule_message_handling, where the exception ends.
PasswordRejected ==
  /\ Running /\ PasswordErrors
  /\ conn = "up" /\ panel # "none"
  /\ critical' = TRUE
  /\ UNCHANGED <<runState, conn, panel, mainPc, step, exitPc, errorPc, clientPc, alarmGone,
                 orphaned>>

ConnectionLost ==
  /\ Running /\ conn = "up"
  /\ conn' = "down"
  /\ UNCHANGED <<runState, panel, mainPc, step, exitPc, errorPc, clientPc, alarmGone,
                 critical, orphaned>>

-----------------------------------------------------------------------------
(* IP clients *)

\* handle_client: pause().
ClientConnects(c) ==
  /\ Running /\ clientPc[c] = "out" /\ step[c] = "idle"
  /\ clientPc' = [clientPc EXCEPT ![c] = "in"]
  /\ runState' = IF runState = "RUN" THEN "PAUSE" ELSE runState
  /\ UNCHANGED <<conn, panel, mainPc, step, exitPc, errorPc, alarmGone, critical, orphaned>>

\* Mutant of ClientLeaves: no resume task.
ClientLeavesPaused(c) ==
  /\ Running /\ clientPc[c] = "in"
  /\ clientPc' = [clientPc EXCEPT ![c] = "out"]
  /\ UNCHANGED <<runState, conn, panel, mainPc, step, exitPc, errorPc, alarmGone, critical,
                 orphaned>>

\* The finally clause of handle_client creates the resume task.
ClientLeaves(c) ==
  /\ Running /\ clientPc[c] = "in"
  /\ clientPc' = [clientPc EXCEPT ![c] = "leaving"]
  /\ UNCHANGED <<runState, conn, panel, mainPc, step, exitPc, errorPc, alarmGone, critical,
                 orphaned>>

Resume(c) ==
  /\ Running /\ clientPc[c] = "leaving"
  /\ clientPc' = [clientPc EXCEPT ![c] = "out"]
  /\ IF runState = "PAUSE"
     THEN BeginConnect(c)
     ELSE UNCHANGED <<runState, panel, conn, step>>
  /\ UNCHANGED <<mainPc, exitPc, errorPc, alarmGone, critical, orphaned>>

-----------------------------------------------------------------------------
Next ==
  \/ MainStep
  \/ \E p \in Connectors : ConnectStep(p)
  \/ Signal \/ ExitClosed \/ ExitCloseTimesOut
  \/ PanelNotConnected \/ ErrorClosed \/ PasswordRejected \/ ConnectionLost
  \/ \E c \in Clients : ClientConnects(c) \/ ClientLeaves(c) \/ Resume(c)

\* Every task that can continue does, and its awaits end.  Signals, messages of
\* the panel, the loss of the link and clients are left to chance.
Fairness ==
  /\ WF_vars(MainStep)
  /\ \A p \in Connectors : WF_vars(ConnectStep(p))
  /\ WF_vars(ExitClosed \/ ExitCloseTimesOut)
  /\ WF_vars(ErrorClosed)
  /\ \A c \in Clients : WF_vars(Resume(c))

Spec == Init /\ [][Next]_vars

FairSpec == Spec /\ Fairness

-----------------------------------------------------------------------------
(* Properties *)

\* No open transport is replaced by another one: what connect() opens is what
\* the next disconnect() closes.
SingleTransport == ~orphaned

\* PAI is in normal operation only with the panel object of the model that the
\* handshake of the session found.
RunMeansIdentified == runState \in {"RUN", "PAUSE"} => panel = "model"

\* PAI is paused only while a client that will resume it is there.
PausedForClient ==
  runState = "PAUSE" => \E c \in Clients : clientPc[c] \in {"in", "leaving"}

\* Whatever fails, and with clients that come and go: only two calls of full_connect
\* under way together can replace an open transport, or leave PAI in normal operation
\* with another panel object.
OneConnects ==
  \A p, q \in Connectors : step[p] # "idle" /\ step[q] # "idle" => p = q

HarmTakesTwo == []OneConnects => [](SingleTransport /\ RunMeansIdentified)

\* A critical exception stops PAI.
CriticalStops == critical ~> (mainPc = "stopped")

\* A signal that started exit_handler stops PAI.
SignalStops == (exitPc # "none") ~> (mainPc = "stopped")
==============================================================================
