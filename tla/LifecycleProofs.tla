--------------------------- MODULE LifecycleProofs ----------------------------
(***************************************************************************)
(* The sessions of PAI, for any clients and whether close() ends in time   *)
(* or not.  What two tasks in full_connect break (run lifecycle_twice) is  *)
(* proved for the behaviours in which there are never two, which are all   *)
(* those of a PAI without IP clients.                                      *)
(***************************************************************************)
EXTENDS Lifecycle, TLAPS

LEMMA MainConnector == Main \in Connectors /\ Main \notin Clients
BY MainAssumption DEF Connectors

\* Every value of every variable is one the code uses, and run_loop is in
\* full_connect exactly when it awaits it.
THEOREM TypeCorrect == Spec => []TypeOK
<1>1. Init => TypeOK
  BY MainConnector DEF Init, TypeOK
<1>2. TypeOK /\ [Next]_vars => TypeOK'
  <2> SUFFICES ASSUME TypeOK, [Next]_vars
               PROVE  TypeOK'
    OBVIOUS
  <2> USE MainConnector DEF TypeOK, Running, At, Goto
  <2>1. CASE MainStep
    <3>1. CASE MainConnects
      BY <3>1 DEF MainConnects, BeginConnect
    <3>2. CASE MainStops \/ LoopReturns \/ BeginPoll \/ PollEnds \/ LoopRaises \/ LoopClosed
               \/ MainExitClosed
      BY <3>2 DEF MainStops, LoopReturns, BeginPoll, PollEnds, LoopRaises, LoopClosed, MainExitClosed
    <3>3. CASE LoopGivesUp
      BY <3>3 DEF LoopGivesUp, Disconnect
    <3>4. CASE MainExits
      BY <3>4 DEF MainExits, Disconnect
    <3> QED BY <2>1, <3>1, <3>2, <3>3, <3>4 DEF MainStep
  <2>2. ASSUME NEW p \in Connectors, ConnectStep(p)
        PROVE  TypeOK'
    <3>1. CASE Closed(p) \/ Opened(p) \/ HandshakeDone(p)
      <4>1. /\ step[p] # "idle"
            /\ \E s \in {"opening", "handshake", "loading"} : step' = [step EXCEPT ![p] = s]
            /\ conn' \in {conn, "up", "down"} /\ panel' \in {panel, "none", "generic", "model"}
            /\ runState' \in {runState, "INIT", "CONNECTED"} /\ orphaned' \in BOOLEAN
            /\ UNCHANGED <<mainPc, exitPc, errorPc, clientPc, alarmGone, critical>>
        BY <3>1 DEF Closed, Opened, HandshakeDone
      <4> QED BY <4>1
    <3>2. CASE \E how \in {"true", "false", "critical", "raised"} :
                 step[p] # "idle" /\ Ends(p, how)
               /\ runState' \in {runState, "ERROR", "RUN"} /\ conn' \in {conn, "down"}
               /\ UNCHANGED <<panel, exitPc, errorPc, clientPc, alarmGone, orphaned>>
      BY <3>2 DEF Ends
    <3>3. CASE CloseTimesOut(p) \/ OpenFails(p) \/ HandshakeFails(p) \/ LoadFails(p)
      BY <3>2, <3>3 DEF CloseTimesOut, OpenFails, HandshakeFails, LoadFails, Fails
    <3>4. CASE OpenRefused(p) \/ HandshakeRefused(p) \/ HandshakeCrashes(p) \/ Loaded(p)
      BY <3>2, <3>4 DEF OpenRefused, HandshakeRefused, HandshakeCrashes, Loaded
    <3> QED BY <2>2, <3>1, <3>3, <3>4 DEF ConnectStep
  <2>3. CASE Signal \/ PanelNotConnected
    <3>1. CASE Signal
      <4>1. alarmGone' \in BOOLEAN
        BY <3>1 DEF Signal
      <4>2. exitPc' \in {"closing", "done"} /\ runState' = "STOP" /\ conn' \in {conn, "closing"}
        BY <3>1 DEF Signal, Disconnect
      <4> QED BY <3>1, <4>1, <4>2 DEF Signal
    <3>2. CASE PanelNotConnected
      BY <3>2 DEF PanelNotConnected, Disconnect
    <3> QED BY <2>3, <3>1, <3>2
  <2>4. CASE ExitClosed \/ ExitCloseTimesOut \/ ErrorClosed \/ PasswordRejected
             \/ ConnectionLost
    <3>1. CASE ExitClosed
      BY <3>1 DEF ExitClosed
    <3>2. CASE ExitCloseTimesOut
      BY <3>2 DEF ExitCloseTimesOut
    <3>3. CASE ErrorClosed
      BY <3>3 DEF ErrorClosed
    <3>4. CASE PasswordRejected
      BY <3>4 DEF PasswordRejected
    <3>5. CASE ConnectionLost
      BY <3>5 DEF ConnectionLost
    <3> QED BY <2>4, <3>1, <3>2, <3>3, <3>4, <3>5
  <2>5. ASSUME NEW c \in Clients, ClientConnects(c) \/ ClientLeaves(c)
        PROVE  TypeOK'
    BY <2>5 DEF ClientConnects, ClientLeaves
  <2>6. ASSUME NEW c \in Clients, Resume(c)
        PROVE  TypeOK'
    BY <2>6 DEF Resume, BeginConnect, Connectors
  <2>7. CASE UNCHANGED vars
    BY <2>7 DEF vars
  <2> QED BY <2>1, <2>2, <2>3, <2>4, <2>5, <2>6, <2>7 DEF Next
<1> QED BY <1>1, <1>2, PTL DEF Spec

\* Whoever connects, PAI is paused only while a client is there that will resume it
\* (Paradox.pause, Paradox.resume, IPInterface.handle_client).
THEOREM PauseEnds == Spec => []PausedForClient
<1>1. Init => PausedForClient
  BY DEF Init, PausedForClient
<1>2. TypeOK /\ PausedForClient /\ [Next]_vars => PausedForClient'
  <2> SUFFICES ASSUME TypeOK, PausedForClient, [Next]_vars, runState' = "PAUSE"
               PROVE  \E c \in Clients : clientPc'[c] \in {"in", "leaving"}
    BY DEF PausedForClient
  <2>1. ASSUME NEW c \in Clients, ClientConnects(c) \/ ClientLeaves(c)
        PROVE  clientPc'[c] \in {"in", "leaving"}
    BY <2>1 DEF ClientConnects, ClientLeaves, TypeOK
  <2>2. ASSUME NEW c \in Clients, Resume(c)
        PROVE  \E d \in Clients : clientPc'[d] \in {"in", "leaving"}
    <3>1. runState # "PAUSE" => runState' = runState
      BY <2>2 DEF Resume
    <3>2. runState = "PAUSE" => runState' \in {"STOP", "INIT"}
      BY <2>2 DEF Resume, BeginConnect
    <3> QED BY <3>1, <3>2
  <2>3. ASSUME runState = "PAUSE", clientPc' = clientPc
        PROVE  \E d \in Clients : clientPc'[d] \in {"in", "leaving"}
    BY <2>3 DEF PausedForClient
  <2>4. CASE MainStep
    <3>1. runState = "PAUSE" /\ clientPc' = clientPc
      BY <2>4 DEF MainStep, MainConnects, MainStops, LoopReturns, BeginPoll, PollEnds,
                  LoopRaises, LoopGivesUp, LoopClosed, MainExits, MainExitClosed, BeginConnect, Disconnect
    <3> QED BY <2>3, <3>1
  <2>5. ASSUME NEW p \in Connectors, ConnectStep(p)
        PROVE  \E d \in Clients : clientPc'[d] \in {"in", "leaving"}
    <3>1. runState = "PAUSE" /\ clientPc' = clientPc
      BY <2>5 DEF ConnectStep, Closed, CloseTimesOut, Opened, OpenFails, OpenRefused,
                  HandshakeDone, HandshakeFails, HandshakeRefused, HandshakeCrashes, Loaded,
                  LoadFails, Fails
    <3> QED BY <2>3, <3>1
  <2>6. CASE Signal \/ ExitClosed \/ ExitCloseTimesOut \/ PanelNotConnected \/ ErrorClosed
             \/ PasswordRejected \/ ConnectionLost \/ UNCHANGED vars
    <3>1. runState = "PAUSE" /\ clientPc' = clientPc
      BY <2>6 DEF Signal, ExitClosed, ExitCloseTimesOut, PanelNotConnected, ErrorClosed,
                  PasswordRejected, ConnectionLost, Disconnect, vars
    <3> QED BY <2>3, <3>1
  <2> QED BY <2>1, <2>2, <2>4, <2>5, <2>6 DEF Next
<1> QED BY <1>1, <1>2, TypeCorrect, PTL DEF Spec

-----------------------------------------------------------------------------
(* One call of full_connect at a time.  A task that opens a transport has   *)
(* left none open: only Opened makes conn "up", and its task is then past   *)
(* opening.                                                                 *)

OpensOnce ==
  /\ ~orphaned
  /\ \A p \in Connectors : step[p] = "opening" => conn # "up"

\* The panel object is replaced only by connect(), which first leaves RUN.
Identified ==
  /\ \A p \in Connectors : step[p] = "loading" => panel = "model"
  /\ runState \in {"RUN", "PAUSE"} => panel = "model"

\* connect() begins: who else is in full_connect would be the second.
LEMMA BeginKeeps ==
  ASSUME TypeOK, OpensOnce, Identified, OneConnects',
         NEW p \in Connectors, BeginConnect(p), UNCHANGED orphaned
  PROVE  OpensOnce' /\ Identified'
<1>1. step'[p] \in {"closing", "opening"} /\ (step'[p] = "opening" => conn' # "up")
  BY DEF BeginConnect, Goto, TypeOK
<1>2. \A q \in Connectors \ {p} : step'[q] = "idle"
  BY <1>1 DEF OneConnects
<1>3. runState' \in {"STOP", "INIT"}
  BY DEF BeginConnect
<1> QED BY <1>1, <1>2, <1>3 DEF OpensOnce, Identified

\* A step inside full_connect.
LEMMA ConnectKeeps ==
  ASSUME TypeOK, OpensOnce, Identified, OneConnects,
         NEW p \in Connectors, ConnectStep(p)
  PROVE  OpensOnce' /\ Identified'
<1> USE DEF TypeOK, OpensOnce, Identified, Goto, At
<1>1. step[p] # "idle"
  BY DEF ConnectStep, Closed, CloseTimesOut, Opened, OpenFails, OpenRefused,
         HandshakeDone, HandshakeFails, HandshakeRefused, HandshakeCrashes, Loaded,
         LoadFails
<1>2. \A q \in Connectors \ {p} : step[q] = "idle"
  BY <1>1 DEF OneConnects
<1>3. CASE Closed(p)
  BY <1>2, <1>3 DEF Closed
<1>4. CASE Opened(p)
  BY <1>2, <1>4 DEF Opened
<1>5. CASE HandshakeDone(p)
  BY <1>2, <1>5 DEF HandshakeDone
<1>6. CASE CloseTimesOut(p) \/ OpenFails(p) \/ HandshakeFails(p) \/ LoadFails(p)
  BY <1>2, <1>6 DEF CloseTimesOut, OpenFails, HandshakeFails, LoadFails, Fails, Ends
<1>7. CASE OpenRefused(p) \/ HandshakeRefused(p) \/ HandshakeCrashes(p)
  BY <1>2, <1>7 DEF OpenRefused, HandshakeRefused, HandshakeCrashes, Ends
<1>8. CASE Loaded(p)
  BY <1>2, <1>8 DEF Loaded, Ends
<1> QED BY <1>3, <1>4, <1>5, <1>6, <1>7, <1>8 DEF ConnectStep

\* Every step, while not two tasks are in full_connect before or after it.
LEMMA OneKeeps ==
  ASSUME TypeOK, OpensOnce, Identified, OneConnects, OneConnects', [Next]_vars
  PROVE  OpensOnce' /\ Identified'
<1>1. CASE MainConnects
  BY <1>1, BeginKeeps, MainConnector DEF MainConnects
<1>2. ASSUME NEW p \in Connectors, ConnectStep(p)
      PROVE  OpensOnce' /\ Identified'
  BY <1>2, ConnectKeeps
<1>3. ASSUME NEW c \in Clients, Resume(c), runState = "PAUSE"
      PROVE  OpensOnce' /\ Identified'
  <2>1. BeginConnect(c) /\ UNCHANGED orphaned /\ c \in Connectors
    BY <1>3 DEF Resume, Connectors
  <2> QED BY <2>1, BeginKeeps
<1>4. ASSUME conn' \in {conn, "closing", "down"}, UNCHANGED <<panel, step, orphaned>>,
             \/ runState' \in {runState, "STOP"}
             \/ runState = "RUN" /\ runState' = "PAUSE"
      PROVE  OpensOnce' /\ Identified'
  BY <1>4 DEF OpensOnce, Identified
<1>5. CASE MainStep /\ ~MainConnects
  BY <1>4, <1>5 DEF MainStep, MainStops, LoopReturns, BeginPoll, PollEnds, LoopRaises,
                    LoopGivesUp, LoopClosed, MainExits, MainExitClosed, Disconnect
<1>6. CASE Signal \/ ExitClosed \/ ExitCloseTimesOut \/ PanelNotConnected \/ ErrorClosed
           \/ PasswordRejected \/ ConnectionLost \/ UNCHANGED vars
  BY <1>4, <1>6 DEF Signal, ExitClosed, ExitCloseTimesOut, PanelNotConnected, ErrorClosed,
                    PasswordRejected, ConnectionLost, Disconnect, vars
<1>7. ASSUME NEW c \in Clients,
             ClientConnects(c) \/ ClientLeaves(c) \/ (Resume(c) /\ runState # "PAUSE")
      PROVE  OpensOnce' /\ Identified'
  BY <1>4, <1>7 DEF ClientConnects, ClientLeaves, Resume
<1> QED BY <1>1, <1>2, <1>3, <1>5, <1>6, <1>7 DEF Next

\* At the start no transport is open and run_state is STOP.
LEMMA OneInit ==
  ASSUME Init
  PROVE  OpensOnce /\ Identified
BY DEF Init, OpensOnce, Identified

\* For any set of clients and whatever fails: as long as no two calls of full_connect
\* are under way together, connect() never replaces an open transport, and run_state
\* is RUN or PAUSE only with the panel object that the handshake found.
THEOREM HarmNeedsTwo == Spec => HarmTakesTwo
<1>1. OpensOnce /\ Identified => SingleTransport /\ RunMeansIdentified
  BY DEF OpensOnce, SingleTransport, Identified, RunMeansIdentified
<1>2. Init => OpensOnce /\ Identified
  BY OneInit
<1>3. /\ TypeOK /\ OneConnects /\ OneConnects' /\ OpensOnce /\ Identified
      /\ [Next]_vars
      => (OpensOnce /\ Identified)'
  BY OneKeeps
<1> QED BY <1>1, <1>2, <1>3, TypeCorrect, PTL DEF Spec, HarmTakesTwo

\* Without IP clients run_loop is the only task in full_connect.
LEMMA AloneConnects ==
  ASSUME Clients = {}
  PROVE  []OneConnects
<1>1. OneConnects
  BY DEF OneConnects, Connectors
<1> QED BY <1>1, PTL

\* Without IP clients connect() never replaces an open transport.
THEOREM AloneOneTransport ==
  ASSUME Clients = {}
  PROVE  Spec => []SingleTransport
BY AloneConnects, HarmNeedsTwo, PTL DEF HarmTakesTwo

\* Without IP clients run_state is RUN only with the panel object of the model that
\* the handshake found.
THEOREM AloneIdentified ==
  ASSUME Clients = {}
  PROVE  Spec => []RunMeansIdentified
BY AloneConnects, HarmNeedsTwo, PTL DEF HarmTakesTwo
==============================================================================
