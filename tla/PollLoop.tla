------------------------------- MODULE PollLoop ------------------------------
(***************************************************************************)
(* One run of Paradox.loop (paradox.py): the status polls, the send_wait   *)
(* tasks each poll gathers, the commands of the interfaces, and the        *)
(* messages IP clients pass through to the panel, all of which share       *)
(* request_lock, busy and loop_wait_event.                                 *)
(*                                                                         *)
(* A send_wait call is reduced to what BusTurn says of it (module SendWait *)
(* is the detailed version): it waits for request_lock, it transmits, and  *)
(* the exchange ends with a reply or a timeout.  asyncio.gather does not   *)
(* cancel the other requests when one of them fails: they live on in their *)
(* generation while the loop may already have started the next one.        *)
(***************************************************************************)
EXTENDS Naturals, Sequences, FiniteSets, AsyncLock

CONSTANTS
  Main,          \* the task that runs loop()
  Blocks,        \* how many status requests a poll makes
  Generations,   \* names for the polls whose requests are alive
  Commands,      \* control_zone, control_partition, ... calls
  Clients,       \* connections of the IP interface
  EarlyClients,  \* those that came before run_state was RUN: nothing paused PAI
  Retries,       \* attempts of send_wait
  MaxMissing,    \* the literal 3 of "replies_missing > 3"
  MaxMessages    \* bound on the messages a client passes through

ASSUME BlocksAssumption == Blocks \in Nat \ {0}
ASSUME RetriesAssumption == Retries \in Nat \ {0}
ASSUME MaxMissingAssumption == MaxMissing \in Nat
ASSUME MaxMessagesAssumption == MaxMessages \in Nat
ASSUME EarlyAssumption == EarlyClients \subseteq Clients

\* The requests of the poll g.
RequestsOf(g) == {g} \X (1..Blocks)

PollRequests == Generations \X (1..Blocks)

Requests == PollRequests \cup Commands

\* The tasks have different names, and there is a name for a poll that begins
\* while another still has requests alive.
ASSUME TasksAssumption ==
  /\ Commands \cap PollRequests = {}
  /\ Clients \cap Requests = {}
  /\ Main \notin Clients
  /\ NoOne \notin Requests \cup Clients \cup {Main}
ASSUME GenerationsAssumption == \E g, h \in Generations : g # h

VARIABLES
  loopPc,        \* where loop() is suspended
  generation,    \* the poll it gathers
  gathered,      \* the result of asyncio.gather
  missing,       \* replies_missing
  waitEvent,     \* loop_wait_event
  runState,      \* run_state
  connected,     \* connection.connected
  rq,            \* state of every send_wait call
  attempt,
  sentNow,       \* requests written since the tasks of the poll were created: the
                 \* event loop starts these tasks before it looks for an answer
  requestLock,   \* Paradox.request_lock
  busy,          \* Paradox.busy
  clientPc,      \* where ClientConnection.handle of each client is suspended
  passed,        \* how many messages each client passed through
  panelAlive,    \* the panel still answers
  refreshAsked   \* history: a refresh was requested and no poll began since

vars == <<loopPc, generation, gathered, missing, waitEvent, runState, connected, rq,
          attempt, sentNow, requestLock, busy, clientPc, passed, panelAlive, refreshAsked>>

loopVars == <<loopPc, generation, missing, runState, busy>>
requestVars == <<rq, attempt, sentNow, requestLock, gathered>>
clientVars == <<clientPc, passed>>
refreshVars == <<waitEvent, refreshAsked>>
linkVars == <<connected, panelAlive>>

TypeOK ==
  /\ loopPc \in {"start", "acquire", "created", "gather", "closing", "wait",
                 "returned", "raised"}
  /\ generation \in Generations
  /\ gathered \in {"pending", "ok", "timeout", "connerr"}
  /\ missing \in 0..(MaxMissing + 1)
  /\ waitEvent \in BOOLEAN
  /\ runState \in {"RUN", "PAUSE", "STOP"}
  /\ connected \in BOOLEAN
  /\ rq \in [Requests -> {"idle", "acquiring", "waiting", "ok", "timeout", "connerr"}]
  /\ attempt \in [Requests -> 1..Retries]
  /\ sentNow \subseteq Requests
  /\ requestLock.holder \in Requests \cup Clients \cup {NoOne}
  /\ busy.holder \in Clients \cup {Main, NoOne}
  /\ clientPc \in [Clients -> {"out", "in", "wantRequest", "wantBusy", "gone"}]
  /\ passed \in [Clients -> 0..MaxMessages]
  /\ panelAlive \in BOOLEAN
  /\ refreshAsked \in BOOLEAN

\* full_connect has just returned True: the first status update is requested.
Init ==
  /\ loopPc = "start"
  /\ generation = CHOOSE g \in Generations : TRUE
  /\ gathered = "pending"
  /\ missing = 0
  /\ waitEvent = TRUE
  /\ runState = "RUN"
  /\ connected = TRUE
  /\ rq = [u \in Requests |-> "idle"]
  /\ attempt = [u \in Requests |-> 1]
  /\ sentNow = {}
  /\ requestLock = Unlocked
  /\ busy = Unlocked
  /\ clientPc = [c \in Clients |-> IF c \in EarlyClients THEN "in" ELSE "out"]
  /\ passed = [c \in Clients |-> 0]
  /\ panelAlive = TRUE
  /\ refreshAsked = TRUE

Live(u) == rq[u] \in {"acquiring", "waiting"}

LiveGenerations == {g \in Generations : \E u \in RequestsOf(g) : Live(u)}

-----------------------------------------------------------------------------
(* send_wait *)

\* Where the first step of send_wait leaves request u once it asked for the lock,
\* which is l now: a free lock is taken at once and the request is written.
Begun(u, l) == IF l.holder = u THEN "waiting" ELSE "acquiring"

\* What gather makes of the end o of request u: the first failure is its
\* result, and success needs all the requests of the poll.
Settle(u, o) ==
  IF gathered = "pending" /\ u \in RequestsOf(generation)
  THEN IF o # "ok" THEN o
       ELSE IF \A v \in RequestsOf(generation) : v = u \/ rq[v] = "ok"
            THEN "ok" ELSE "pending"
  ELSE gathered

\* request_status_refresh
RequestStatusRefresh ==
  /\ waitEvent' = TRUE
  /\ refreshAsked' = TRUE

\* Mutant of End: a request that timed out keeps request_lock.
EndHoldingLock(u, o, l) ==
  /\ rq' = [rq EXCEPT ![u] = IF u \in Commands THEN "idle" ELSE o]
  /\ attempt' = [attempt EXCEPT ![u] = 1]
  /\ requestLock' = IF o = "timeout" THEN requestLock ELSE l
  /\ gathered' = Settle(u, o)
  /\ UNCHANGED sentNow
  /\ IF u \in Commands /\ o # "connerr"
     THEN RequestStatusRefresh
     ELSE UNCHANGED refreshVars

\* Request u ends with o and leaves the lock l.  A command that got a reply or a
\* timeout asks for a status refresh; a ConnectionError leaves it before that.
\* The same command can be given again.
End(u, o, l) ==
  /\ rq' = [rq EXCEPT ![u] = IF u \in Commands THEN "idle" ELSE o]
  /\ attempt' = [attempt EXCEPT ![u] = 1]
  /\ requestLock' = l
  /\ gathered' = Settle(u, o)
  /\ UNCHANGED sentNow
  /\ IF u \in Commands /\ o # "connerr"
     THEN RequestStatusRefresh
     ELSE UNCHANGED refreshVars

\* Attempt n of request u holds the lock l: write, or raise on a closed connection.
Transmit(u, n, l) ==
  IF connected
  THEN /\ rq' = [rq EXCEPT ![u] = "waiting"]
       /\ attempt' = [attempt EXCEPT ![u] = n]
       /\ sentNow' = IF loopPc = "created" THEN sentNow \cup {u} ELSE {}
       /\ requestLock' = l
       /\ UNCHANGED <<gathered, refreshVars>>
  ELSE End(u, "connerr", Leave(l))

\* Mutant of Queue: a retried request already counts as missing.
QueueSettles(u, n, l) ==
  /\ rq' = [rq EXCEPT ![u] = "acquiring"]
  /\ attempt' = [attempt EXCEPT ![u] = n]
  /\ requestLock' = l
  /\ gathered' = Settle(u, "timeout")
  /\ UNCHANGED <<sentNow, refreshVars>>

\* Attempt n of request u waits in the queue of the lock, which becomes l.
Queue(u, n, l) ==
  /\ rq' = [rq EXCEPT ![u] = "acquiring"]
  /\ attempt' = [attempt EXCEPT ![u] = n]
  /\ requestLock' = l
  /\ UNCHANGED <<sentNow, gathered, refreshVars>>

CommandGiven(k) ==
  /\ rq[k] = "idle"
  /\ connected
  /\ requestLock' = Enter(requestLock, k)
  /\ rq' = [rq EXCEPT ![k] = Begun(k, requestLock')]
  /\ sentNow' = IF loopPc = "created" THEN sentNow \cup {k} ELSE {}
  /\ UNCHANGED <<attempt, gathered, loopVars, clientVars, refreshVars, linkVars>>

RequestGranted(u) ==
  /\ rq[u] = "acquiring"
  /\ requestLock.holder = u
  /\ Transmit(u, attempt[u], requestLock)
  /\ UNCHANGED <<loopVars, clientVars, linkVars>>

Replied(u) ==
  /\ rq[u] = "waiting" /\ u \notin sentNow
  /\ connected /\ panelAlive
  /\ End(u, "ok", Leave(requestLock))
  /\ UNCHANGED <<loopVars, clientVars, linkVars>>

\* The last attempt raises; any other asks for request_lock again, behind
\* those who already wait for it.
TimedOut(u) ==
  /\ rq[u] = "waiting" /\ u \notin sentNow
  /\ LET released == Leave(requestLock)
         l        == Enter(released, u)
     IN IF attempt[u] = Retries
        THEN End(u, "timeout", released)
        ELSE IF l.holder = u
             THEN Transmit(u, attempt[u] + 1, l)
             ELSE Queue(u, attempt[u] + 1, l)
  /\ UNCHANGED <<loopVars, clientVars, linkVars>>

-----------------------------------------------------------------------------
(* loop() *)

\* busy is held: create the tasks of a new poll.
CreateRequests ==
  /\ loopPc' = "created"
  /\ generation' = CHOOSE g \in Generations : g \notin LiveGenerations
  /\ gathered' = "pending"
  /\ rq' = [u \in Requests |-> IF u \in RequestsOf(generation') THEN "idle" ELSE rq[u]]
  /\ refreshAsked' = FALSE

\* The head of the while loop and the acquisition of busy.
NextRound ==
  IF runState = "STOP"
  THEN /\ loopPc' = "returned"
       /\ UNCHANGED <<generation, gathered, rq, refreshAsked, busy>>
  ELSE IF runState = "PAUSE"
  THEN /\ loopPc' = "wait"
       /\ UNCHANGED <<generation, gathered, rq, refreshAsked, busy>>
  ELSE /\ busy' = Enter(busy, Main)
       /\ IF busy.holder = NoOne
          THEN CreateRequests
          ELSE /\ loopPc' = "acquire"
               /\ UNCHANGED <<generation, gathered, rq, refreshAsked>>

LoopStarts ==
  /\ loopPc = "start"
  /\ NextRound
  /\ UNCHANGED <<missing, runState, attempt, sentNow, requestLock, waitEvent, clientVars,
                 linkVars>>

\* loop_wait_event is set, or KEEP_ALIVE_INTERVAL is over.
LoopWakes ==
  /\ loopPc = "wait"
  /\ waitEvent' = FALSE
  /\ NextRound
  /\ UNCHANGED <<missing, runState, attempt, sentNow, requestLock, clientVars, linkVars>>

LoopGetsBusy ==
  /\ loopPc = "acquire"
  /\ busy.holder = Main
  /\ CreateRequests
  /\ UNCHANGED <<missing, runState, busy, attempt, sentNow, requestLock, waitEvent,
                 clientVars, linkVars>>

\* The event loop runs the first step of the created tasks, one after the other;
\* without a connection each of them raises.
RequestsStart ==
  /\ loopPc = "created"
  /\ loopPc' = "gather"
  /\ requestLock' = IF connected
                    THEN EnterAll(requestLock, [b \in 1..Blocks |-> <<generation, b>>])
                    ELSE requestLock
  /\ rq' = [u \in Requests |->
              IF u \notin RequestsOf(generation) THEN rq[u]
              ELSE IF connected THEN Begun(u, requestLock') ELSE "connerr"]
  /\ gathered' = IF connected THEN "pending" ELSE "connerr"
  /\ sentNow' = {}
  /\ UNCHANGED <<generation, missing, runState, busy, attempt, clientVars, refreshVars,
                 linkVars>>

\* Mutant of PollSucceeds: loop_wait_event is cleared after the poll instead of
\* after the wait.
PollSucceedsClearing ==
  /\ loopPc = "gather" /\ gathered = "ok"
  /\ missing' = IF missing = 0 THEN 0 ELSE missing - 1
  /\ busy' = Leave(busy)
  /\ loopPc' = "wait"
  /\ waitEvent' = FALSE
  /\ UNCHANGED <<generation, runState, requestVars, clientVars, refreshAsked, linkVars>>

\* The merged status is handed to _process_status.
PollSucceeds ==
  /\ loopPc = "gather" /\ gathered = "ok"
  /\ missing' = IF missing = 0 THEN 0 ELSE missing - 1
  /\ busy' = Leave(busy)
  /\ loopPc' = "wait"
  /\ UNCHANGED <<generation, runState, requestVars, clientVars, refreshVars, linkVars>>

\* The replies cannot be merged: "except Exception" logs it and the loop goes on.
PollUnusable ==
  /\ loopPc = "gather" /\ gathered = "ok"
  /\ busy' = Leave(busy)
  /\ loopPc' = "wait"
  /\ UNCHANGED <<generation, missing, runState, requestVars, clientVars, refreshVars,
                 linkVars>>

\* Mutant of PollFails: replies_missing is not counted.
PollFailsUncounted ==
  /\ loopPc = "gather" /\ gathered = "timeout" /\ missing < MaxMissing
  /\ busy' = Leave(busy)
  /\ loopPc' = "wait"
  /\ UNCHANGED <<generation, missing, runState, requestVars, clientVars, refreshVars, linkVars>>

\* Mutant of PollFails: "replies_missing > 4".
PollFailsOnceMore ==
  /\ loopPc = "gather" /\ gathered = "timeout" /\ missing <= MaxMissing
  /\ missing' = missing + 1
  /\ busy' = Leave(busy)
  /\ loopPc' = "wait"
  /\ UNCHANGED <<generation, runState, requestVars, clientVars, refreshVars, linkVars>>

\* A reply is missing.
PollFails ==
  /\ loopPc = "gather" /\ gathered = "timeout" /\ missing < MaxMissing
  /\ missing' = missing + 1
  /\ busy' = Leave(busy)
  /\ loopPc' = "wait"
  /\ UNCHANGED <<generation, runState, requestVars, clientVars, refreshVars, linkVars>>

\* "Lost communication with panel": disconnect() while busy is still held.  An
\* open transport is closed, and the loop waits until it is.
PollGivesUp ==
  /\ loopPc = "gather" /\ gathered = "timeout" /\ missing >= MaxMissing
  /\ missing' = missing + 1
  /\ runState' = "STOP"
  /\ connected' = FALSE
  /\ loopPc' = IF connected THEN "closing" ELSE "returned"
  /\ busy' = IF connected THEN busy ELSE Leave(busy)
  /\ UNCHANGED <<generation, requestVars, clientVars, refreshVars, panelAlive>>

\* close() returns, or it raises TimeoutError and loop() with it.
LoopClosed ==
  /\ loopPc = "closing"
  /\ loopPc' \in {"returned", "raised"}
  /\ busy' = Leave(busy)
  /\ UNCHANGED <<generation, missing, runState, requestVars, clientVars, refreshVars,
                 linkVars>>

PollLosesConnection ==
  /\ loopPc = "gather" /\ gathered = "connerr"
  /\ busy' = Leave(busy)
  /\ loopPc' = "raised"
  /\ UNCHANGED <<generation, missing, runState, requestVars, clientVars, refreshVars,
                 linkVars>>

-----------------------------------------------------------------------------
(* IP clients *)

\* IPInterface.handle_client up to ClientConnection.handle: Paradox.pause.
ClientConnects(c) ==
  /\ clientPc[c] = "out"
  /\ clientPc' = [clientPc EXCEPT ![c] = "in"]
  /\ runState' = IF runState = "RUN" THEN "PAUSE" ELSE runState
  /\ UNCHANGED <<loopPc, generation, missing, busy, requestVars, passed, refreshVars,
                 linkVars>>

\* Both locks are held (r and b are what they become): write and release them.
\* A closed connection ends the client's session with ConnectionError.
PassThrough(c, r, b) ==
  /\ clientPc' = [clientPc EXCEPT ![c] = IF connected THEN "in" ELSE "gone"]
  /\ passed' = IF connected THEN [passed EXCEPT ![c] = @ + 1] ELSE passed
  /\ requestLock' = Leave(r)
  /\ busy' = Leave(b)

\* Mutant of TakeBusy: the message is written under request_lock alone.
PassWithoutBusy(c, r) ==
  /\ clientPc' = [clientPc EXCEPT ![c] = IF connected THEN "in" ELSE "gone"]
  /\ passed' = IF connected THEN [passed EXCEPT ![c] = @ + 1] ELSE passed
  /\ requestLock' = Leave(r)
  /\ UNCHANGED busy

\* request_lock is held (it is r): take busy next.
TakeBusy(c, r) ==
  IF busy.holder = NoOne
  THEN PassThrough(c, r, Enter(busy, c))
  ELSE /\ clientPc' = [clientPc EXCEPT ![c] = "wantBusy"]
       /\ requestLock' = r
       /\ busy' = Enter(busy, c)
       /\ UNCHANGED passed

ClientMessage(c) ==
  /\ clientPc[c] = "in"
  /\ passed[c] < MaxMessages
  /\ IF requestLock.holder = NoOne
     THEN TakeBusy(c, Enter(requestLock, c))
     ELSE /\ clientPc' = [clientPc EXCEPT ![c] = "wantRequest"]
          /\ requestLock' = Enter(requestLock, c)
          /\ UNCHANGED <<busy, passed>>
  /\ UNCHANGED <<loopPc, generation, missing, runState, rq, attempt, sentNow,
                 gathered, refreshVars, linkVars>>

ClientGetsRequestLock(c) ==
  /\ clientPc[c] = "wantRequest"
  /\ requestLock.holder = c
  /\ TakeBusy(c, requestLock)
  /\ UNCHANGED <<loopPc, generation, missing, runState, rq, attempt, sentNow,
                 gathered, refreshVars, linkVars>>

ClientGetsBusy(c) ==
  /\ clientPc[c] = "wantBusy"
  /\ busy.holder = c
  /\ PassThrough(c, requestLock, busy)
  /\ UNCHANGED <<loopPc, generation, missing, runState, rq, attempt, sentNow,
                 gathered, refreshVars, linkVars>>

-----------------------------------------------------------------------------
(* The panel and the link *)

PanelStopsAnswering ==
  /\ panelAlive
  /\ panelAlive' = FALSE
  /\ UNCHANGED <<connected, loopVars, requestVars, clientVars, refreshVars>>

ConnectionLost ==
  /\ connected
  /\ connected' = FALSE
  /\ UNCHANGED <<panelAlive, loopVars, requestVars, clientVars, refreshVars>>

\* disconnect() called from elsewhere: a "panel_not_connected" error message
\* (handle_error_message) or the exit handler.
Disconnected ==
  /\ runState # "STOP"
  /\ runState' = "STOP"
  /\ connected' = FALSE
  /\ UNCHANGED <<loopPc, generation, missing, busy, panelAlive, requestVars, clientVars,
                 refreshVars>>

-----------------------------------------------------------------------------
LoopStep ==
  \/ LoopStarts \/ LoopWakes \/ LoopGetsBusy \/ RequestsStart
  \/ PollSucceeds \/ PollUnusable \/ PollFails \/ PollGivesUp \/ LoopClosed
  \/ PollLosesConnection

RequestStep(u) == RequestGranted(u) \/ Replied(u) \/ TimedOut(u)

ClientStep(c) == ClientGetsRequestLock(c) \/ ClientGetsBusy(c)

Next ==
  \/ LoopStep
  \/ \E u \in Requests : RequestStep(u)
  \/ \E k \in Commands : CommandGiven(k)
  \/ \E c \in Clients : ClientConnects(c) \/ ClientMessage(c) \/ ClientStep(c)
  \/ PanelStopsAnswering
  \/ ConnectionLost
  \/ Disconnected

\* The event loop runs every task that can continue and fires its timers.
\* Nobody has to give a command, to connect or to send a message.
Fairness ==
  /\ WF_vars(LoopStep)
  /\ \A u \in Requests : WF_vars(RequestStep(u))
  /\ \A c \in Clients : WF_vars(ClientStep(c))

Spec == Init /\ [][Next]_vars

FairSpec == Spec /\ Fairness

-----------------------------------------------------------------------------
(* Properties *)

Ended == loopPc \in {"returned", "raised"}

\* Requests left behind by failed polls do not pile up: the first come first
\* served request_lock lets them finish before the next poll can fail, so at
\* most one old generation is alive beside the current one.
OrphansBounded == Cardinality(LiveGenerations) <= 2

\* A client's message is never written while PAI waits for the answer to a
\* request of its own, nor between two requests of one poll: this is what the
\* two locks of ClientConnection._handle_passthrough are for.
ClientWritesAlone ==
  [][passed' # passed => /\ \A u \in Requests : rq[u] # "waiting"
                         /\ loopPc \notin {"created", "gather"}]_vars

\* While loop() waits, a refresh that was requested and not served since keeps
\* loop_wait_event set, so that the loop does not sit out its interval.
RefreshNotForgotten ==
  loopPc = "wait" /\ refreshAsked /\ runState = "RUN" => waitEvent

\* A requested refresh leads to a new poll, unless loop() ends or is paused.
RefreshServed ==
  refreshAsked ~> (~refreshAsked \/ Ended \/ runState # "RUN")

\* A command of an interface comes to an end.
CommandsFinish ==
  \A k \in Commands : (rq[k] # "idle") ~> (rq[k] = "idle")

\* When the panel falls silent or the connection breaks, loop() ends, so that
\* run_loop can connect again.
LossNoticed ==
  (~panelAlive \/ ~connected) ~> Ended
==============================================================================
