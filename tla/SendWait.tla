------------------------------- MODULE SendWait ------------------------------
(***************************************************************************)
(* Paradox.send_wait (paradox.py) with what it is made of: request_lock,   *)
(* Connection.write, AsyncMessageManager.wait_for_message, the FutureHandler*)
(* it registers, HandlerRegistry.handle, and the link and panel behind     *)
(* them.                                                                   *)
(*                                                                         *)
(* Each element of Calls is one invocation of send_wait by some asyncio    *)
(* task.  A request on the wire is named by the call that wrote it, a      *)
(* reply by the call whose request the panel answers.  Accepts[c] are the  *)
(* calls whose replies satisfy the check function of c: an action request  *)
(* waits for "command 0x4", which is the reply to every action             *)
(* (Panel.control_zones, control_partitions, ...); a memory read compares  *)
(* the address too (Panel._request_status_reply_check).                    *)
(*                                                                         *)
(* An action of the model is what runs between two awaits.                 *)
(***************************************************************************)
EXTENDS Naturals, Sequences, FiniteSets, AsyncLock

CONSTANTS
  Calls,      \* the invocations of send_wait
  Retries,    \* its argument "retries"
  Accepts,    \* the function described above
  MaxDrops    \* how often the link may go down

ASSUME NoOneAssumption == NoOne \notin Calls
ASSUME RetriesAssumption == Retries \in Nat \ {0}
ASSUME AcceptsAssumption ==
  Accepts \in [Calls -> SUBSET Calls] /\ \A c \in Calls : c \in Accepts[c]
ASSUME MaxDropsAssumption == MaxDrops \in Nat

VARIABLES
  connected,  \* Connection.connected
  drops,      \* how often the link went down
  pc,         \* where each call is suspended
  attempt,    \* the local variable of the same name
  lock,       \* Paradox.request_lock
  handlers,   \* calls whose FutureHandler is in HandlerRegistry._handlers
  future,     \* the result of that FutureHandler, NoOne while it has none
  outcome,    \* how the call ended: returned or which exception it raised
  toPanel,    \* requests written and not yet seen by the panel
  fromPanel,  \* replies not yet seen by HandlerRegistry.handle
  sent,       \* history: how often each call wrote its request
  performed,  \* history: calls whose request the panel carried out
  delivered,  \* history: calls the answer to which reached the registry
  late        \* history: a call timed out with something still on the link

vars == <<connected, drops, pc, attempt, lock, handlers, future, outcome,
          toPanel, fromPanel, sent, performed, delivered, late>>

TypeOK ==
  /\ connected \in BOOLEAN
  /\ drops \in 0..MaxDrops
  /\ pc \in [Calls -> {"idle", "acquiring", "waiting", "done"}]
  /\ attempt \in [Calls -> 1..Retries]
  /\ lock \in Locks(Calls)
  /\ handlers \in SUBSET Calls
  /\ future \in [Calls -> Calls \cup {NoOne}]
  /\ outcome \in [Calls -> {"none", "ok", "timeout", "connerr"}]
  /\ toPanel \in Seq(Calls)
  /\ fromPanel \in Seq(Calls)
  /\ sent \in [Calls -> 0..Retries]
  /\ performed \in SUBSET Calls
  /\ delivered \in SUBSET Calls
  /\ late \in BOOLEAN

Init ==
  /\ connected = TRUE
  /\ drops = 0
  /\ pc = [c \in Calls |-> "idle"]
  /\ attempt = [c \in Calls |-> 1]
  /\ lock = Unlocked
  /\ handlers = {}
  /\ future = [c \in Calls |-> NoOne]
  /\ outcome = [c \in Calls |-> "none"]
  /\ toPanel = <<>>
  /\ fromPanel = <<>>
  /\ sent = [c \in Calls |-> 0]
  /\ performed = {}
  /\ delivered = {}
  /\ late = FALSE

-----------------------------------------------------------------------------
(* The steps of a call *)

\* Mutant of Finish: a call that gives up keeps request_lock.
FinishHoldingLock(c, o, l) ==
  /\ pc' = [pc EXCEPT ![c] = "done"]
  /\ outcome' = [outcome EXCEPT ![c] = o]
  /\ handlers' = handlers \ {c}
  /\ lock' = IF o = "timeout" THEN lock ELSE l
  /\ UNCHANGED <<toPanel, sent>>

\* The call returns or raises; l is request_lock after the "async with" block.
Finish(c, o, l) ==
  /\ pc' = [pc EXCEPT ![c] = "done"]
  /\ outcome' = [outcome EXCEPT ![c] = o]
  /\ handlers' = handlers \ {c}
  /\ lock' = l
  /\ UNCHANGED <<toPanel, sent>>

\* Mutant of Exchange: only the write is inside "async with request_lock".
ExchangeOutsideLock(c, l) ==
  IF connected
  THEN /\ pc' = [pc EXCEPT ![c] = "waiting"]
       /\ toPanel' = Append(toPanel, c)
       /\ sent' = [sent EXCEPT ![c] = @ + 1]
       /\ handlers' = handlers \cup {c}
       /\ lock' = Leave(l)
       /\ UNCHANGED outcome
  ELSE Finish(c, "connerr", Leave(l))

\* The call got request_lock (l): write the request and register the future.
\* Connection.write raises ConnectionError on a closed connection.
Exchange(c, l) ==
  IF connected
  THEN /\ pc' = [pc EXCEPT ![c] = "waiting"]
       /\ toPanel' = Append(toPanel, c)
       /\ sent' = [sent EXCEPT ![c] = @ + 1]
       /\ handlers' = handlers \cup {c}
       /\ lock' = l
       /\ UNCHANGED outcome
  ELSE Finish(c, "connerr", Leave(l))

\* Mutant of Queue: wait_until_complete does not remove the handler.
QueueStillRegistered(c, l) ==
  /\ pc' = [pc EXCEPT ![c] = "acquiring"]
  /\ lock' = l
  /\ UNCHANGED <<handlers, outcome, toPanel, sent>>

\* request_lock is taken by somebody else: wait in its queue (l).
Queue(c, l) ==
  /\ pc' = [pc EXCEPT ![c] = "acquiring"]
  /\ handlers' = handlers \ {c}
  /\ lock' = l
  /\ UNCHANGED <<outcome, toPanel, sent>>

\* "async with self.request_lock" on the lock l.
AcquireThenExchange(c, l) ==
  LET entered == Enter(l, c)
  IN IF entered.holder = c THEN Exchange(c, entered) ELSE Queue(c, entered)

Call(c) ==
  /\ pc[c] = "idle"
  /\ IF connected
     THEN AcquireThenExchange(c, lock)
     ELSE Finish(c, "connerr", lock)
  /\ UNCHANGED <<connected, drops, attempt, future, fromPanel, performed, delivered, late>>

Granted(c) ==
  /\ pc[c] = "acquiring"
  /\ lock.holder = c
  /\ Exchange(c, lock)
  /\ UNCHANGED <<connected, drops, attempt, future, fromPanel, performed, delivered, late>>

\* Mutant of ReplyReceived: the connection is tested before the result is used.
ReplyReceivedIfConnected(c) ==
  /\ pc[c] = "waiting"
  /\ future[c] # NoOne
  /\ Finish(c, IF connected THEN "ok" ELSE "connerr", Leave(lock))
  /\ UNCHANGED <<connected, drops, attempt, future, fromPanel, performed, delivered, late>>

ReplyReceived(c) ==
  /\ pc[c] = "waiting"
  /\ future[c] # NoOne
  /\ Finish(c, "ok", Leave(lock))
  /\ UNCHANGED <<connected, drops, attempt, future, fromPanel, performed, delivered, late>>

\* A reply is under way: a request or an answer is on the link.
InFlight == toPanel # <<>> \/ fromPanel # <<>>

\* Mutant of TimedOut: "attempt > retries", one attempt too many.
TimedOutTooLate(c) ==
  /\ pc[c] = "waiting"
  /\ future[c] = NoOne
  /\ late' = (late \/ InFlight)
  /\ IF attempt[c] > Retries
     THEN Finish(c, "timeout", Leave(lock)) /\ UNCHANGED attempt
     ELSE /\ attempt' = [attempt EXCEPT ![c] = @ + 1]
          /\ AcquireThenExchange(c, Leave(lock))
  /\ UNCHANGED <<connected, drops, future, fromPanel, performed, delivered>>

\* Mutant of TimedOut: "attempt == retries - 1", one attempt too few.
TimedOutTooEarly(c) ==
  /\ pc[c] = "waiting"
  /\ future[c] = NoOne
  /\ late' = (late \/ InFlight)
  /\ IF attempt[c] >= Retries - 1
     THEN Finish(c, "timeout", Leave(lock)) /\ UNCHANGED attempt
     ELSE /\ attempt' = [attempt EXCEPT ![c] = @ + 1]
          /\ AcquireThenExchange(c, Leave(lock))
  /\ UNCHANGED <<connected, drops, future, fromPanel, performed, delivered>>

\* asyncio.wait_for gives up: the last attempt raises, any other goes round
\* the loop and asks for request_lock again, behind those who wait for it.
TimedOut(c) ==
  /\ pc[c] = "waiting"
  /\ future[c] = NoOne
  /\ late' = (late \/ InFlight)
  /\ IF attempt[c] = Retries
     THEN Finish(c, "timeout", Leave(lock)) /\ UNCHANGED attempt
     ELSE /\ attempt' = [attempt EXCEPT ![c] = @ + 1]
          /\ AcquireThenExchange(c, Leave(lock))
  /\ UNCHANGED <<connected, drops, future, fromPanel, performed, delivered>>

-----------------------------------------------------------------------------
(* Incoming messages, the link and the panel *)

\* HandlerRegistry.handle: every registered future that accepts the message
\* and has no result yet gets it (a done one raises AlreadyHandledError).
HandleMessage ==
  /\ fromPanel # <<>>
  /\ LET m == Head(fromPanel)
     IN /\ future' = [c \in Calls |->
                        IF c \in handlers /\ future[c] = NoOne /\ m \in Accepts[c]
                        THEN m ELSE future[c]]
        /\ delivered' = delivered \cup {m}
  /\ fromPanel' = Tail(fromPanel)
  /\ UNCHANGED <<connected, drops, pc, attempt, lock, handlers, outcome, toPanel,
                 sent, performed, late>>

PanelAnswers ==
  /\ toPanel # <<>>
  /\ performed' = performed \cup {Head(toPanel)}
  /\ fromPanel' = Append(fromPanel, Head(toPanel))
  /\ toPanel' = Tail(toPanel)
  /\ UNCHANGED <<connected, drops, pc, attempt, lock, handlers, future, outcome,
                 sent, delivered, late>>

\* The request never arrives, or the panel does not answer it.
LoseRequest ==
  /\ toPanel # <<>>
  /\ toPanel' = Tail(toPanel)
  /\ UNCHANGED <<connected, drops, pc, attempt, lock, handlers, future, outcome,
                 fromPanel, sent, performed, delivered, late>>

LoseReply ==
  /\ fromPanel # <<>>
  /\ fromPanel' = Tail(fromPanel)
  /\ UNCHANGED <<connected, drops, pc, attempt, lock, handlers, future, outcome,
                 toPanel, sent, performed, delivered, late>>

\* Connection.on_connection_loss.  The replies already scheduled as tasks
\* (schedule_message_handling) are still handled: a prefix of them survives.
ConnectionLost ==
  /\ connected
  /\ drops < MaxDrops
  /\ connected' = FALSE
  /\ drops' = drops + 1
  /\ toPanel' = <<>>
  /\ \E n \in 0..Len(fromPanel) : fromPanel' = SubSeq(fromPanel, 1, n)
  /\ UNCHANGED <<pc, attempt, lock, handlers, future, outcome, sent, performed,
                 delivered, late>>

\* Connection.connect of a new session; the calls of the old one live on.
Reconnected ==
  /\ ~connected
  /\ connected' = TRUE
  /\ UNCHANGED <<drops, pc, attempt, lock, handlers, future, outcome, toPanel,
                 fromPanel, sent, performed, delivered, late>>

-----------------------------------------------------------------------------
CallStep(c) == Granted(c) \/ ReplyReceived(c) \/ TimedOut(c)

LinkStep == PanelAnswers \/ LoseRequest \/ LoseReply

Next ==
  \/ \E c \in Calls : Call(c) \/ CallStep(c)
  \/ HandleMessage
  \/ LinkStep
  \/ ConnectionLost
  \/ Reconnected

\* The event loop runs every task that can continue and fires every timer;
\* what is on the link arrives or is lost.  Nobody has to make a call, and the
\* link need not go down or come back.
Fairness ==
  /\ \A c \in Calls : WF_vars(CallStep(c))
  /\ WF_vars(HandleMessage)
  /\ WF_vars(LinkStep)

Spec == Init /\ [][Next]_vars

FairSpec == Spec /\ Fairness

-----------------------------------------------------------------------------
(* Properties *)

\* At most one call has a future in the handler registry, and it is the one
\* that holds request_lock: a reply can never satisfy two calls.  (send_wait
\* relies on it: the check functions alone do not tell two actions apart.)
SingleWaiter ==
  /\ \A c, d \in handlers : c = d
  /\ \A c \in handlers : pc[c] = "waiting" /\ lock.holder = c

\* A call that returned a reply was carried out by the panel.  This is what
\* Panel.control_zones and its siblings report as "at least one success".
AcceptedMeansPerformed ==
  \A c \in Calls : outcome[c] = "ok" => c \in performed

\* While no answer has come after a timeout, a call that returned a reply
\* returned the reply to its own request, not that of another call whose reply
\* has the same command code.
OwnReply ==
  ~late => \A c \in Calls : outcome[c] = "ok" => future[c] = c

\* While no answer has come after a timeout: if the answer of the panel reached
\* PAI, the call does not end in a timeout or a connection error; no answer is
\* dropped between registry and caller.
NoAnswerLost ==
  ~late => \A c \in delivered : pc[c] = "done" => outcome[c] = "ok"

\* Whatever the link and the other calls do, a call that was made returns or
\* raises: it is neither starved in the queue of request_lock nor retried
\* for ever.
CallTerminates ==
  \A c \in Calls : (pc[c] # "idle") ~> (pc[c] = "done")

\* The calls take turns on the bus as the abstract specification says.
Turn == INSTANCE BusTurn WITH onBus <- handlers

TakesTurns == Turn!Spec
==============================================================================
