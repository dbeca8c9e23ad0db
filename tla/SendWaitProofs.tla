---------------------------- MODULE SendWaitProofs ---------------------------
(***************************************************************************)
(* What TLAPS proves of SendWait for any set of calls, number of retries,  *)
(* check functions and number of link failures.                            *)
(***************************************************************************)
EXTENDS SendWait, AsyncLockProofs

Active == {c \in Calls : pc[c] \in {"acquiring", "waiting"}}

Waiting == {c \in Calls : pc[c] = "waiting"}

\* The queue of request_lock is in order and holds exactly the calls between
\* "acquire" and "release"; the registered futures are those of the waiting
\* calls, and a waiting call holds the lock.
LockInv ==
  /\ InOrder(lock)
  /\ Members(lock, Calls) = Active
  /\ handlers = Waiting
  /\ \A c \in handlers : lock.holder = c

\* The request has been written once per finished attempt, and once more while
\* its answer is awaited.
CountInv ==
  \A c \in Calls :
    /\ outcome[c] = "none" <=> pc[c] # "done"
    /\ pc[c] \in {"idle", "acquiring"} => sent[c] = attempt[c] - 1
    /\ pc[c] = "waiting" => sent[c] = attempt[c]

BusInv == TypeOK /\ LockInv /\ CountInv

\* What Finish, Exchange and Queue leave alone in every action that uses them.
Aside ==
  /\ UNCHANGED <<connected, drops, future, fromPanel, performed, delivered>>
  /\ late' \in BOOLEAN

USE NoOneAssumption, RetriesAssumption, AcceptsAssumption, MaxDropsAssumption

-----------------------------------------------------------------------------
(* The three ways a step of a call ends *)

\* A call that ends with the lock l it does not belong to keeps BusInv.
LEMMA FinishBus ==
  ASSUME BusInv, NEW c \in Calls, NEW l \in Locks(Calls), InOrder(l),
         Members(l, Calls) = Active \ {c},
         \A d \in handlers \ {c} : l.holder = d,
         NEW o \in {"ok", "timeout", "connerr"},
         Finish(c, o, l), Aside, attempt' \in [Calls -> 1..Retries],
         \A d \in Calls \ {c} : attempt'[d] = attempt[d]
  PROVE  BusInv'
<1> USE DEF Aside
<1>1. TypeOK'
  BY DEF BusInv, TypeOK, Finish
<1>2. /\ Active' = Active \ {c}
      /\ Waiting' = Waiting \ {c}
  BY DEF BusInv, TypeOK, Finish, Active, Waiting
<1>3. LockInv'
  <2>1. lock' = l /\ handlers' = handlers \ {c} /\ handlers = Waiting
    BY DEF Finish, BusInv, LockInv
  <2>2. InOrder(lock') /\ Members(lock', Calls) = Active'
    BY <1>2, <2>1, Zenon
  <2> QED BY <1>2, <2>1, <2>2 DEF LockInv
<1>4. CountInv'
  BY DEF BusInv, TypeOK, CountInv, Finish
<1> QED BY <1>1, <1>3, <1>4 DEF BusInv

\* A call that waits in the queue l of the lock keeps BusInv.
LEMMA QueueBus ==
  ASSUME BusInv, NEW c \in Calls, NEW l \in Locks(Calls), InOrder(l),
         Members(l, Calls) = Active \cup {c},
         \A d \in handlers \ {c} : l.holder = d,
         outcome[c] = "none", sent[c] = attempt'[c] - 1,
         Queue(c, l), Aside, attempt' \in [Calls -> 1..Retries],
         \A d \in Calls \ {c} : attempt'[d] = attempt[d]
  PROVE  BusInv'
<1> USE DEF Aside
<1>1. TypeOK'
  BY DEF BusInv, TypeOK, Queue
<1>2. /\ Active' = Active \cup {c}
      /\ Waiting' = Waiting \ {c}
  BY DEF BusInv, TypeOK, Queue, Active, Waiting
<1>3. LockInv'
  <2>1. lock' = l /\ handlers' = handlers \ {c} /\ handlers = Waiting
    BY DEF Queue, BusInv, LockInv
  <2>2. InOrder(lock') /\ Members(lock', Calls) = Active'
    BY <1>2, <2>1, Zenon
  <2> QED BY <1>2, <2>1, <2>2 DEF LockInv
<1>4. CountInv'
  BY DEF BusInv, TypeOK, CountInv, Queue
<1> QED BY <1>1, <1>3, <1>4 DEF BusInv

\* A call that holds the lock l and starts an exchange keeps BusInv.
LEMMA ExchangeBus ==
  ASSUME BusInv, NEW c \in Calls, NEW l \in Locks(Calls), InOrder(l),
         Members(l, Calls) = Active \cup {c}, l.holder = c,
         handlers \subseteq {c},
         outcome[c] = "none", sent[c] = attempt'[c] - 1,
         Exchange(c, l), Aside, attempt' \in [Calls -> 1..Retries],
         \A d \in Calls \ {c} : attempt'[d] = attempt[d]
  PROVE  BusInv'
<1>1. CASE connected
  <2> USE DEF Aside
  <2>1. sent[c] + 1 \in 0..Retries /\ sent[c] + 1 = attempt'[c]
    BY DEF BusInv, TypeOK
  <2>2. TypeOK'
    <3>1. TypeOK
      BY DEF BusInv
    <3>2. /\ toPanel' = Append(toPanel, c)
          /\ sent' = [sent EXCEPT ![c] = @ + 1]
          /\ pc' = [pc EXCEPT ![c] = "waiting"]
          /\ handlers' = handlers \cup {c}
          /\ lock' = l
          /\ outcome' = outcome
      BY <1>1 DEF Exchange
    <3>3. toPanel' \in Seq(Calls)
      BY <3>1, <3>2 DEF TypeOK
    <3>4. sent' \in [Calls -> 0..Retries]
      BY <2>1, <3>1, <3>2 DEF TypeOK
    <3>5. /\ pc' \in [Calls -> {"idle", "acquiring", "waiting", "done"}]
          /\ handlers' \in SUBSET Calls
      BY <3>1, <3>2 DEF TypeOK
    <3> QED BY <3>1, <3>2, <3>3, <3>4, <3>5 DEF TypeOK
  <2>3. /\ Active' = Active \cup {c}
        /\ Waiting' = Waiting \cup {c}
    BY <1>1 DEF BusInv, TypeOK, Exchange, Active, Waiting
  <2>4. LockInv'
    <3>1. lock' = l /\ handlers' = handlers \cup {c} /\ handlers = Waiting
      BY <1>1 DEF Exchange, BusInv, LockInv
    <3>2. InOrder(lock') /\ Members(lock', Calls) = Active'
      BY <2>3, <3>1, Zenon
    <3> QED BY <2>3, <3>1, <3>2 DEF LockInv
  <2>5. CountInv'
    BY <1>1, <2>1 DEF BusInv, TypeOK, CountInv, Exchange
  <2> QED BY <2>2, <2>4, <2>5 DEF BusInv
<1>2. CASE ~connected
  <2>1. c # NoOne /\ l.holder # NoOne
    OBVIOUS
  <2>2. /\ Leave(l) \in Locks(Calls)
        /\ InOrder(Leave(l))
        /\ Members(Leave(l), Calls) = Members(l, Calls) \ {c}
    BY <2>1, LeaveInOrder
  <2>3. Members(Leave(l), Calls) = Active \ {c}
    BY <2>2
  <2>4. Finish(c, "connerr", Leave(l))
    BY <1>2 DEF Exchange
  <2> QED BY <2>2, <2>3, <2>4, FinishBus
<1> QED BY <1>1, <1>2

\* "async with self.request_lock" by a call outside the lock l keeps BusInv.
LEMMA AcquireBus ==
  ASSUME BusInv, NEW c \in Calls, NEW l \in Locks(Calls), InOrder(l),
         Members(l, Calls) = Active \ {c},
         \A d \in handlers \ {c} : l.holder = d,
         outcome[c] = "none", sent[c] = attempt'[c] - 1,
         AcquireThenExchange(c, l), Aside, attempt' \in [Calls -> 1..Retries],
         \A d \in Calls \ {c} : attempt'[d] = attempt[d]
  PROVE  BusInv'
<1> DEFINE e == Enter(l, c)
<1>1. c \notin Members(l, Calls) /\ c # NoOne
  OBVIOUS
<1>2. /\ e \in Locks(Calls)
      /\ InOrder(e)
      /\ Members(e, Calls) = Members(l, Calls) \cup {c}
      /\ e.holder = IF l.holder = NoOne THEN c ELSE l.holder
  BY <1>1, EnterInOrder
<1>3. Members(e, Calls) = Active \cup {c}
  BY <1>2
<1>4. l.holder # c
  BY <1>1 DEF Members
<1>5. CASE e.holder = c
  <2>1. l.holder = NoOne
    BY <1>2, <1>4, <1>5
  <2>2. handlers \subseteq {c}
    BY <2>1 DEF BusInv, TypeOK
  <2>3. Exchange(c, e)
    BY <1>5 DEF AcquireThenExchange
  <2> QED BY <1>2, <1>3, <1>5, <2>2, <2>3, ExchangeBus
<1>6. CASE e.holder # c
  <2>1. Queue(c, e)
    BY <1>6 DEF AcquireThenExchange
  <2>2. e.holder = l.holder
    BY <1>2, <1>6
  <2> QED BY <1>2, <1>3, <2>1, <2>2, QueueBus
<1> QED BY <1>5, <1>6

-----------------------------------------------------------------------------
(* Type correctness and single waiter *)

\* Before the first call nobody holds request_lock and no future is registered.
LEMMA InitBus == Init => BusInv
<1> SUFFICES ASSUME Init PROVE BusInv
  OBVIOUS
<1>1. Unlocked \in Locks(Calls) /\ InOrder(Unlocked) /\ Members(Unlocked, Calls) = {}
  BY UnlockedInOrder
<1>2. TypeOK
  <2>1. <<>> \in Seq(Calls) /\ drops \in 0..MaxDrops
    BY DEF Init
  <2>2. /\ pc \in [Calls -> {"idle", "acquiring", "waiting", "done"}]
        /\ attempt \in [Calls -> 1..Retries] /\ sent \in [Calls -> 0..Retries]
        /\ future \in [Calls -> Calls \cup {NoOne}]
        /\ outcome \in [Calls -> {"none", "ok", "timeout", "connerr"}]
    BY DEF Init
  <2> QED BY <1>1, <2>1, <2>2 DEF Init, TypeOK
<1>3. LockInv
  BY <1>1 DEF Init, LockInv, Active, Waiting
<1>4. CountInv
  BY DEF Init, CountInv
<1> QED BY <1>2, <1>3, <1>4 DEF BusInv

\* The lock after a waiting call released it.
LEMMA WaitingLeaves ==
  ASSUME BusInv, NEW c \in Calls, pc[c] = "waiting"
  PROVE  /\ handlers = {c}
         /\ Leave(lock) \in Locks(Calls)
         /\ InOrder(Leave(lock))
         /\ Members(Leave(lock), Calls) = Active \ {c}
<1>1. lock \in Locks(Calls) /\ lock.holder = c /\ c # NoOne /\ InOrder(lock)
      /\ handlers = {c}
  BY DEF BusInv, TypeOK, LockInv, Waiting
<1>2. Members(lock, Calls) = Active
  BY DEF BusInv, LockInv
<1> QED BY <1>1, <1>2, LeaveInOrder

\* Every step of the calls, the registry, the link and the panel keeps BusInv.
LEMMA NextBus == BusInv /\ [Next]_vars => BusInv'
<1> SUFFICES ASSUME BusInv, [Next]_vars PROVE BusInv'
  OBVIOUS
<1>1. ASSUME NEW c \in Calls, Call(c) PROVE BusInv'
  <2>1. /\ Aside /\ attempt' = attempt /\ attempt \in [Calls -> 1..Retries]
        /\ pc[c] = "idle" /\ lock \in Locks(Calls) /\ InOrder(lock)
        /\ outcome[c] = "none" /\ sent[c] = attempt[c] - 1
    BY <1>1 DEF Call, Aside, BusInv, TypeOK, LockInv, CountInv
  <2>2. Active = Active \ {c} /\ c \notin handlers
    BY <2>1 DEF BusInv, LockInv, Active, Waiting
  <2>3. Members(lock, Calls) = Active \ {c} /\ \A d \in handlers \ {c} : lock.holder = d
    BY <2>2 DEF BusInv, LockInv
  <2>4. CASE connected
    BY <1>1, <2>1, <2>3, <2>4, AcquireBus DEF Call
  <2>5. CASE ~connected
    BY <1>1, <2>1, <2>3, <2>5, FinishBus DEF Call
  <2> QED BY <2>4, <2>5
<1>2. ASSUME NEW c \in Calls, Granted(c) PROVE BusInv'
  <2>1. /\ Aside /\ attempt' = attempt /\ attempt \in [Calls -> 1..Retries]
        /\ pc[c] = "acquiring" /\ lock \in Locks(Calls) /\ InOrder(lock)
        /\ lock.holder = c /\ Exchange(c, lock)
        /\ outcome[c] = "none" /\ sent[c] = attempt[c] - 1
    BY <1>2 DEF Granted, Aside, BusInv, TypeOK, LockInv, CountInv
  <2>2. Active = Active \cup {c} /\ handlers \subseteq {c}
    BY <2>1 DEF BusInv, TypeOK, LockInv, Active
  <2>3. Members(lock, Calls) = Active \cup {c}
    BY <2>2 DEF BusInv, LockInv
  <2> QED BY <2>1, <2>2, <2>3, ExchangeBus
<1>3. ASSUME NEW c \in Calls, ReplyReceived(c) PROVE BusInv'
  <2>1. /\ Aside /\ attempt' = attempt /\ attempt \in [Calls -> 1..Retries]
        /\ pc[c] = "waiting" /\ Finish(c, "ok", Leave(lock))
    BY <1>3 DEF ReplyReceived, Aside, BusInv, TypeOK
  <2> QED BY <2>1, WaitingLeaves, FinishBus
<1>4. ASSUME NEW c \in Calls, TimedOut(c) PROVE BusInv'
  <2>1. /\ Aside /\ attempt \in [Calls -> 1..Retries]
        /\ pc[c] = "waiting" /\ outcome[c] = "none" /\ sent[c] = attempt[c]
    BY <1>4 DEF TimedOut, Aside, BusInv, TypeOK, CountInv
  <2>2. CASE attempt[c] = Retries
    <3>1. Finish(c, "timeout", Leave(lock)) /\ attempt' = attempt
      BY <1>4, <2>2 DEF TimedOut
    <3> QED BY <2>1, <3>1, WaitingLeaves, FinishBus
  <2>3. CASE attempt[c] # Retries
    <3>1. /\ attempt' = [attempt EXCEPT ![c] = @ + 1]
          /\ AcquireThenExchange(c, Leave(lock))
      BY <1>4, <2>3 DEF TimedOut
    <3>2. /\ attempt' \in [Calls -> 1..Retries]
          /\ \A d \in Calls \ {c} : attempt'[d] = attempt[d]
          /\ sent[c] = attempt'[c] - 1
      BY <2>1, <2>3, <3>1
    <3>3. \A d \in handlers \ {c} : Leave(lock).holder = d
      BY <2>1, WaitingLeaves
    <3> QED BY <2>1, <3>1, <3>2, <3>3, WaitingLeaves, AcquireBus
  <2> QED BY <2>2, <2>3
<1>5. ASSUME UNCHANGED <<pc, attempt, lock, handlers, outcome, sent>>, TypeOK'
      PROVE  BusInv'
  BY <1>5 DEF BusInv, LockInv, CountInv, Active, Waiting, InOrder, Members
<1>6. CASE HandleMessage
  <2>1. TypeOK'
    BY <1>6 DEF HandleMessage, BusInv, TypeOK
  <2> QED BY <1>5, <1>6, <2>1 DEF HandleMessage
<1>7. CASE LinkStep
  <2>1. TypeOK'
    <3>1. toPanel \in Seq(Calls) /\ fromPanel \in Seq(Calls)
      BY DEF BusInv, TypeOK
    <3>2. CASE PanelAnswers
      <4>1. /\ Head(toPanel) \in Calls
            /\ Tail(toPanel) \in Seq(Calls)
            /\ Append(fromPanel, Head(toPanel)) \in Seq(Calls)
        BY <3>1, <3>2 DEF PanelAnswers
      <4> QED BY <3>2, <4>1 DEF PanelAnswers, BusInv, TypeOK
    <3>3. CASE LoseRequest
      <4>1. Tail(toPanel) \in Seq(Calls)
        BY <3>1, <3>3 DEF LoseRequest
      <4> QED BY <3>3, <4>1 DEF LoseRequest, BusInv, TypeOK
    <3>4. CASE LoseReply
      <4>1. Tail(fromPanel) \in Seq(Calls)
        BY <3>1, <3>4 DEF LoseReply
      <4> QED BY <3>4, <4>1 DEF LoseReply, BusInv, TypeOK
    <3> QED BY <1>7, <3>2, <3>3, <3>4 DEF LinkStep
  <2> QED BY <1>5, <1>7, <2>1 DEF LinkStep, PanelAnswers, LoseRequest, LoseReply
<1>8. CASE ConnectionLost
  <2>1. TypeOK'
    <3>1. fromPanel \in Seq(Calls) /\ <<>> \in Seq(Calls)
      BY DEF BusInv, TypeOK
    <3>2. \A n \in 0..Len(fromPanel) : SubSeq(fromPanel, 1, n) \in Seq(Calls)
      BY <3>1
    <3>3. fromPanel' \in Seq(Calls)
      BY <1>8, <3>2 DEF ConnectionLost
    <3>4. drops' \in 0..MaxDrops
      BY <1>8 DEF ConnectionLost, BusInv, TypeOK
    <3> QED BY <1>8, <3>1, <3>3, <3>4 DEF ConnectionLost, BusInv, TypeOK
  <2> QED BY <1>5, <1>8, <2>1 DEF ConnectionLost
<1>9. CASE Reconnected
  <2>1. TypeOK'
    BY <1>9 DEF Reconnected, BusInv, TypeOK
  <2> QED BY <1>5, <1>9, <2>1 DEF Reconnected
<1>10. CASE UNCHANGED vars
  BY <1>10 DEF vars, BusInv, TypeOK, LockInv, CountInv, Active, Waiting, InOrder, Members
<1> QED
  BY <1>1, <1>2, <1>3, <1>4, <1>6, <1>7, <1>8, <1>9, <1>10 DEF Next, CallStep

\* BusInv, which the theorems below need, holds in every reachable state.
THEOREM BusInvariant == Spec => []BusInv
BY InitBus, NextBus, PTL DEF Spec

\* Every variable keeps its type: in particular no call writes its request more
\* than Retries times, and the attempt counter of send_wait stays in range.
THEOREM TypeCorrect == Spec => []TypeOK
<1>1. BusInv => TypeOK
  BY DEF BusInv
<1> QED BY <1>1, BusInvariant, PTL

\* request_lock keeps the futures of two calls from being registered at once.
THEOREM OneWaiterAtATime == Spec => []SingleWaiter
<1>1. BusInv => SingleWaiter
  BY DEF BusInv, LockInv, SingleWaiter, Waiting
<1> QED BY <1>1, BusInvariant, PTL

-----------------------------------------------------------------------------
(* Refinement of BusTurn *)

\* The bus is free before the first call.
LEMMA InitTurn == Init => Turn!Init
BY DEF Init, Turn!Init

\* The three ways a step of a call ends are steps of the abstract bus.
LEMMA FinishTurn ==
  ASSUME NEW c \in Calls, NEW l, NEW o \in {"ok", "timeout", "connerr"},
         outcome[c] = "none", o = "ok" => c \in handlers,
         o = "timeout" => c \in handlers /\ sent[c] = Retries,
         Finish(c, o, l)
  PROVE  Turn!Next
<1>1. Turn!Finish(c, o)
  BY DEF Finish, Turn!Finish
<1> QED BY <1>1 DEF Turn!Next

\* A call that waits for request_lock has let go of the bus, or never had it.
LEMMA QueueTurn ==
  ASSUME BusInv, NEW c \in Calls, NEW l, Queue(c, l)
  PROVE  [Turn!Next]_(Turn!vars)
<1>1. CASE c \in handlers
  <2>1. Turn!Yield(c)
    BY <1>1 DEF Queue, Turn!Yield
  <2> QED BY <2>1 DEF Turn!Next
<1>2. CASE c \notin handlers
  BY <1>2 DEF Queue, Turn!vars
<1> QED BY <1>1, <1>2

\* A call that writes its request transmits: nobody else has the bus then.
LEMMA ExchangeTurn ==
  ASSUME BusInv, NEW c \in Calls, NEW l, Exchange(c, l),
         outcome[c] = "none", handlers \subseteq {c}, sent[c] < Retries
  PROVE  Turn!Next
<1>1. CASE connected
  <2>1. handlers' = {c}
    BY <1>1 DEF Exchange
  <2>2. Turn!Transmit(c)
    BY <1>1, <2>1 DEF Exchange, Turn!Transmit
  <2> QED BY <2>2 DEF Turn!Next
<1>2. CASE ~connected
  BY <1>2, FinishTurn DEF Exchange
<1> QED BY <1>1, <1>2

\* "async with self.request_lock" leads to an exchange or to the queue.
LEMMA AcquireTurn ==
  ASSUME BusInv, NEW c \in Calls, NEW l \in Locks(Calls), AcquireThenExchange(c, l),
         l.holder = NoOne => handlers \subseteq {c}, l.holder # c,
         outcome[c] = "none", sent[c] < Retries
  PROVE  [Turn!Next]_(Turn!vars)
<1>1. CASE Enter(l, c).holder = c
  <2>1. l.holder = NoOne
    BY <1>1 DEF Enter
  <2> QED BY <1>1, <2>1, ExchangeTurn DEF AcquireThenExchange
<1>2. CASE Enter(l, c).holder # c
  BY <1>2, QueueTurn DEF AcquireThenExchange
<1> QED BY <1>1, <1>2

\* Every step of SendWait is a step of BusTurn or leaves its variables alone.
LEMMA NextTurn == BusInv /\ [Next]_vars => [Turn!Next]_(Turn!vars)
<1> SUFFICES ASSUME BusInv, [Next]_vars PROVE [Turn!Next]_(Turn!vars)
  OBVIOUS
<1>1. ASSUME NEW c \in Calls, Call(c) PROVE [Turn!Next]_(Turn!vars)
  <2>1. /\ pc[c] = "idle" /\ outcome[c] = "none" /\ sent[c] < Retries
        /\ lock \in Locks(Calls)
    BY <1>1 DEF Call, BusInv, TypeOK, CountInv
  <2>2. lock.holder # c
    BY <2>1 DEF BusInv, LockInv, Members, Active
  <2>3. lock.holder = NoOne => handlers \subseteq {c}
    BY DEF BusInv, TypeOK, LockInv
  <2>4. CASE connected
    BY <1>1, <2>1, <2>2, <2>3, <2>4, AcquireTurn DEF Call
  <2>5. CASE ~connected
    BY <1>1, <2>1, <2>5, FinishTurn DEF Call
  <2> QED BY <2>4, <2>5
<1>2. ASSUME NEW c \in Calls, Granted(c) PROVE [Turn!Next]_(Turn!vars)
  <2>1. /\ pc[c] = "acquiring" /\ outcome[c] = "none" /\ sent[c] < Retries
        /\ lock.holder = c /\ Exchange(c, lock)
    BY <1>2 DEF Granted, BusInv, TypeOK, CountInv
  <2>2. handlers \subseteq {c}
    BY <2>1 DEF BusInv, LockInv
  <2> QED BY <2>1, <2>2, ExchangeTurn
<1>3. ASSUME NEW c \in Calls, ReplyReceived(c) PROVE [Turn!Next]_(Turn!vars)
  <2>1. /\ outcome[c] = "none" /\ c \in handlers
        /\ Finish(c, "ok", Leave(lock))
    BY <1>3 DEF ReplyReceived, BusInv, CountInv, LockInv, Waiting
  <2> QED BY <2>1, FinishTurn
<1>4. ASSUME NEW c \in Calls, TimedOut(c) PROVE [Turn!Next]_(Turn!vars)
  <2>1. /\ pc[c] = "waiting" /\ outcome[c] = "none" /\ sent[c] = attempt[c]
        /\ attempt[c] \in 1..Retries
    BY <1>4 DEF TimedOut, BusInv, TypeOK, CountInv
  <2>2. handlers = {c} /\ Leave(lock) \in Locks(Calls)
        /\ Members(Leave(lock), Calls) = Active \ {c}
    BY <2>1, WaitingLeaves
  <2>3. CASE attempt[c] = Retries
    <3>1. Finish(c, "timeout", Leave(lock))
      BY <1>4, <2>3 DEF TimedOut
    <3> QED BY <2>1, <2>2, <2>3, <3>1, FinishTurn
  <2>4. CASE attempt[c] # Retries
    <3>1. AcquireThenExchange(c, Leave(lock)) /\ sent[c] < Retries
      BY <1>4, <2>1, <2>4 DEF TimedOut
    <3>2. Leave(lock).holder # c
      BY <2>2 DEF Members
    <3> QED BY <2>1, <2>2, <3>1, <3>2, AcquireTurn
  <2> QED BY <2>3, <2>4
<1>5. CASE HandleMessage \/ LinkStep \/ ConnectionLost \/ Reconnected \/ UNCHANGED vars
  BY <1>5 DEF HandleMessage, LinkStep, PanelAnswers, LoseRequest, LoseReply,
              ConnectionLost, Reconnected, vars, Turn!vars
<1> QED
  BY <1>1, <1>2, <1>3, <1>4, <1>5 DEF Next, CallStep

\* send_wait implements the abstract bus: exchanges never overlap, no request
\* is transmitted more than Retries times, a timeout is raised only when all
\* attempts are used up, and a reply is returned only by the call that waits.
THEOREM ImplementsBusTurn == Spec => TakesTurns
BY InitTurn, NextTurn, BusInvariant, PTL DEF Spec, TakesTurns, Turn!Spec

-----------------------------------------------------------------------------
(* Until an answer is late, every call gets the answer to its own request *)

\* Only the waiting call has a request or an answer under way, at most one of
\* them, and none once its future is done; an answer that reached the registry
\* is the result of the future of the call that asked.
PromptInv ==
  /\ Len(toPanel) + Len(fromPanel) <= 1
  /\ \A i \in 1..Len(toPanel) : toPanel[i] \in handlers
  /\ \A i \in 1..Len(fromPanel) : fromPanel[i] \in handlers
  /\ \A c \in handlers : future[c] # NoOne => ~InFlight
  /\ \A c \in Calls : future[c] \in {NoOne, c}
  /\ \A c \in Calls : outcome[c] = "ok" => future[c] = c
  /\ \A c \in delivered : future[c] = c
  /\ \A c \in Calls : future[c] = c => pc[c] = "waiting" \/ outcome[c] = "ok"

\* A call that ends after its own reply, or with nothing under way, keeps PromptInv.
LEMMA FinishPrompt ==
  ASSUME BusInv, PromptInv, NEW c \in Calls, NEW l,
         NEW o \in {"ok", "timeout", "connerr"}, Finish(c, o, l), Aside,
         future[c] = IF o = "ok" THEN c ELSE NoOne,
         c \in handlers => ~InFlight
  PROVE  PromptInv'
<1> USE DEF Aside
<1>1. /\ toPanel' = toPanel /\ fromPanel' = fromPanel /\ InFlight' = InFlight
      /\ future' = future /\ delivered' = delivered
      /\ handlers' = handlers \ {c}
      /\ pc' = [pc EXCEPT ![c] = "done"] /\ outcome' = [outcome EXCEPT ![c] = o]
  BY DEF Finish, InFlight
<1>2. /\ \A i \in 1..Len(toPanel) : toPanel[i] \in handlers'
      /\ \A i \in 1..Len(fromPanel) : fromPanel[i] \in handlers'
  BY <1>1 DEF PromptInv, InFlight
<1>3. /\ \A d \in Calls : outcome'[d] = "ok" => future[d] = d
      /\ \A d \in Calls : future[d] = d => pc'[d] = "waiting" \/ outcome'[d] = "ok"
  BY <1>1 DEF BusInv, TypeOK, PromptInv
<1> QED BY <1>1, <1>2, <1>3 DEF PromptInv

\* A call that waits for request_lock with nothing under way keeps PromptInv.
LEMMA QueuePrompt ==
  ASSUME BusInv, PromptInv, NEW c \in Calls, NEW l, Queue(c, l), Aside,
         future[c] = NoOne, c \in handlers => ~InFlight
  PROVE  PromptInv'
<1> USE DEF Aside
<1>1. /\ toPanel' = toPanel /\ fromPanel' = fromPanel /\ InFlight' = InFlight
      /\ future' = future /\ delivered' = delivered /\ outcome' = outcome
      /\ handlers' = handlers \ {c}
      /\ pc' = [pc EXCEPT ![c] = "acquiring"]
  BY DEF Queue, InFlight
<1>2. /\ \A i \in 1..Len(toPanel) : toPanel[i] \in handlers'
      /\ \A i \in 1..Len(fromPanel) : fromPanel[i] \in handlers'
  BY <1>1 DEF PromptInv, InFlight
<1>3. \A d \in Calls : future[d] = d => pc'[d] = "waiting" \/ outcome[d] = "ok"
  BY <1>1 DEF BusInv, TypeOK, PromptInv
<1> QED BY <1>1, <1>2, <1>3 DEF PromptInv

\* The request that is written is the only thing under way.
LEMMA ExchangePrompt ==
  ASSUME BusInv, PromptInv, NEW c \in Calls, NEW l, Exchange(c, l), Aside,
         handlers \subseteq {c}, ~InFlight, future[c] = NoOne
  PROVE  PromptInv'
<1>1. CASE connected
  <2> USE DEF Aside
  <2>1. toPanel = <<>> /\ fromPanel = <<>>
    BY DEF InFlight
  <2>2. /\ toPanel' = <<c>> /\ fromPanel' = <<>> /\ handlers' = {c}
        /\ future' = future /\ delivered' = delivered /\ outcome' = outcome
        /\ pc' = [pc EXCEPT ![c] = "waiting"]
    BY <1>1, <2>1 DEF Exchange
  <2>3. \A d \in Calls : future[d] = d => pc'[d] = "waiting" \/ outcome[d] = "ok"
    BY <2>2 DEF BusInv, TypeOK, PromptInv
  <2> QED BY <2>2, <2>3 DEF PromptInv
<1>2. CASE ~connected
  BY <1>2, FinishPrompt DEF Exchange
<1> QED BY <1>1, <1>2

\* "async with self.request_lock" with nothing under way keeps PromptInv.
LEMMA AcquirePrompt ==
  ASSUME BusInv, PromptInv, NEW c \in Calls, NEW l \in Locks(Calls),
         AcquireThenExchange(c, l), Aside, l.holder # c,
         l.holder = NoOne => handlers \subseteq {c} /\ ~InFlight,
         c \in handlers => ~InFlight, future[c] = NoOne
  PROVE  PromptInv'
<1>1. CASE Enter(l, c).holder = c
  <2>1. l.holder = NoOne
    BY <1>1 DEF Enter
  <2> QED BY <1>1, <2>1, ExchangePrompt DEF AcquireThenExchange
<1>2. CASE Enter(l, c).holder # c
  BY <1>2, QueuePrompt DEF AcquireThenExchange
<1> QED BY <1>1, <1>2

\* The empty sequence is the one of length zero.
LEMMA EmptyLength ==
  ASSUME NEW S, NEW s \in Seq(S)
  PROVE  Len(s) \in Nat /\ (s = <<>> <=> Len(s) = 0)
OBVIOUS

\* Two sequences with at most one element between them.
LEMMA OneUnderWay ==
  ASSUME NEW S, NEW s \in Seq(S), NEW t \in Seq(S), Len(s) + Len(t) <= 1, s # <<>>
  PROVE  Len(s) = 1 /\ t = <<>>
<1>1. Len(s) \in Nat /\ Len(s) # 0
  BY EmptyLength
<1>2. Len(t) \in Nat /\ (t = <<>> <=> Len(t) = 0)
  BY EmptyLength
<1>3. \A m, n \in Nat : m + n <= 1 /\ m # 0 => m = 1 /\ n = 0
  OBVIOUS
<1>4. Len(s) = 1 /\ Len(t) = 0
  BY <1>1, <1>2, <1>3, Zenon
<1> QED BY <1>2, <1>4, Zenon

\* Without a registered future nothing is under way.
LEMMA IdleBus ==
  ASSUME BusInv, PromptInv, handlers = {}
  PROVE  ~InFlight
<1>1. toPanel \in Seq(Calls) /\ fromPanel \in Seq(Calls)
  BY DEF BusInv, TypeOK
<1>2. Len(toPanel) = 0 /\ Len(fromPanel) = 0
  BY <1>1 DEF PromptInv
<1> QED BY <1>1, <1>2 DEF InFlight

\* A step after which no answer has been late keeps PromptInv.
LEMMA NextPrompt == ~late' /\ BusInv /\ PromptInv /\ [Next]_vars => PromptInv'
<1> SUFFICES ASSUME ~late', BusInv, PromptInv, [Next]_vars PROVE PromptInv'
  OBVIOUS
<1>1. ASSUME NEW c \in Calls, Call(c) PROVE PromptInv'
  <2>1. /\ Aside /\ pc[c] = "idle" /\ c \notin handlers /\ outcome[c] = "none"
        /\ lock \in Locks(Calls)
    BY <1>1 DEF Call, Aside, BusInv, TypeOK, LockInv, CountInv, Waiting
  <2>2. lock.holder # c
    BY <2>1 DEF BusInv, LockInv, Members, Active
  <2>3. future[c] = NoOne
    BY <2>1 DEF PromptInv
  <2>4. lock.holder = NoOne => handlers = {} /\ ~InFlight
    BY IdleBus DEF BusInv, TypeOK, LockInv
  <2>5. CASE connected
    BY <1>1, <2>1, <2>2, <2>3, <2>4, <2>5, AcquirePrompt DEF Call
  <2>6. CASE ~connected
    BY <1>1, <2>1, <2>3, <2>6, FinishPrompt DEF Call
  <2> QED BY <2>5, <2>6
<1>2. ASSUME NEW c \in Calls, Granted(c) PROVE PromptInv'
  <2>1. /\ Aside /\ pc[c] = "acquiring" /\ outcome[c] = "none"
        /\ lock.holder = c /\ Exchange(c, lock)
    BY <1>2 DEF Granted, Aside, BusInv, TypeOK, CountInv
  <2>2. handlers = {}
    BY <2>1 DEF BusInv, LockInv, Waiting
  <2>3. future[c] = NoOne
    BY <2>1 DEF PromptInv
  <2> QED BY <2>1, <2>2, <2>3, IdleBus, ExchangePrompt
<1>3. ASSUME NEW c \in Calls, ReplyReceived(c) PROVE PromptInv'
  <2>1. /\ Aside /\ c \in handlers /\ future[c] # NoOne
        /\ Finish(c, "ok", Leave(lock))
    BY <1>3 DEF ReplyReceived, Aside, BusInv, TypeOK, LockInv, Waiting
  <2>2. future[c] = c /\ ~InFlight
    BY <2>1 DEF PromptInv
  <2> QED BY <2>1, <2>2, FinishPrompt
<1>4. ASSUME NEW c \in Calls, TimedOut(c) PROVE PromptInv'
  <2>1. /\ Aside /\ pc[c] = "waiting" /\ future[c] = NoOne /\ ~InFlight
    BY <1>4 DEF TimedOut, Aside
  <2>2. handlers = {c} /\ Leave(lock) \in Locks(Calls)
        /\ Members(Leave(lock), Calls) = Active \ {c}
    BY <2>1, WaitingLeaves
  <2>3. CASE attempt[c] = Retries
    <3>1. Finish(c, "timeout", Leave(lock))
      BY <1>4, <2>3 DEF TimedOut
    <3> QED BY <2>1, <3>1, FinishPrompt
  <2>4. CASE attempt[c] # Retries
    <3>1. AcquireThenExchange(c, Leave(lock))
      BY <1>4, <2>4 DEF TimedOut
    <3>2. Leave(lock).holder # c
      BY <2>2 DEF Members
    <3> QED BY <2>1, <2>2, <3>1, <3>2, AcquirePrompt
  <2> QED BY <2>3, <2>4
<1>5. CASE HandleMessage
  <2> DEFINE m == Head(fromPanel)
  <2>1. /\ toPanel \in Seq(Calls) /\ fromPanel \in Seq(Calls) /\ fromPanel # <<>>
    BY <1>5 DEF HandleMessage, BusInv, TypeOK
  <2>2. Len(fromPanel) = 1 /\ toPanel = <<>> /\ m = fromPanel[1]
    <3>1. Len(fromPanel) + Len(toPanel) <= 1
      BY <2>1 DEF PromptInv
    <3>2. Len(fromPanel) = 1 /\ toPanel = <<>>
      BY <2>1, <3>1, OneUnderWay
    <3> QED BY <2>1, <3>2
  <2>3. m \in handlers /\ m \in Calls
    BY <2>1, <2>2 DEF PromptInv, BusInv, TypeOK
  <2>4. handlers = {m} /\ pc[m] = "waiting" /\ future[m] = NoOne
    <3> HIDE DEF m
    <3>1. pc[m] = "waiting" /\ \A c \in handlers : c = m
      BY <2>3 DEF BusInv, LockInv, Waiting
    <3>2. future[m] = NoOne
      BY <2>1, <2>3 DEF PromptInv, InFlight
    <3> QED BY <2>3, <3>1, <3>2
  <2>5. toPanel' = <<>> /\ fromPanel' = <<>> /\ ~InFlight'
    BY <1>5, <2>1, <2>2 DEF HandleMessage, InFlight
  <2>6. /\ handlers' = handlers /\ pc' = pc /\ outcome' = outcome
        /\ delivered' = delivered \cup {m}
        /\ future' = [c \in Calls |-> IF c = m THEN m ELSE future[c]]
    <3> HIDE DEF m
    <3>1. \A c \in Calls : (c \in handlers /\ future[c] = NoOne /\ m \in Accepts[c])
                            <=> c = m
      BY <2>3, <2>4
    <3> QED BY <1>5, <3>1 DEF HandleMessage, m
  <2> HIDE DEF m
  <2>7. \A c \in Calls : future'[c] = IF c = m THEN m ELSE future[c]
    BY <2>6
  <2>8. /\ \A c \in Calls : future'[c] \in {NoOne, c}
        /\ \A c \in Calls : outcome'[c] = "ok" => future'[c] = c
        /\ \A c \in delivered' : future'[c] = c
        /\ \A c \in Calls : future'[c] = c => pc'[c] = "waiting" \/ outcome'[c] = "ok"
    BY <2>3, <2>4, <2>6, <2>7 DEF PromptInv, BusInv, TypeOK
  <2> QED BY <2>5, <2>8 DEF PromptInv
<1>6. ASSUME UNCHANGED <<pc, handlers, future, outcome, delivered>>,
             Len(toPanel') + Len(fromPanel') <= 1,
             \A i \in 1..Len(toPanel') : toPanel'[i] \in handlers,
             \A i \in 1..Len(fromPanel') : fromPanel'[i] \in handlers,
             InFlight' => InFlight
      PROVE  PromptInv'
  BY <1>6 DEF PromptInv
<1>7. CASE LinkStep
  <2>1. /\ toPanel \in Seq(Calls) /\ fromPanel \in Seq(Calls)
    BY DEF BusInv, TypeOK
  <2>2. CASE PanelAnswers
    <3>1. toPanel # <<>> /\ Len(toPanel) + Len(fromPanel) <= 1
      BY <2>2 DEF PanelAnswers, PromptInv
    <3>2. Len(toPanel) = 1 /\ fromPanel = <<>>
      BY <2>1, <3>1, OneUnderWay
    <3>3. toPanel' = <<>> /\ fromPanel' = <<toPanel[1]>>
      BY <2>1, <2>2, <3>2 DEF PanelAnswers
    <3>4. toPanel[1] \in handlers
      BY <3>2 DEF PromptInv
    <3>5. InFlight
      BY <3>1 DEF InFlight
    <3>6. UNCHANGED <<pc, handlers, future, outcome, delivered>>
      BY <2>2 DEF PanelAnswers
    <3>7. /\ Len(toPanel') + Len(fromPanel') <= 1
          /\ \A i \in 1..Len(toPanel') : toPanel'[i] \in handlers
          /\ \A i \in 1..Len(fromPanel') : fromPanel'[i] \in handlers
      BY <3>3, <3>4
    <3> QED BY <1>6, <3>5, <3>6, <3>7
  <2>3. CASE LoseRequest
    <3>1. toPanel # <<>> /\ Len(toPanel) + Len(fromPanel) <= 1 /\ InFlight
      BY <2>3 DEF LoseRequest, PromptInv, InFlight
    <3>2. Len(toPanel) = 1 /\ fromPanel = <<>>
      BY <2>1, <3>1, OneUnderWay
    <3>3. toPanel' = <<>> /\ fromPanel' = <<>>
      BY <2>1, <2>3, <3>2 DEF LoseRequest
    <3>4. UNCHANGED <<pc, handlers, future, outcome, delivered>>
      BY <2>3 DEF LoseRequest
    <3> QED BY <1>6, <3>1, <3>3, <3>4
  <2>4. CASE LoseReply
    <3>1. fromPanel # <<>> /\ Len(toPanel) + Len(fromPanel) <= 1 /\ InFlight
      BY <2>4 DEF LoseReply, PromptInv, InFlight
    <3>2. Len(fromPanel) = 1 /\ toPanel = <<>>
      BY <2>1, <3>1, OneUnderWay
    <3>3. toPanel' = <<>> /\ fromPanel' = <<>>
      BY <2>1, <2>4, <3>2 DEF LoseReply
    <3>4. UNCHANGED <<pc, handlers, future, outcome, delivered>>
      BY <2>4 DEF LoseReply
    <3> QED BY <1>6, <3>1, <3>3, <3>4
  <2> QED BY <1>7, <2>2, <2>3, <2>4 DEF LinkStep
<1>8. CASE ConnectionLost
  <2>1. fromPanel \in Seq(Calls) /\ Len(fromPanel) \in Nat /\ Len(fromPanel) <= 1
    BY DEF BusInv, TypeOK, PromptInv
  <2>2. PICK n \in 0..Len(fromPanel) : fromPanel' = SubSeq(fromPanel, 1, n)
    BY <1>8 DEF ConnectionLost
  <2>3. n = 0 \/ n = Len(fromPanel)
    BY <2>1
  <2>4. fromPanel' = <<>> \/ fromPanel' = fromPanel
    BY <2>1, <2>2, <2>3
  <2>5. toPanel' = <<>>
    BY <1>8 DEF ConnectionLost
  <2>6. Len(fromPanel') <= 1 /\ \A i \in 1..Len(fromPanel') : fromPanel'[i] \in handlers
    BY <2>1, <2>4 DEF PromptInv
  <2> QED BY <1>6, <1>8, <2>1, <2>4, <2>5, <2>6 DEF ConnectionLost, InFlight
<1>9. CASE Reconnected \/ UNCHANGED vars
  <2>1. UNCHANGED <<pc, handlers, future, outcome, delivered, toPanel, fromPanel>>
    BY <1>9 DEF Reconnected, vars
  <2> QED BY <2>1 DEF PromptInv, InFlight
<1> QED
  BY <1>1, <1>2, <1>3, <1>4, <1>5, <1>7, <1>8, <1>9 DEF Next, CallStep

\* PromptInv holds in every reachable state in which no answer has been late.
LEMMA PromptInvariant == Spec => [](~late => PromptInv)
<1>1. Init => PromptInv
  BY DEF Init, PromptInv
<1>2. BusInv /\ (~late => PromptInv) /\ [Next]_vars => (~late => PromptInv)'
  <2> SUFFICES ASSUME BusInv, ~late => PromptInv, [Next]_vars, ~late' PROVE PromptInv'
    OBVIOUS
  <2>1. ~late
    BY DEF Next, CallStep, LinkStep, Call, Granted, ReplyReceived, TimedOut, HandleMessage,
       PanelAnswers, LoseRequest, LoseReply, ConnectionLost, Reconnected, vars, BusInv, TypeOK
  <2> QED BY <2>1, NextPrompt
<1> QED BY <1>1, <1>2, BusInvariant, PTL DEF Spec

\* As long as no reply was slower than the timeout, the reply a call returns is
\* the panel's answer to that call, although the check functions of send_wait
\* cannot tell the answers to two actions apart.
THEOREM RepliesMatchCalls == Spec => []OwnReply
<1>1. (~late => PromptInv) => OwnReply
  BY DEF PromptInv, OwnReply
<1> QED BY <1>1, PromptInvariant, PTL

\* As long as no reply was slower than the timeout, an answer that reached the
\* handler registry is never lost: its call does not end in a timeout or a
\* connection error.
THEOREM AnswersReachCallers == Spec => []NoAnswerLost
<1>1. BusInv /\ (~late => PromptInv) => NoAnswerLost
  BY DEF BusInv, TypeOK, PromptInv, NoAnswerLost
<1> QED BY <1>1, BusInvariant, PromptInvariant, PTL
==============================================================================
