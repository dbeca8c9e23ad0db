---------------------------- MODULE PollLoopProofs ----------------------------
(***************************************************************************)
(* The invariants of the poll loop, for any number of requests per poll,   *)
(* any commands, clients and number of attempts.                           *)
(*                                                                         *)
(* Everything rests on LocksKept: who belongs to request_lock and to busy  *)
(* is read off the places where the tasks are suspended.  On top of it,    *)
(* OrphansKept is the argument for the orphans of a failed poll: the queue *)
(* of request_lock is first come first served, so a request left over from *)
(* an earlier poll never has made fewer attempts than a request of the     *)
(* current poll, and has made more of them than the requests it waits for. *)
(* When a request of the current poll gives up, nobody older is left.      *)
(***************************************************************************)
EXTENDS PollLoop, AsyncLockProofs, FiniteSetTheorems

LockUsers == Requests \cup Clients

BusyUsers == Clients \cup {Main}

\* The requests and clients between acquire() and release() of request_lock.
AtLock == {u \in Requests : Live(u)} \cup
          {c \in Clients : clientPc[c] \in {"wantRequest", "wantBusy"}}

AtBusy == {c \in Clients : clientPc[c] = "wantBusy"} \cup
          (IF loopPc \in {"acquire", "created", "gather", "closing"} THEN {Main} ELSE {})

LocksKept ==
  /\ requestLock \in Locks(LockUsers) /\ InOrder(requestLock)
  /\ busy \in Locks(BusyUsers) /\ InOrder(busy)
  /\ Members(requestLock, LockUsers) = AtLock
  /\ Members(busy, BusyUsers) = AtBusy
  /\ \A u \in Requests : rq[u] = "waiting" => requestLock.holder = u
  /\ \A c \in Clients : clientPc[c] = "wantBusy" => requestLock.holder = c
  /\ loopPc \in {"created", "gather", "closing"} => busy.holder = Main

BoundsKept ==
  /\ missing > MaxMissing => loopPc \in {"closing", "returned", "raised"}
  /\ \A c \in Clients : clientPc[c] \in {"wantRequest", "wantBusy"} => passed[c] < MaxMessages
  /\ \A u \in Requests : ~Live(u) => attempt[u] = 1

RefreshKept ==
  refreshAsked /\ runState = "RUN" /\ loopPc # "acquire" => waitEvent

LivePoll == {u \in PollRequests : Live(u)}

Orphans == {u \in LivePoll : u[1] # generation}

OrphansKept ==
  \* one old poll at most has requests alive beside the current one,
  /\ \A u, v \in Orphans : u[1] = v[1]
  \* and no two polls between two rounds of the loop
  /\ loopPc \in {"start", "wait", "acquire"} => \A u, v \in LivePoll : u[1] = v[1]
  /\ loopPc = "created" => \A v \in RequestsOf(generation) : rq[v] = "idle"
  /\ \A u \in Orphans, v \in LivePoll \cap RequestsOf(generation) :
       /\ attempt[u] >= attempt[v]
       /\ Before(requestLock, v, u) => attempt[u] > attempt[v]
  /\ loopPc = "gather" /\ gathered = "timeout" => Orphans = {}
  /\ loopPc = "gather" /\ gathered = "ok" =>
       \A v \in RequestsOf(generation) : rq[v] = "ok"

Inv == TypeOK /\ LocksKept /\ BoundsKept /\ RefreshKept /\ OrphansKept

-----------------------------------------------------------------------------
(* Names *)

LEMMA RequestNames ==
  /\ \A u \in PollRequests : u \in Requests /\ u \notin Commands /\ u[1] \in Generations
  /\ \A u \in PollRequests, g \in Generations : u \in RequestsOf(g) <=> u[1] = g
  /\ \A g \in Generations : RequestsOf(g) \subseteq PollRequests
BY TasksAssumption DEF PollRequests, Requests, RequestsOf

LEMMA LockUserNames ==
  /\ NoOne \notin LockUsers /\ NoOne \notin BusyUsers
  /\ Main \notin Clients
  /\ \A u \in Requests : u \in LockUsers /\ u \notin Clients
  /\ \A c \in Clients : c \in LockUsers /\ c \notin Requests /\ c \in BusyUsers /\ c # Main
BY TasksAssumption DEF LockUsers, BusyUsers

\* A lock of the model is held by one of its users or by nobody.
LEMMA HolderTyped ==
  ASSUME NEW P, NEW l \in Locks(P)
  PROVE  l.holder \in P \cup {NoOne}
BY DEF Locks

-----------------------------------------------------------------------------
(* The steps of send_wait *)

\* The effect of a step of request u, in the three forms it can have: it ends, it
\* has the lock and transmits, or it asks for the lock again.
EndStep(u) ==
  \E o \in {"ok", "timeout", "connerr"} :
    /\ o = "timeout" => attempt[u] = Retries
    /\ End(u, o, Leave(requestLock))

TransmitStep(u) ==
  \E n \in 1..Retries :
    /\ \/ n = attempt[u]
       \/ n = attempt[u] + 1 /\ requestLock.waiters = <<>>
    /\ rq' = [rq EXCEPT ![u] = "waiting"]
    /\ attempt' = [attempt EXCEPT ![u] = n]
    /\ sentNow' \subseteq sentNow \cup {u}
    /\ UNCHANGED <<requestLock, gathered, refreshVars>>

QueueStep(u) ==
  /\ attempt[u] < Retries
  /\ requestLock.waiters # <<>>
  /\ Queue(u, attempt[u] + 1, Enter(Leave(requestLock), u))

\* Only the holder of request_lock takes a step, and its step has one of these
\* forms (Paradox.send_wait).
LEMMA RequestStepForms ==
  ASSUME TypeOK, LocksKept, NEW u \in Requests, RequestStep(u)
  PROVE  /\ Live(u) /\ requestLock.holder = u
         /\ EndStep(u) \/ TransmitStep(u) \/ QueueStep(u)
         /\ UNCHANGED <<loopVars, clientVars, linkVars>>
<1> DEFINE l == requestLock
<1>1. l \in Locks(LockUsers) /\ u # NoOne /\ attempt[u] \in 1..Retries /\ Retries \in Nat
  BY LockUserNames, RetriesAssumption DEF TypeOK, LocksKept
<1>2. CASE RequestGranted(u)
  <2>1. CASE connected
    BY <1>1, <1>2, <2>1 DEF RequestGranted, Transmit, TransmitStep, Live
  <2>2. CASE ~connected
    BY <1>2, <2>2 DEF RequestGranted, Transmit, EndStep, Live
  <2> QED BY <2>1, <2>2
<1>3. CASE Replied(u)
  BY <1>3 DEF Replied, EndStep, Live, LocksKept
<1>4. CASE TimedOut(u)
  <2> DEFINE r == Leave(l)
             n == Enter(r, u)
  <2>1. Live(u) /\ l.holder = u /\ UNCHANGED <<loopVars, clientVars, linkVars>>
    BY <1>4 DEF TimedOut, Live, LocksKept
  <2>2. CASE attempt[u] = Retries
    BY <1>4, <2>1, <2>2 DEF TimedOut, EndStep
  <2>3. CASE attempt[u] # Retries /\ l.waiters = <<>>
    <3>1. r = Unlocked /\ n = [holder |-> u, waiters |-> <<>>]
      BY <2>3 DEF Leave, Enter, Unlocked
    <3>2. n = l /\ n.holder = u
      BY <1>1, <2>1, <2>3, <3>1 DEF Locks
    <3>3. Transmit(u, attempt[u] + 1, l)
      BY <1>4, <2>3, <3>2 DEF TimedOut
    <3>4. attempt[u] + 1 \in 1..Retries
      BY <1>1, <2>3
    <3>5. CASE connected
      BY <2>1, <2>3, <3>3, <3>4, <3>5 DEF Transmit, TransmitStep
    <3>6. CASE ~connected
      BY <2>1, <3>3, <3>6 DEF Transmit, EndStep
    <3> QED BY <2>1, <3>5, <3>6
  <2>4. CASE attempt[u] # Retries /\ l.waiters # <<>>
    <3>1. r.holder \in LockUsers /\ r.holder = l.waiters[1]
      BY <1>1, <2>4 DEF Leave, Locks
    <3>2. l.waiters[1] # u
      BY <1>1, <2>1, <2>4 DEF Locks, LocksKept, InOrder
    <3>3. n.holder # u
      BY <3>1, <3>2, LockUserNames DEF Enter
    <3>4. Queue(u, attempt[u] + 1, n)
      BY <1>4, <2>4, <3>3 DEF TimedOut
    <3>5. attempt[u] < Retries
      BY <1>1, <2>4
    <3> QED BY <2>1, <2>4, <3>4, <3>5 DEF QueueStep
  <2> QED BY <2>2, <2>3, <2>4, <2>1
<1> QED BY <1>2, <1>3, <1>4 DEF RequestStep

\* The end of a request: it leaves request_lock, and the next waiter holds it.
LEMMA EndKeepsInv ==
  ASSUME Inv, NEW u \in Requests, Live(u), requestLock.holder = u, EndStep(u),
         UNCHANGED <<loopVars, clientVars, linkVars>>
  PROVE  Inv'
<1> USE DEF Inv
<1> DEFINE l == requestLock
<1>1. PICK o \in {"ok", "timeout", "connerr"} :
        /\ o = "timeout" => attempt[u] = Retries
        /\ End(u, o, Leave(l))
  BY DEF EndStep
<1>2. /\ rq' = [rq EXCEPT ![u] = IF u \in Commands THEN "idle" ELSE o]
      /\ attempt' = [attempt EXCEPT ![u] = 1]
      /\ requestLock' = Leave(l)
      /\ gathered' = Settle(u, o)
      /\ sentNow' = sentNow
      /\ UNCHANGED refreshVars \/ (waitEvent' = TRUE /\ refreshAsked' = TRUE)
  BY <1>1 DEF End, RequestStatusRefresh
<1>3. /\ UNCHANGED <<loopPc, generation, missing, runState, busy, clientPc, passed,
                     connected, panelAlive>>
  BY DEF loopVars, clientVars, linkVars
<1>4. l \in Locks(LockUsers) /\ InOrder(l) /\ u \in LockUsers /\ u # NoOne
  BY LockUserNames DEF LocksKept
<1>5. /\ Leave(l) \in Locks(LockUsers) /\ InOrder(Leave(l))
      /\ Members(Leave(l), LockUsers) = Members(l, LockUsers) \ {u}
  BY <1>4, LeaveInOrder, LockUserNames
<1>6. /\ \A v \in Requests : v # u => rq'[v] = rq[v] /\ attempt'[v] = attempt[v]
      /\ attempt'[u] = 1 /\ rq'[u] \in {"idle", "ok", "timeout", "connerr"}
      /\ u \notin Commands => rq'[u] = o
  BY <1>2 DEF TypeOK
<1>7. \A v \in Requests : Live(v)' <=> Live(v) /\ v # u
  BY <1>6 DEF Live
<1>8. TypeOK'
  <2>1. requestLock'.holder \in Requests \cup Clients \cup {NoOne}
    BY <1>2, <1>5, HolderTyped DEF LockUsers
  <2>2. gathered' \in {"pending", "ok", "timeout", "connerr"}
    BY <1>2 DEF Settle, TypeOK
  <2>3. attempt' \in [Requests -> 1..Retries]
    BY <1>2, RetriesAssumption DEF TypeOK
  <2>4. rq' \in [Requests -> {"idle", "acquiring", "waiting", "ok", "timeout", "connerr"}]
    BY <1>2 DEF TypeOK
  <2>5. waitEvent' \in BOOLEAN /\ refreshAsked' \in BOOLEAN
    BY <1>2 DEF TypeOK, refreshVars
  <2> QED BY <1>2, <1>3, <2>1, <2>2, <2>3, <2>4, <2>5 DEF TypeOK
<1>9. LocksKept'
  <2>1. AtLock' = AtLock \ {u}
    BY <1>3, <1>7, LockUserNames DEF AtLock
  <2>2. AtBusy' = AtBusy
    BY <1>3 DEF AtBusy
  <2>3. \A v \in Requests : rq'[v] # "waiting"
    BY <1>4, <1>6 DEF LocksKept
  <2>4. \A c \in Clients : clientPc[c] # "wantBusy"
    BY LockUserNames DEF LocksKept
  <2> QED BY <1>2, <1>3, <1>5, <2>1, <2>2, <2>3, <2>4 DEF LocksKept
<1>10. BoundsKept'
  BY <1>3, <1>6, <1>7 DEF BoundsKept
<1>11. RefreshKept'
  BY <1>2, <1>3 DEF RefreshKept, refreshVars
<1>12. OrphansKept'
  <2>1. LivePoll' = LivePoll \ {u} /\ Orphans' = Orphans \ {u}
    BY <1>3, <1>7, RequestNames DEF LivePoll, Orphans
  <2>2. RequestsOf(generation) \subseteq Requests /\ generation' = generation
        /\ RequestsOf(generation)' = RequestsOf(generation)
    BY <1>3, RequestNames DEF TypeOK, RequestsOf
  <2>3. \A v, w \in LockUsers : Before(Leave(l), v, w) => Before(l, v, w)
    BY <1>4, LeaveBefore, LockUserNames
  <2>4. \A v, w \in Orphans' : v[1] = w[1]
    BY <2>1 DEF OrphansKept
  <2>5. loopPc' \in {"start", "wait", "acquire"} => \A v, w \in LivePoll' : v[1] = w[1]
    BY <1>3, <2>1 DEF OrphansKept
  <2>6. loopPc' = "created" => \A v \in RequestsOf(generation) : rq'[v] = "idle"
    BY <1>3, <1>6, <2>2 DEF OrphansKept, Live
  <2>7. \A w \in Orphans', v \in LivePoll' \cap RequestsOf(generation) :
          /\ attempt'[w] >= attempt'[v]
          /\ Before(requestLock', v, w) => attempt'[w] > attempt'[v]
    <3> SUFFICES ASSUME NEW w \in Orphans', NEW v \in LivePoll' \cap RequestsOf(generation)
                 PROVE  /\ attempt'[w] >= attempt'[v]
                        /\ Before(requestLock', v, w) => attempt'[w] > attempt'[v]
      OBVIOUS
    <3>1. /\ w \in Orphans /\ v \in LivePoll \cap RequestsOf(generation)
          /\ w # u /\ v # u /\ w \in Requests /\ v \in Requests
          /\ w \in LockUsers /\ v \in LockUsers
      BY <2>1, RequestNames, LockUserNames DEF LivePoll, Orphans
    <3>2. attempt'[w] = attempt[w] /\ attempt'[v] = attempt[v]
      BY <1>6, <3>1
    <3>3. Before(requestLock', v, w) => Before(l, v, w)
      BY <1>2, <2>3, <3>1
    <3>4. attempt[w] >= attempt[v] /\ (Before(l, v, w) => attempt[w] > attempt[v])
      BY <3>1 DEF OrphansKept
    <3> QED BY <3>2, <3>3, <3>4
  <2>8. ASSUME loopPc' = "gather", gathered' = "timeout"
        PROVE  Orphans' = {}
    <3>1. CASE gathered = "timeout"
      BY <1>3, <2>1, <2>8, <3>1 DEF OrphansKept
    <3>2. CASE gathered # "timeout"
      <4>1. u \in RequestsOf(generation) /\ o = "timeout"
        BY <1>2, <2>8, <3>2 DEF Settle
      <4>2. attempt[u] = Retries /\ u \in LivePoll
        BY <1>1, <4>1, RequestNames DEF LivePoll, TypeOK
      <4>3. ASSUME NEW w \in Orphans
            PROVE  FALSE
        <5>1. w \in Requests /\ w \in LockUsers /\ Live(w) /\ w # u /\ attempt[w] \in 1..Retries
          BY <4>1, <4>3, RequestNames, LockUserNames DEF Orphans, LivePoll, TypeOK
        <5>2. w \in Members(l, LockUsers)
          BY <5>1 DEF LocksKept, AtLock
        <5>3. Before(l, u, w)
          BY <1>4, <5>1, <5>2, HolderFirst
        <5>4. attempt[w] > attempt[u]
          BY <4>1, <4>2, <5>3 DEF OrphansKept
        <5> QED BY <4>2, <5>1, <5>4, RetriesAssumption
      <4> QED BY <2>1, <4>3
    <3> QED BY <3>1, <3>2
  <2>9. ASSUME loopPc' = "gather", gathered' = "ok"
        PROVE  \A v \in RequestsOf(generation) : rq'[v] = "ok"
    <3>1. CASE gathered = "ok"
      <4>1. \A v \in RequestsOf(generation) : rq[v] = "ok" /\ v # u
        BY <1>3, <2>9, <3>1 DEF OrphansKept, Live
      <4> QED BY <1>6, <2>2, <4>1
    <3>2. CASE gathered # "ok"
      <4>1. /\ u \in RequestsOf(generation) /\ o = "ok"
            /\ \A v \in RequestsOf(generation) : v = u \/ rq[v] = "ok"
        BY <1>2, <2>9, <3>2 DEF Settle
      <4>2. u \notin Commands
        BY <4>1, RequestNames DEF TypeOK
      <4> QED BY <1>6, <2>2, <4>1, <4>2
    <3> QED BY <3>1, <3>2
  <2> QED BY <2>2, <2>4, <2>5, <2>6, <2>7, <2>8, <2>9 DEF OrphansKept
<1> QED BY <1>8, <1>9, <1>10, <1>11, <1>12

\* A transmission: the request keeps request_lock, and when it is one more
\* attempt nobody else was waiting.
LEMMA TransmitKeepsInv ==
  ASSUME Inv, NEW u \in Requests, Live(u), requestLock.holder = u, TransmitStep(u),
         UNCHANGED <<loopVars, clientVars, linkVars>>
  PROVE  Inv'
<1> USE DEF Inv
<1>1. PICK n \in 1..Retries :
        /\ \/ n = attempt[u]
           \/ n = attempt[u] + 1 /\ requestLock.waiters = <<>>
        /\ rq' = [rq EXCEPT ![u] = "waiting"]
        /\ attempt' = [attempt EXCEPT ![u] = n]
        /\ sentNow' \subseteq sentNow \cup {u}
        /\ UNCHANGED <<requestLock, gathered, refreshVars>>
  BY DEF TransmitStep
<1>2. UNCHANGED <<loopPc, generation, missing, runState, busy, clientPc, passed,
                  connected, panelAlive, requestLock, gathered, waitEvent, refreshAsked>>
  BY <1>1 DEF loopVars, clientVars, linkVars, refreshVars
<1>3. /\ \A v \in Requests : v # u => rq'[v] = rq[v] /\ attempt'[v] = attempt[v]
      /\ attempt'[u] = n /\ rq'[u] = "waiting"
  BY <1>1 DEF TypeOK
<1>4. \A v \in Requests : Live(v)' <=> Live(v)
  BY <1>3 DEF Live
<1>5. TypeOK'
  BY <1>1, <1>2 DEF TypeOK
<1>6. LocksKept'
  <2>1. AtLock' = AtLock /\ AtBusy' = AtBusy
    BY <1>2, <1>4 DEF AtLock, AtBusy
  <2> QED BY <1>2, <1>3, <2>1 DEF LocksKept
<1>7. BoundsKept'
  BY <1>2, <1>3, <1>4 DEF BoundsKept
<1>8. RefreshKept'
  BY <1>2 DEF RefreshKept
<1>9. OrphansKept'
  <2>1. LivePoll' = LivePoll /\ Orphans' = Orphans
    BY <1>2, <1>4, RequestNames DEF LivePoll, Orphans
  <2>2. RequestsOf(generation) \subseteq Requests
        /\ RequestsOf(generation)' = RequestsOf(generation)
    BY <1>2, RequestNames DEF TypeOK, RequestsOf
  <2>3. \A v \in RequestsOf(generation) :
          rq[v] \in {"idle", "ok"} => v # u /\ rq'[v] = rq[v]
    BY <1>3, <2>2 DEF Live
  <2>4. ASSUME NEW w \in Orphans, NEW v \in LivePoll \cap RequestsOf(generation)
        PROVE  attempt'[w] = attempt[w] /\ attempt'[v] = attempt[v]
    <3>1. w \in Requests /\ v \in Requests /\ w # v /\ Live(w) /\ Live(v)
          /\ w \in LockUsers /\ v \in LockUsers
      BY RequestNames, LockUserNames DEF LivePoll, Orphans, TypeOK
    <3>2. CASE n = attempt[u]
      BY <1>3, <3>1, <3>2
    <3>3. CASE requestLock.waiters = <<>>
      <4>1. Members(requestLock, LockUsers) \subseteq {u}
        BY <3>3 DEF Members
      <4>2. w \in AtLock /\ v \in AtLock
        BY <3>1 DEF AtLock
      <4> QED BY <3>1, <4>1, <4>2 DEF LocksKept
    <3> QED BY <1>1, <3>2, <3>3
  <2>5. \A w \in Orphans', v \in LivePoll' \cap RequestsOf(generation) :
          /\ attempt'[w] >= attempt'[v]
          /\ Before(requestLock', v, w) => attempt'[w] > attempt'[v]
    BY <1>2, <2>1, <2>4 DEF OrphansKept
  <2> QED BY <1>2, <2>1, <2>2, <2>3, <2>5 DEF OrphansKept
<1> QED BY <1>5, <1>6, <1>7, <1>8, <1>9

\* A request that asks for request_lock again is now behind everybody.
LEMMA QueueKeepsInv ==
  ASSUME Inv, NEW u \in Requests, Live(u), requestLock.holder = u, QueueStep(u),
         UNCHANGED <<loopVars, clientVars, linkVars>>
  PROVE  Inv'
<1> USE DEF Inv
<1> DEFINE l == requestLock
           r == Leave(l)
           k == Enter(r, u)
<1>1. /\ rq' = [rq EXCEPT ![u] = "acquiring"]
      /\ attempt' = [attempt EXCEPT ![u] = attempt[u] + 1]
      /\ requestLock' = k
      /\ attempt[u] < Retries /\ l.waiters # <<>>
  BY DEF QueueStep, Queue
<1>2. UNCHANGED <<loopPc, generation, missing, runState, busy, clientPc, passed,
                  connected, panelAlive, gathered, sentNow, waitEvent, refreshAsked>>
  BY DEF QueueStep, Queue, loopVars, clientVars, linkVars, refreshVars
<1>3. /\ \A v \in Requests : v # u => rq'[v] = rq[v] /\ attempt'[v] = attempt[v]
      /\ attempt'[u] = attempt[u] + 1 /\ rq'[u] = "acquiring"
  BY <1>1 DEF TypeOK
<1>4. \A v \in Requests : Live(v)' <=> Live(v)
  BY <1>3 DEF Live
<1>5. l \in Locks(LockUsers) /\ InOrder(l) /\ u \in LockUsers /\ u # NoOne
      /\ NoOne \notin LockUsers
  BY LockUserNames DEF LocksKept
<1>6. /\ r \in Locks(LockUsers) /\ InOrder(r)
      /\ Members(r, LockUsers) = Members(l, LockUsers) \ {u}
  BY <1>5, LeaveInOrder
<1>7. /\ k \in Locks(LockUsers) /\ InOrder(k)
      /\ Members(k, LockUsers) = Members(r, LockUsers) \cup {u}
  BY <1>5, <1>6, EnterInOrder
<1>8. u \in Members(l, LockUsers)
  BY <1>5 DEF LocksKept, AtLock
<1>9. TypeOK'
  <2>1. requestLock'.holder \in Requests \cup Clients \cup {NoOne}
    BY <1>1, <1>7, HolderTyped DEF LockUsers
  <2>2. attempt' \in [Requests -> 1..Retries]
    BY <1>1, RetriesAssumption DEF TypeOK
  <2>3. rq' \in [Requests -> {"idle", "acquiring", "waiting", "ok", "timeout", "connerr"}]
    BY <1>1 DEF TypeOK
  <2> QED BY <1>2, <2>1, <2>2, <2>3 DEF TypeOK
<1>10. LocksKept'
  <2>1. AtLock' = AtLock /\ AtBusy' = AtBusy
    BY <1>2, <1>4 DEF AtLock, AtBusy
  <2>2. \A v \in Requests : rq'[v] # "waiting"
    BY <1>3 DEF LocksKept
  <2>3. \A c \in Clients : clientPc[c] # "wantBusy"
    BY LockUserNames DEF LocksKept
  <2> QED BY <1>1, <1>2, <1>6, <1>7, <1>8, <2>1, <2>2, <2>3 DEF LocksKept
<1>11. BoundsKept'
  BY <1>2, <1>3, <1>4 DEF BoundsKept
<1>12. RefreshKept'
  BY <1>2 DEF RefreshKept
<1>13. OrphansKept'
  <2>1. LivePoll' = LivePoll /\ Orphans' = Orphans
    BY <1>2, <1>4, RequestNames DEF LivePoll, Orphans
  <2>2. RequestsOf(generation) \subseteq Requests
        /\ RequestsOf(generation)' = RequestsOf(generation)
    BY <1>2, RequestNames DEF TypeOK, RequestsOf
  <2>3. \A v \in RequestsOf(generation) :
          rq[v] \in {"idle", "ok"} => v # u /\ rq'[v] = rq[v]
    BY <1>3, <2>2 DEF Live
  <2>4. ASSUME NEW w \in Orphans, NEW v \in LivePoll \cap RequestsOf(generation)
        PROVE  /\ attempt'[w] >= attempt'[v]
               /\ Before(requestLock', v, w) => attempt'[w] > attempt'[v]
    <3>1. /\ w \in Requests /\ v \in Requests /\ w # v /\ Live(w)
          /\ w \in LockUsers /\ v \in LockUsers
          /\ attempt[w] \in Nat /\ attempt[v] \in Nat
      BY RequestNames, LockUserNames DEF LivePoll, Orphans, TypeOK
    <3>2. attempt[w] >= attempt[v] /\ (Before(l, v, w) => attempt[w] > attempt[v])
      BY DEF OrphansKept
    <3>3. Before(k, v, w) <=> (Before(l, v, w) /\ v # u)
                              \/ (w = u /\ v \in Members(r, LockUsers))
      <4>1. u \notin Members(r, LockUsers)
        BY <1>6
      <4>2. Before(k, v, w) <=> Before(r, v, w) \/ (w = u /\ v \in Members(r, LockUsers))
        BY <1>5, <1>6, <3>1, <4>1, EnterBefore
      <4>3. Before(r, v, w) <=> Before(l, v, w) /\ v # u
        BY <1>5, <3>1, LeaveBefore
      <4> QED BY <4>2, <4>3
    <3>4. CASE w = u
      BY <1>3, <3>1, <3>2, <3>4
    <3>5. CASE v = u
      <4>1. w \in Members(l, LockUsers)
        BY <3>1 DEF LocksKept, AtLock
      <4>2. Before(l, v, w)
        BY <1>5, <3>1, <3>5, <4>1, HolderFirst
      <4>3. attempt'[w] >= attempt'[v]
        BY <1>3, <3>1, <3>2, <3>5, <4>2
      <4> QED BY <1>1, <3>1, <3>3, <3>5, <4>3
    <3>6. CASE w # u /\ v # u
      BY <1>1, <1>3, <3>1, <3>2, <3>3, <3>6
    <3> QED BY <3>4, <3>5, <3>6
  <2> QED BY <1>2, <2>1, <2>2, <2>3, <2>4 DEF OrphansKept
<1> QED BY <1>9, <1>10, <1>11, <1>12, <1>13

-----------------------------------------------------------------------------
(* Commands and clients *)

\* What the poll loop's requests owe each other is not disturbed by others who
\* come to request_lock or leave it.
LEMMA OrphansUndisturbed ==
  ASSUME TypeOK, OrphansKept, UNCHANGED <<loopPc, generation, gathered>>,
         \A u \in PollRequests : rq'[u] = rq[u] /\ attempt'[u] = attempt[u],
         \A v, w \in PollRequests : Before(requestLock', v, w) => Before(requestLock, v, w)
  PROVE  OrphansKept'
<1>1. LivePoll' = LivePoll /\ Orphans' = Orphans
  BY DEF LivePoll, Orphans, Live
<1>2. RequestsOf(generation) \subseteq PollRequests
      /\ RequestsOf(generation)' = RequestsOf(generation)
  BY RequestNames DEF TypeOK, RequestsOf
<1>3. Orphans \subseteq PollRequests /\ LivePoll \subseteq PollRequests
  BY DEF Orphans, LivePoll
<1>4. \A w \in Orphans', v \in LivePoll' \cap RequestsOf(generation) :
        /\ attempt'[w] >= attempt'[v]
        /\ Before(requestLock', v, w) => attempt'[w] > attempt'[v]
  BY <1>1, <1>3 DEF OrphansKept
<1> QED BY <1>1, <1>2, <1>4 DEF OrphansKept

\* A command that comes to request_lock waits behind those who are there.
LEMMA CommandKeepsInv ==
  ASSUME Inv, NEW k \in Commands, CommandGiven(k)
  PROVE  Inv'
<1> USE DEF Inv
<1> DEFINE l == requestLock
           e == Enter(l, k)
<1>1. /\ rq[k] = "idle"
      /\ requestLock' = e
      /\ rq' = [rq EXCEPT ![k] = Begun(k, e)]
      /\ sentNow' \subseteq sentNow \cup {k}
      /\ UNCHANGED <<attempt, gathered, loopVars, clientVars, refreshVars, linkVars>>
  BY DEF CommandGiven
<1>2. UNCHANGED <<loopPc, generation, missing, runState, busy, clientPc, passed, attempt,
                  connected, panelAlive, gathered, waitEvent, refreshAsked>>
  BY <1>1 DEF loopVars, clientVars, linkVars, refreshVars
<1>3. k \in Requests /\ k \in LockUsers /\ k # NoOne /\ k \notin PollRequests
      /\ NoOne \notin LockUsers
  BY LockUserNames, RequestNames DEF Requests
<1>4. /\ \A v \in Requests : v # k => rq'[v] = rq[v]
      /\ rq'[k] = Begun(k, e) /\ rq'[k] \in {"waiting", "acquiring"}
      /\ ~Live(k)
  BY <1>1, <1>3 DEF TypeOK, Begun, Live
<1>5. \A v \in Requests : Live(v)' <=> Live(v) \/ v = k
  BY <1>4 DEF Live
<1>6. l \in Locks(LockUsers) /\ InOrder(l) /\ k \notin Members(l, LockUsers)
  BY <1>3, <1>4, LockUserNames DEF LocksKept, AtLock
<1>7. /\ e \in Locks(LockUsers) /\ InOrder(e)
      /\ Members(e, LockUsers) = Members(l, LockUsers) \cup {k}
      /\ e.holder = IF l.holder = NoOne THEN k ELSE l.holder
  BY <1>3, <1>6, EnterInOrder
<1>8. TypeOK'
  <2>1. requestLock'.holder \in Requests \cup Clients \cup {NoOne}
    BY <1>1, <1>7, HolderTyped DEF LockUsers
  <2> QED BY <1>1, <1>2, <1>3, <1>4, <2>1 DEF TypeOK
<1>9. LocksKept'
  <2>1. AtLock' = AtLock \cup {k} /\ AtBusy' = AtBusy
    BY <1>2, <1>3, <1>5 DEF AtLock, AtBusy
  <2>2. \A v \in Requests : rq'[v] = "waiting" => e.holder = v
    <3>1. rq'[k] = "waiting" => e.holder = k
      BY <1>4 DEF Begun
    <3>2. \A v \in Requests : v # k /\ rq'[v] = "waiting" => l.holder = v
      BY <1>4 DEF LocksKept
    <3>3. NoOne \notin Requests
      BY LockUserNames
    <3> QED BY <1>7, <3>1, <3>2, <3>3
  <2>3. \A c \in Clients : clientPc[c] = "wantBusy" => e.holder = c
    <3>1. NoOne \notin Clients
      BY LockUserNames
    <3> QED BY <1>7, <3>1 DEF LocksKept
  <2> QED BY <1>1, <1>2, <1>7, <2>1, <2>2, <2>3 DEF LocksKept
<1>10. BoundsKept' /\ RefreshKept'
  BY <1>2, <1>5 DEF BoundsKept, RefreshKept
<1>11. OrphansKept'
  <2>1. \A v, w \in PollRequests : Before(e, v, w) => Before(l, v, w)
    <3> SUFFICES ASSUME NEW v \in PollRequests, NEW w \in PollRequests, Before(e, v, w)
                 PROVE  Before(l, v, w)
      OBVIOUS
    <3>1. v \in LockUsers /\ w \in LockUsers /\ w # k
      BY <1>3, RequestNames, LockUserNames
    <3> QED BY <1>3, <1>6, <3>1, EnterBefore
  <2>2. \A u \in PollRequests : rq'[u] = rq[u] /\ attempt'[u] = attempt[u]
    BY <1>2, <1>3, <1>4, RequestNames
  <2> QED BY <1>1, <1>2, <2>1, <2>2, OrphansUndisturbed
<1> QED BY <1>8, <1>9, <1>10, <1>11

\* What a client's step changes: nothing that belongs to the polls or the requests.
ClientFrame == UNCHANGED <<loopPc, generation, missing, runState, rq, attempt, sentNow,
                           gathered, waitEvent, refreshAsked, connected, panelAlive>>

\* It writes its message, which it does only with both locks,
ClientPasses(c) ==
  /\ clientPc[c] \in {"in", "wantRequest", "wantBusy"}
  /\ passed[c] < MaxMessages
  /\ \/ clientPc[c] = "in" /\ requestLock.holder = NoOne /\ UNCHANGED requestLock
     \/ clientPc[c] # "in" /\ requestLock.holder = c /\ requestLock' = Leave(requestLock)
  /\ \/ clientPc[c] # "wantBusy" /\ busy.holder = NoOne /\ UNCHANGED busy
     \/ clientPc[c] = "wantBusy" /\ busy.holder = c /\ busy' = Leave(busy)
  /\ \E pc \in {"in", "gone"} : clientPc' = [clientPc EXCEPT ![c] = pc]
  /\ passed' = passed \/ passed' = [passed EXCEPT ![c] = @ + 1]

\* or it waits for request_lock,
ClientWaits(c) ==
  /\ clientPc[c] = "in"
  /\ passed[c] < MaxMessages
  /\ clientPc' = [clientPc EXCEPT ![c] = "wantRequest"]
  /\ requestLock' = Enter(requestLock, c)
  /\ UNCHANGED <<busy, passed>>

\* or for busy.
ClientWaitsBusy(c) ==
  /\ passed[c] < MaxMessages
  /\ \/ clientPc[c] = "in" /\ requestLock.holder = NoOne
        /\ requestLock' = Enter(requestLock, c)
     \/ clientPc[c] = "wantRequest" /\ requestLock.holder = c /\ UNCHANGED requestLock
  /\ clientPc' = [clientPc EXCEPT ![c] = "wantBusy"]
  /\ busy' = Enter(busy, c)
  /\ UNCHANGED passed

\* Nobody waits for a free lock, so that a task that takes one and leaves it again
\* leaves it as it was.
LEMMA EnterAndLeaveFree ==
  ASSUME NEW P, NEW l \in Locks(P), InOrder(l), l.holder = NoOne, NEW p
  PROVE  Leave(Enter(l, p)) = l
BY DEF Locks, InOrder, Enter, Leave, Unlocked

\* Every step of a client's message has one of these forms
\* (ClientConnection._handle_passthrough).
LEMMA ClientStepForms ==
  ASSUME Inv, NEW c \in Clients, ClientMessage(c) \/ ClientStep(c)
  PROVE  ClientFrame /\ (ClientPasses(c) \/ ClientWaits(c) \/ ClientWaitsBusy(c))
<1> USE DEF Inv
<1>0. requestLock \in Locks(LockUsers) /\ InOrder(requestLock)
      /\ busy \in Locks(BusyUsers) /\ InOrder(busy)
  BY DEF LocksKept
<1>1. CASE ClientMessage(c)
  <2>1. clientPc[c] = "in" /\ passed[c] < MaxMessages /\ ClientFrame
    BY <1>1 DEF ClientMessage, ClientFrame, refreshVars, linkVars
  <2>2. CASE requestLock.holder = NoOne
    <3>1. TakeBusy(c, Enter(requestLock, c))
      BY <1>1, <2>2 DEF ClientMessage
    <3>2. CASE busy.holder = NoOne
      <4>1. PassThrough(c, Enter(requestLock, c), Enter(busy, c))
        BY <3>1, <3>2 DEF TakeBusy
      <4>2. requestLock' = requestLock /\ busy' = busy
        BY <1>0, <2>2, <3>2, <4>1, EnterAndLeaveFree DEF PassThrough
      <4> QED BY <2>1, <2>2, <3>2, <4>1, <4>2 DEF PassThrough, ClientPasses
    <3>3. CASE busy.holder # NoOne
      BY <2>1, <2>2, <3>1, <3>3 DEF TakeBusy, ClientWaitsBusy
    <3> QED BY <3>2, <3>3
  <2>3. CASE requestLock.holder # NoOne
    BY <1>1, <2>1, <2>3 DEF ClientMessage, ClientWaits
  <2> QED BY <2>2, <2>3
<1>2. CASE ClientGetsRequestLock(c)
  <2>1. clientPc[c] = "wantRequest" /\ requestLock.holder = c /\ passed[c] < MaxMessages
        /\ ClientFrame /\ TakeBusy(c, requestLock)
    BY <1>2 DEF ClientGetsRequestLock, ClientFrame, refreshVars, linkVars, BoundsKept
  <2>2. CASE busy.holder = NoOne
    <3>1. PassThrough(c, requestLock, Enter(busy, c))
      BY <2>1, <2>2 DEF TakeBusy
    <3>2. busy' = busy
      BY <1>0, <2>2, <3>1, EnterAndLeaveFree DEF PassThrough
    <3> QED BY <2>1, <2>2, <3>1, <3>2 DEF PassThrough, ClientPasses
  <2>3. CASE busy.holder # NoOne
    BY <2>1, <2>3 DEF TakeBusy, ClientWaitsBusy
  <2> QED BY <2>2, <2>3
<1>3. CASE ClientGetsBusy(c)
  BY <1>3 DEF ClientGetsBusy, PassThrough, ClientPasses, ClientFrame, refreshVars, linkVars,
              BoundsKept, LocksKept
<1> QED BY <1>1, <1>2, <1>3 DEF ClientStep

\* A client's step disturbs neither the polls nor the refreshes.
LEMMA ClientFrameKeeps ==
  ASSUME Inv, ClientFrame,
         \A v, w \in PollRequests : Before(requestLock', v, w) => Before(requestLock, v, w)
  PROVE  RefreshKept' /\ OrphansKept'
<1> USE DEF Inv
<1>1. RefreshKept'
  BY DEF ClientFrame, RefreshKept
<1>2. OrphansKept'
  <2>1. UNCHANGED <<loopPc, generation, gathered>>
        /\ \A u \in PollRequests : rq'[u] = rq[u] /\ attempt'[u] = attempt[u]
    BY DEF ClientFrame
  <2> QED BY <2>1, OrphansUndisturbed
<1> QED BY <1>1, <1>2

LEMMA ClientPassesKeepsInv ==
  ASSUME Inv, NEW c \in Clients, ClientFrame, ClientPasses(c)
  PROVE  Inv'
<1> USE DEF Inv
<1> DEFINE l == requestLock
<1>1. /\ l \in Locks(LockUsers) /\ InOrder(l) /\ busy \in Locks(BusyUsers) /\ InOrder(busy)
      /\ NoOne \notin LockUsers /\ NoOne \notin BusyUsers
      /\ c \in LockUsers /\ c \in BusyUsers /\ c # NoOne /\ c # Main /\ c \notin Requests
  BY LockUserNames DEF LocksKept
<1>2. PICK pc \in {"in", "gone"} : clientPc' = [clientPc EXCEPT ![c] = pc]
  BY DEF ClientPasses
<1>3. clientPc'[c] = pc /\ \A d \in Clients : d # c => clientPc'[d] = clientPc[d]
  BY <1>2 DEF TypeOK
<1>4. /\ requestLock' \in Locks(LockUsers) /\ InOrder(requestLock')
      /\ Members(requestLock', LockUsers) = Members(l, LockUsers) \ {c}
      /\ \A v, w \in PollRequests : Before(requestLock', v, w) => Before(l, v, w)
      /\ requestLock' = l \/ l.holder = c
  <2>1. CASE clientPc[c] = "in" /\ UNCHANGED requestLock
    BY <1>1, <2>1 DEF LocksKept, AtLock
  <2>2. CASE l.holder = c /\ requestLock' = Leave(l)
    <3>1. \A v, w \in PollRequests : Before(Leave(l), v, w) => Before(l, v, w)
      BY <1>1, <2>2, LeaveBefore, RequestNames, LockUserNames
    <3> QED BY <1>1, <2>2, <3>1, LeaveInOrder
  <2> QED BY <2>1, <2>2 DEF ClientPasses
<1>5. /\ busy' \in Locks(BusyUsers) /\ InOrder(busy')
      /\ Members(busy', BusyUsers) = Members(busy, BusyUsers) \ {c}
      /\ loopPc \notin {"created", "gather", "closing"}
  <2>1. CASE clientPc[c] # "wantBusy" /\ busy.holder = NoOne /\ UNCHANGED busy
    <3>1. c \notin AtBusy
      BY <1>1, <2>1 DEF AtBusy
    <3> QED BY <1>1, <2>1, <3>1 DEF LocksKept, BusyUsers
  <2>2. CASE busy.holder = c /\ busy' = Leave(busy)
    BY <1>1, <2>2, LeaveInOrder DEF LocksKept
  <2> QED BY <2>1, <2>2 DEF ClientPasses
<1>6. \A v \in Requests : rq[v] # "waiting"
  BY <1>1, LockUserNames DEF LocksKept, ClientPasses
<1>7. \A d \in Clients : d # c => clientPc[d] # "wantBusy"
  BY <1>1, LockUserNames DEF LocksKept, ClientPasses
<1>8. TypeOK'
  <2>1. requestLock'.holder \in Requests \cup Clients \cup {NoOne}
    BY <1>4, HolderTyped DEF LockUsers
  <2>2. busy'.holder \in Clients \cup {Main, NoOne}
    BY <1>5, HolderTyped DEF BusyUsers
  <2>3. clientPc' \in [Clients -> {"out", "in", "wantRequest", "wantBusy", "gone"}]
    BY <1>2 DEF TypeOK
  <2>4. passed' \in [Clients -> 0..MaxMessages]
    <3>1. passed[c] + 1 \in 0..MaxMessages
      BY MaxMessagesAssumption DEF ClientPasses, TypeOK
    <3> QED BY <3>1 DEF ClientPasses, TypeOK
  <2> QED BY <2>1, <2>2, <2>3, <2>4 DEF ClientFrame, TypeOK
<1>9. LocksKept'
  <2>1. AtLock' = AtLock \ {c}
    BY <1>1, <1>3 DEF AtLock, ClientFrame, Live
  <2>2. AtBusy' = AtBusy \ {c}
    BY <1>1, <1>3 DEF AtBusy, ClientFrame
  <2>3. \A d \in Clients : clientPc'[d] # "wantBusy"
    BY <1>3, <1>7
  <2>4. rq' = rq /\ loopPc' = loopPc
    BY DEF ClientFrame
  <2> QED BY <1>4, <1>5, <1>6, <2>1, <2>2, <2>3, <2>4 DEF LocksKept
<1>10. BoundsKept'
  <2>1. \A d \in Clients : d # c => passed'[d] = passed[d]
    BY DEF ClientPasses, TypeOK
  <2> QED BY <1>3, <2>1 DEF BoundsKept, ClientFrame, Live
<1> QED BY <1>4, <1>8, <1>9, <1>10, ClientFrameKeeps

LEMMA ClientWaitsKeepsInv ==
  ASSUME Inv, NEW c \in Clients, ClientFrame, ClientWaits(c)
  PROVE  Inv'
<1> USE DEF Inv
<1> DEFINE l == requestLock
           e == Enter(l, c)
<1>1. /\ l \in Locks(LockUsers) /\ InOrder(l) /\ NoOne \notin LockUsers
      /\ c \in LockUsers /\ c # NoOne /\ c \notin Requests
  BY LockUserNames DEF LocksKept
<1>2. clientPc'[c] = "wantRequest" /\ \A d \in Clients : d # c => clientPc'[d] = clientPc[d]
  BY DEF TypeOK, ClientWaits
<1>3. c \notin Members(l, LockUsers)
  BY <1>1 DEF LocksKept, AtLock, ClientWaits
<1>4. /\ e \in Locks(LockUsers) /\ InOrder(e)
      /\ Members(e, LockUsers) = Members(l, LockUsers) \cup {c}
      /\ e.holder = IF l.holder = NoOne THEN c ELSE l.holder
  BY <1>1, <1>3, EnterInOrder
<1>5. \A v, w \in PollRequests : Before(e, v, w) => Before(l, v, w)
  <2> SUFFICES ASSUME NEW v \in PollRequests, NEW w \in PollRequests, Before(e, v, w)
               PROVE  Before(l, v, w)
    OBVIOUS
  <2>1. v \in LockUsers /\ w \in LockUsers /\ w # c
    BY <1>1, RequestNames, LockUserNames
  <2> QED BY <1>1, <1>3, <2>1, EnterBefore
<1>6. requestLock' = e /\ busy' = busy /\ passed' = passed
  BY DEF ClientWaits
<1>7. TypeOK'
  <2>1. requestLock'.holder \in Requests \cup Clients \cup {NoOne}
    BY <1>4, <1>6, HolderTyped DEF LockUsers
  <2>2. clientPc' \in [Clients -> {"out", "in", "wantRequest", "wantBusy", "gone"}]
    BY DEF TypeOK, ClientWaits
  <2> QED BY <1>6, <2>1, <2>2 DEF ClientFrame, TypeOK
<1>8. LocksKept'
  <2>1. AtLock' = AtLock \cup {c}
    BY <1>1, <1>2 DEF AtLock, ClientFrame, Live
  <2>2. AtBusy' = AtBusy
    BY <1>2 DEF AtBusy, ClientFrame, ClientWaits
  <2>3. \A v \in Requests : rq'[v] = "waiting" => e.holder = v
    BY <1>4, LockUserNames DEF LocksKept, ClientFrame
  <2>4. \A d \in Clients : clientPc'[d] = "wantBusy" => e.holder = d
    BY <1>2, <1>4, LockUserNames DEF LocksKept
  <2>5. loopPc' = loopPc
    BY DEF ClientFrame
  <2> QED BY <1>4, <1>6, <2>1, <2>2, <2>3, <2>4, <2>5 DEF LocksKept
<1>9. BoundsKept'
  BY <1>2 DEF BoundsKept, ClientFrame, ClientWaits, Live
<1> QED BY <1>5, <1>6, <1>7, <1>8, <1>9, ClientFrameKeeps

LEMMA ClientWaitsBusyKeepsInv ==
  ASSUME Inv, NEW c \in Clients, ClientFrame, ClientWaitsBusy(c)
  PROVE  Inv'
<1> USE DEF Inv
<1> DEFINE l == requestLock
           b == Enter(busy, c)
<1>1. /\ l \in Locks(LockUsers) /\ InOrder(l) /\ busy \in Locks(BusyUsers) /\ InOrder(busy)
      /\ NoOne \notin LockUsers /\ NoOne \notin BusyUsers
      /\ c \in LockUsers /\ c \in BusyUsers /\ c # NoOne /\ c # Main /\ c \notin Requests
  BY LockUserNames DEF LocksKept
<1>2. clientPc'[c] = "wantBusy" /\ \A d \in Clients : d # c => clientPc'[d] = clientPc[d]
  BY DEF TypeOK, ClientWaitsBusy
<1>3. /\ requestLock' \in Locks(LockUsers) /\ InOrder(requestLock')
      /\ Members(requestLock', LockUsers) = Members(l, LockUsers) \cup {c}
      /\ requestLock'.holder = c /\ l.holder \in {c, NoOne}
      /\ \A v, w \in PollRequests : Before(requestLock', v, w) => Before(l, v, w)
  <2>1. CASE /\ clientPc[c] = "in" /\ l.holder = NoOne
             /\ requestLock' = Enter(l, c)
    <3>1. c \notin Members(l, LockUsers)
      BY <1>1, <2>1 DEF LocksKept, AtLock
    <3>2. \A v, w \in PollRequests : Before(Enter(l, c), v, w) => Before(l, v, w)
      <4> SUFFICES ASSUME NEW v \in PollRequests, NEW w \in PollRequests,
                          Before(Enter(l, c), v, w)
                   PROVE  Before(l, v, w)
        OBVIOUS
      <4>1. v \in LockUsers /\ w \in LockUsers /\ w # c
        BY <1>1, RequestNames, LockUserNames
      <4> QED BY <1>1, <3>1, <4>1, EnterBefore
    <3>3. /\ Enter(l, c) \in Locks(LockUsers) /\ InOrder(Enter(l, c))
          /\ Members(Enter(l, c), LockUsers) = Members(l, LockUsers) \cup {c}
          /\ Enter(l, c).holder = c
      BY <1>1, <2>1, <3>1, EnterInOrder
    <3> QED BY <2>1, <3>2, <3>3
  <2>2. CASE clientPc[c] = "wantRequest" /\ l.holder = c /\ UNCHANGED requestLock
    <3>1. c \in Members(l, LockUsers)
      BY <1>1, <2>2 DEF LocksKept, AtLock
    <3> QED BY <1>1, <2>2, <3>1
  <2> QED BY <2>1, <2>2 DEF ClientWaitsBusy
<1>4. c \notin Members(busy, BusyUsers)
  <2>1. clientPc[c] # "wantBusy"
    BY DEF ClientWaitsBusy
  <2> QED BY <1>1, <2>1 DEF LocksKept, AtBusy
<1>5. /\ b \in Locks(BusyUsers) /\ InOrder(b)
      /\ Members(b, BusyUsers) = Members(busy, BusyUsers) \cup {c}
      /\ b.holder = IF busy.holder = NoOne THEN c ELSE busy.holder
  BY <1>1, <1>4, EnterInOrder
<1>6. busy' = b /\ passed' = passed
  BY DEF ClientWaitsBusy
<1>7. TypeOK'
  <2>1. requestLock'.holder \in Requests \cup Clients \cup {NoOne}
    BY <1>3, HolderTyped DEF LockUsers
  <2>2. busy'.holder \in Clients \cup {Main, NoOne}
    BY <1>5, <1>6, HolderTyped DEF BusyUsers
  <2>3. clientPc' \in [Clients -> {"out", "in", "wantRequest", "wantBusy", "gone"}]
    BY DEF TypeOK, ClientWaitsBusy
  <2> QED BY <1>6, <2>1, <2>2, <2>3 DEF ClientFrame, TypeOK
<1>8. LocksKept'
  <2>1. AtLock' = AtLock \cup {c}
    BY <1>1, <1>2 DEF AtLock, ClientFrame, Live
  <2>2. AtBusy' = AtBusy \cup {c}
    BY <1>1, <1>2 DEF AtBusy, ClientFrame
  <2>3. \A v \in Requests : rq'[v] # "waiting"
    BY <1>1, <1>3, LockUserNames DEF LocksKept, ClientFrame
  <2>4. \A d \in Clients : clientPc'[d] = "wantBusy" => d = c
    BY <1>2, <1>3, LockUserNames DEF LocksKept
  <2>5. loopPc' = loopPc
    BY DEF ClientFrame
  <2>6. loopPc \in {"created", "gather", "closing"} => b.holder = Main
    BY <1>1, <1>5, LockUserNames DEF LocksKept, BusyUsers
  <2> QED BY <1>3, <1>5, <1>6, <2>1, <2>2, <2>3, <2>4, <2>5, <2>6 DEF LocksKept
<1>9. BoundsKept'
  BY <1>2, <1>6 DEF BoundsKept, ClientFrame, ClientWaitsBusy, Live
<1> QED BY <1>3, <1>7, <1>8, <1>9, ClientFrameKeeps

-----------------------------------------------------------------------------
(* loop() *)

\* There is a name for the next poll, and its requests are new.
LEMMA NewGeneration ==
  ASSUME Inv, loopPc \in {"start", "wait", "acquire"}, CreateRequests
  PROVE  /\ generation' \in Generations
         /\ \A u \in RequestsOf(generation') : ~Live(u)
<1> USE DEF Inv
<1>1. \E g \in Generations : g \notin LiveGenerations
  <2>1. PICK g, h \in Generations : g # h
    BY GenerationsAssumption
  <2>2. SUFFICES ASSUME g \in LiveGenerations, h \in LiveGenerations
                 PROVE  FALSE
    BY <2>1
  <2>3. PICK u \in RequestsOf(g) : Live(u)
    BY <2>2 DEF LiveGenerations
  <2>4. PICK v \in RequestsOf(h) : Live(v)
    BY <2>2 DEF LiveGenerations
  <2>5. u \in LivePoll /\ v \in LivePoll /\ u[1] = g /\ v[1] = h
    BY <2>3, <2>4, RequestNames DEF LivePoll
  <2> QED BY <2>1, <2>5 DEF OrphansKept
<1>2. generation' \in Generations /\ generation' \notin LiveGenerations
  BY <1>1 DEF CreateRequests
<1> QED BY <1>2 DEF LiveGenerations

\* A new poll makes the requests of the last one orphans; there were no others.
LEMMA CreateRequestsKeeps ==
  ASSUME Inv, loopPc \in {"start", "wait", "acquire"}, CreateRequests,
         UNCHANGED <<attempt, requestLock>>
  PROVE  /\ generation' \in Generations /\ gathered' = "pending"
         /\ rq' \in [Requests -> {"idle", "acquiring", "waiting", "ok", "timeout", "connerr"}]
         /\ \A u \in Requests : Live(u)' <=> Live(u)
         /\ \A u \in Requests : rq'[u] = "waiting" => rq[u] = "waiting"
         /\ RefreshKept' /\ OrphansKept'
<1> USE DEF Inv
<1> DEFINE g == generation'
<1>1. g \in Generations /\ \A u \in RequestsOf(g) : ~Live(u)
  BY NewGeneration
<1>2. /\ loopPc' = "created" /\ gathered' = "pending" /\ refreshAsked' = FALSE
      /\ rq' = [u \in Requests |-> IF u \in RequestsOf(g) THEN "idle" ELSE rq[u]]
  BY DEF CreateRequests
<1>3. \A u \in Requests : rq'[u] = IF u \in RequestsOf(g) THEN "idle" ELSE rq[u]
  BY <1>2
<1>4. \A u \in Requests : Live(u)' <=> Live(u)
  BY <1>1, <1>3 DEF Live
<1>5. rq' \in [Requests -> {"idle", "acquiring", "waiting", "ok", "timeout", "connerr"}]
  BY <1>2 DEF TypeOK
<1>6. OrphansKept'
  <2>1. LivePoll' = LivePoll
    BY <1>4, RequestNames DEF LivePoll
  <2>2. Orphans' \subseteq LivePoll
    BY <2>1 DEF Orphans
  <2>3. RequestsOf(generation)' = RequestsOf(g) /\ RequestsOf(g) \subseteq Requests
    BY <1>1, RequestNames DEF RequestsOf
  <2>4. LivePoll' \cap RequestsOf(g) = {}
    BY <1>1, <2>1 DEF LivePoll
  <2>5. \A v \in RequestsOf(g) : rq'[v] = "idle"
    BY <1>3, <2>3
  <2>6. \A u, v \in Orphans' : u[1] = v[1]
    BY <2>2 DEF OrphansKept
  <2> QED BY <1>2, <2>3, <2>4, <2>5, <2>6 DEF OrphansKept
<1>7. RefreshKept'
  BY <1>2 DEF RefreshKept
<1> QED BY <1>1, <1>2, <1>3, <1>4, <1>5, <1>6, <1>7

\* When the requests are alive as before and none of them transmits anew, the locks
\* agree with the tasks if busy does.
LEMMA LocksUndisturbed ==
  ASSUME LocksKept, UNCHANGED <<requestLock, clientPc>>,
         \A u \in Requests : Live(u)' <=> Live(u),
         \A u \in Requests : rq'[u] = "waiting" => rq[u] = "waiting",
         busy' \in Locks(BusyUsers), InOrder(busy'),
         Members(busy', BusyUsers) = AtBusy',
         loopPc' \in {"created", "gather", "closing"} => busy'.holder = Main
  PROVE  LocksKept'
<1>1. AtLock' = AtLock
  BY DEF AtLock
<1> QED BY <1>1 DEF LocksKept

\* loop() asks for busy: it waits for it or it creates the requests of a poll.
LEMMA RoundKeepsInv ==
  ASSUME Inv, loopPc \in {"start", "wait"}, NextRound, waitEvent' \in BOOLEAN,
         loopPc = "wait" \/ waitEvent' = waitEvent,
         UNCHANGED <<missing, runState, attempt, sentNow, requestLock, clientVars, linkVars>>
  PROVE  Inv'
<1> USE DEF Inv
<1>1. UNCHANGED <<missing, runState, attempt, sentNow, requestLock, clientPc, passed,
                  connected, panelAlive>>
  BY DEF clientVars, linkVars
<1>2. CASE runState # "RUN"
  <2>1. /\ loopPc' = IF runState = "STOP" THEN "returned" ELSE "wait"
        /\ UNCHANGED <<generation, gathered, rq, refreshAsked, busy>>
    BY <1>2 DEF NextRound, TypeOK
  <2>2. TypeOK'
    BY <1>1, <2>1 DEF TypeOK
  <2>3. AtLock' = AtLock /\ AtBusy' = AtBusy
    BY <1>1, <2>1 DEF AtLock, AtBusy, Live
  <2>4. LocksKept'
    BY <1>1, <2>1, <2>3 DEF LocksKept
  <2>5. BoundsKept' /\ RefreshKept'
    BY <1>1, <1>2, <2>1 DEF BoundsKept, RefreshKept, Live
  <2>6. OrphansKept'
    <3>1. /\ LivePoll' = LivePoll /\ Orphans' = Orphans
          /\ RequestsOf(generation)' = RequestsOf(generation)
      BY <2>1 DEF LivePoll, Orphans, Live, RequestsOf
    <3>2. \A u, v \in LivePoll : u[1] = v[1]
      BY DEF OrphansKept
    <3> QED BY <1>1, <2>1, <3>1, <3>2 DEF OrphansKept
  <2> QED BY <2>2, <2>4, <2>5, <2>6
<1>3. CASE runState = "RUN"
  <2> DEFINE b == Enter(busy, Main)
  <2>1. /\ busy \in Locks(BusyUsers) /\ InOrder(busy) /\ NoOne \notin BusyUsers
        /\ Main \in BusyUsers /\ Main \notin Clients
        /\ Main \notin Members(busy, BusyUsers)
    BY LockUserNames DEF LocksKept, AtBusy, BusyUsers
  <2>2. /\ b \in Locks(BusyUsers) /\ InOrder(b)
        /\ Members(b, BusyUsers) = Members(busy, BusyUsers) \cup {Main}
        /\ b.holder = IF busy.holder = NoOne THEN Main ELSE busy.holder
    BY <2>1, EnterInOrder
  <2>3. busy' = b
    BY <1>3 DEF NextRound
  <2>4. ASSUME loopPc' \in {"acquire", "created"}
        PROVE  AtBusy' = AtBusy \cup {Main}
    BY <1>1, <2>4 DEF AtBusy
  <2>5. busy'.holder \in Clients \cup {Main, NoOne}
    BY <2>2, <2>3, HolderTyped DEF BusyUsers
  <2>6. CASE busy.holder = NoOne
    <3>1. CreateRequests /\ loopPc' = "created"
      BY <1>3, <2>6 DEF NextRound, CreateRequests
    <3>2. /\ generation' \in Generations /\ gathered' = "pending" /\ refreshAsked' = FALSE
          /\ rq' \in [Requests -> {"idle", "acquiring", "waiting", "ok", "timeout", "connerr"}]
          /\ \A u \in Requests : Live(u)' <=> Live(u)
          /\ \A u \in Requests : rq'[u] = "waiting" => rq[u] = "waiting"
          /\ RefreshKept' /\ OrphansKept'
      BY <1>1, <3>1, CreateRequestsKeeps DEF CreateRequests
    <3>3. TypeOK'
      BY <1>1, <2>5, <3>1, <3>2 DEF TypeOK
    <3>4. LocksKept'
      <4>1. Members(busy', BusyUsers) = AtBusy' /\ busy'.holder = Main
        BY <2>2, <2>3, <2>4, <2>6, <3>1 DEF LocksKept
      <4> QED BY <1>1, <2>2, <2>3, <3>2, <4>1, LocksUndisturbed
    <3>5. BoundsKept'
      BY <1>1, <3>1, <3>2 DEF BoundsKept
    <3> QED BY <3>2, <3>3, <3>4, <3>5
  <2>7. CASE busy.holder # NoOne
    <3>1. loopPc' = "acquire" /\ UNCHANGED <<generation, gathered, rq, refreshAsked>>
      BY <1>3, <2>7 DEF NextRound
    <3>2. TypeOK'
      BY <1>1, <2>5, <3>1 DEF TypeOK
    <3>3. LocksKept'
      <4>1. Members(busy', BusyUsers) = AtBusy'
        BY <2>2, <2>3, <2>4, <3>1 DEF LocksKept
      <4>2. \A u \in Requests : Live(u)' <=> Live(u)
        BY <3>1 DEF Live
      <4> QED BY <1>1, <2>2, <2>3, <3>1, <4>1, <4>2, LocksUndisturbed
    <3>4. BoundsKept' /\ RefreshKept'
      BY <1>1, <3>1 DEF BoundsKept, RefreshKept, Live
    <3>5. OrphansKept'
      <4>1. /\ LivePoll' = LivePoll /\ Orphans' = Orphans
            /\ RequestsOf(generation)' = RequestsOf(generation)
        BY <3>1 DEF LivePoll, Orphans, Live, RequestsOf
      <4> QED BY <1>1, <3>1, <4>1 DEF OrphansKept
    <3> QED BY <3>2, <3>3, <3>4, <3>5
  <2> QED BY <2>6, <2>7
<1> QED BY <1>2, <1>3

LEMMA LoopGetsBusyKeepsInv ==
  ASSUME Inv, LoopGetsBusy
  PROVE  Inv'
<1> USE DEF Inv
<1>1. /\ loopPc = "acquire" /\ busy.holder = Main /\ CreateRequests /\ loopPc' = "created"
      /\ UNCHANGED <<missing, runState, busy, attempt, sentNow, requestLock, waitEvent,
                     clientPc, passed, connected, panelAlive>>
  BY DEF LoopGetsBusy, CreateRequests, clientVars, linkVars
<1>2. /\ generation' \in Generations /\ gathered' = "pending" /\ refreshAsked' = FALSE
      /\ rq' \in [Requests -> {"idle", "acquiring", "waiting", "ok", "timeout", "connerr"}]
      /\ \A u \in Requests : Live(u)' <=> Live(u)
      /\ \A u \in Requests : rq'[u] = "waiting" => rq[u] = "waiting"
      /\ RefreshKept' /\ OrphansKept'
  BY <1>1, CreateRequestsKeeps DEF CreateRequests
<1>3. TypeOK'
  BY <1>1, <1>2 DEF TypeOK
<1>4. LocksKept'
  <2>1. AtBusy' = AtBusy
    BY <1>1 DEF AtBusy
  <2> QED BY <1>1, <1>2, <2>1, LocksUndisturbed DEF LocksKept
<1>5. BoundsKept'
  BY <1>1, <1>2 DEF BoundsKept
<1> QED BY <1>2, <1>3, <1>4, <1>5

\* The tasks of a poll make their first step: they come to request_lock behind
\* everybody, or raise without a connection.
LEMMA RequestsStartKeepsInv ==
  ASSUME Inv, RequestsStart
  PROVE  Inv'
<1> USE DEF Inv
<1> DEFINE l  == requestLock
           ps == [b \in 1..Blocks |-> <<generation, b>>]
           e  == EnterAll(l, ps)
           mine == RequestsOf(generation)
<1>1. /\ loopPc = "created" /\ loopPc' = "gather"
      /\ requestLock' = IF connected THEN e ELSE l
      /\ rq' = [u \in Requests |->
                  IF u \notin mine THEN rq[u]
                  ELSE IF connected THEN Begun(u, requestLock') ELSE "connerr"]
      /\ gathered' = IF connected THEN "pending" ELSE "connerr"
      /\ sentNow' = {}
      /\ UNCHANGED <<generation, missing, runState, busy, attempt, clientPc, passed,
                     waitEvent, refreshAsked, connected, panelAlive>>
  BY DEF RequestsStart, clientVars, refreshVars, linkVars
<1>2. /\ mine \subseteq PollRequests /\ mine \subseteq Requests /\ mine \subseteq LockUsers
      /\ mine \cap Clients = {} /\ RequestsOf(generation)' = mine
      /\ \A u \in mine : rq[u] = "idle" /\ ~Live(u)
  BY <1>1, RequestNames, LockUserNames DEF TypeOK, OrphansKept, Live, RequestsOf
<1>3. l \in Locks(LockUsers) /\ InOrder(l) /\ NoOne \notin LockUsers
      /\ \A u \in mine : u \notin Members(l, LockUsers)
  BY <1>2, LockUserNames DEF LocksKept, AtLock
<1>4. /\ ps \in Seq(LockUsers) /\ Len(ps) = Blocks /\ ps # <<>>
      /\ \A b \in 1..Blocks : ps[b] = <<generation, b>> /\ ps[b] \in mine
      /\ \A u \in mine : \E b \in 1..Blocks : ps[b] = u
      /\ \A i, j \in 1..Blocks : ps[i] = ps[j] => i = j
  <2>1. Blocks \in Nat /\ Blocks >= 1
    BY BlocksAssumption
  <2>2. \A b \in 1..Blocks : ps[b] = <<generation, b>> /\ ps[b] \in mine
    BY DEF RequestsOf
  <2>3. ps \in [1..Blocks -> LockUsers]
    BY <1>2, <2>2
  <2>4. ps \in Seq(LockUsers) /\ Len(ps) = Blocks
    BY <2>1, <2>3
  <2>5. ps # <<>>
    BY <2>1, <2>4
  <2>6. \A u \in mine : \E b \in 1..Blocks : u = <<generation, b>>
    BY DEF RequestsOf
  <2>7. \A i, j \in 1..Blocks : ps[i] = ps[j] => i = j
    BY <2>2
  <2> QED BY <2>2, <2>4, <2>5, <2>6, <2>7
<1> HIDE DEF ps, mine
<1>5. /\ e \in Locks(LockUsers) /\ InOrder(e)
      /\ Members(e, LockUsers) = Members(l, LockUsers) \cup mine
      /\ e.holder = IF l.holder = NoOne THEN ps[1] ELSE l.holder
      /\ \A u \in Members(l, LockUsers), v \in mine : ~Before(e, v, u)
  <2>1. {ps[i] : i \in 1..Len(ps)} = mine
    BY <1>4
  <2>2. /\ e \in Locks(LockUsers) /\ InOrder(e)
        /\ Members(e, LockUsers) = Members(l, LockUsers) \cup {ps[i] : i \in 1..Len(ps)}
        /\ e.holder = IF l.holder = NoOne THEN ps[1] ELSE l.holder
        /\ \A u \in Members(l, LockUsers), i \in 1..Len(ps) : ~Before(e, ps[i], u)
    BY <1>3, <1>4, EnterAllInOrder
  <2> QED BY <1>4, <2>1, <2>2
<1> HIDE DEF e
<1>6. /\ \A u \in Requests : u \notin mine => rq'[u] = rq[u]
      /\ \A u \in mine : rq'[u] = IF connected THEN Begun(u, requestLock') ELSE "connerr"
  BY <1>1, <1>2
<1>7. \A u \in Requests : Live(u)' <=> Live(u) \/ (connected /\ u \in mine)
  BY <1>2, <1>6 DEF Live, Begun
<1>8. TypeOK'
  <2>1. requestLock'.holder \in Requests \cup Clients \cup {NoOne}
    BY <1>1, <1>3, <1>5, HolderTyped DEF LockUsers
  <2>2. \A u \in Requests : Begun(u, requestLock') \in {"waiting", "acquiring"}
    BY DEF Begun
  <2>3. rq' \in [Requests -> {"idle", "acquiring", "waiting", "ok", "timeout", "connerr"}]
    BY <1>1, <2>2 DEF TypeOK
  <2> QED BY <1>1, <2>1, <2>3 DEF TypeOK
<1>9. LocksKept'
  <2>1. AtLock' = AtLock \cup (IF connected THEN mine ELSE {})
    BY <1>1, <1>2, <1>7 DEF AtLock
  <2>2. AtBusy' = AtBusy
    BY <1>1 DEF AtBusy
  <2>3. \A u \in Requests : rq'[u] = "waiting" => requestLock'.holder = u
    <3>1. \A u \in mine : rq'[u] = "waiting" => requestLock'.holder = u
      BY <1>6 DEF Begun
    <3>2. \A u \in Requests : u \notin mine /\ rq'[u] = "waiting" => l.holder = u
      BY <1>6 DEF LocksKept
    <3>3. l.holder # NoOne => requestLock'.holder = l.holder
      BY <1>1, <1>5
    <3> QED BY <3>1, <3>2, <3>3, LockUserNames
  <2>4. \A c \in Clients : clientPc[c] = "wantBusy" => requestLock'.holder = c
    BY <1>1, <1>5, LockUserNames DEF LocksKept
  <2> QED BY <1>1, <1>3, <1>5, <2>1, <2>2, <2>3, <2>4 DEF LocksKept
<1>10. BoundsKept' /\ RefreshKept'
  <2>1. \A u \in Requests : ~Live(u)' => ~Live(u)
    BY <1>7
  <2> QED BY <1>1, <2>1 DEF BoundsKept, RefreshKept
<1>11. OrphansKept'
  <2>1. Orphans' = Orphans
    BY <1>1, <1>2, <1>7, RequestNames DEF Orphans, LivePoll, TypeOK
  <2>2. \A v \in mine : rq'[v] # "ok"
    BY <1>6 DEF Begun
  <2>3. ASSUME NEW u \in Orphans, NEW v \in LivePoll' \cap mine
        PROVE  attempt[u] >= attempt[v] /\ ~Before(requestLock', v, u)
    <3>1. u \in Requests /\ Live(u) /\ u \in LockUsers
      BY RequestNames, LockUserNames DEF Orphans, LivePoll
    <3>2. attempt[v] = 1 /\ attempt[u] \in Nat /\ attempt[u] >= 1
      BY <1>2, <3>1 DEF BoundsKept, TypeOK
    <3>3. connected
      BY <1>2, <1>7 DEF LivePoll
    <3>4. u \in Members(l, LockUsers)
      BY <3>1 DEF LocksKept, AtLock
    <3> QED BY <1>1, <1>5, <3>2, <3>3, <3>4
  <2> QED BY <1>1, <1>2, <2>1, <2>2, <2>3 DEF OrphansKept
<1> QED BY <1>8, <1>9, <1>10, <1>11

\* The end of a poll, and that of loop(), in the forms it can have.
LoopEnds ==
  /\ UNCHANGED <<generation, rq, attempt, sentNow, requestLock, gathered, clientPc, passed,
                 waitEvent, refreshAsked, panelAlive>>
  /\ missing' \in 0..(MaxMissing + 1) /\ connected' \in BOOLEAN
  /\ runState' \in {runState, "STOP"}
  /\ \/ /\ loopPc = "gather" /\ gathered \in {"ok", "timeout"} /\ missing' <= MaxMissing
        /\ loopPc' = "wait" /\ busy' = Leave(busy)
     \/ /\ loopPc \in {"gather", "closing"}
        /\ loopPc' \in {"returned", "raised"} /\ busy' = Leave(busy)
     \/ loopPc = "gather" /\ loopPc' = "closing" /\ UNCHANGED busy

LEMMA LoopEndForms ==
  ASSUME Inv,
         PollSucceeds \/ PollUnusable \/ PollFails \/ PollGivesUp \/ LoopClosed
         \/ PollLosesConnection
  PROVE  LoopEnds
<1> USE DEF Inv
<1>1. missing \in Nat /\ missing <= MaxMissing + 1 /\ MaxMissing \in Nat
      /\ (loopPc = "gather" => missing <= MaxMissing)
  BY MaxMissingAssumption DEF TypeOK, BoundsKept
<1> USE <1>1 DEF LoopEnds, requestVars, clientVars, refreshVars, linkVars
<1>2. CASE PollSucceeds
  BY <1>2 DEF PollSucceeds, TypeOK
<1>3. CASE PollUnusable
  BY <1>3 DEF PollUnusable, TypeOK
<1>4. CASE PollFails
  BY <1>4 DEF PollFails, TypeOK
<1>5. CASE PollGivesUp
  <2>1. /\ UNCHANGED <<generation, rq, attempt, sentNow, requestLock, gathered, clientPc,
                        passed, waitEvent, refreshAsked, panelAlive>>
        /\ loopPc = "gather" /\ missing' = missing + 1 /\ runState' = "STOP"
        /\ connected' = FALSE
    BY <1>5 DEF PollGivesUp
  <2>2. missing' \in 0..(MaxMissing + 1)
    BY <2>1
  <2>3. CASE connected
    BY <1>5, <2>1, <2>2, <2>3 DEF PollGivesUp
  <2>4. CASE ~connected
    BY <1>5, <2>1, <2>2, <2>4 DEF PollGivesUp
  <2> QED BY <2>3, <2>4
<1>6. CASE LoopClosed
  BY <1>6 DEF LoopClosed, TypeOK
<1>7. CASE PollLosesConnection
  BY <1>7 DEF PollLosesConnection, TypeOK
<1> QED BY <1>2, <1>3, <1>4, <1>5, <1>6, <1>7

\* A poll that succeeded has no request alive and one that failed left no older
\* one: either way the requests of one poll are alive at most.
LEMMA LoopEndsKeepsInv ==
  ASSUME Inv, LoopEnds
  PROVE  Inv'
<1> USE DEF Inv
<1>1. UNCHANGED <<generation, rq, attempt, sentNow, requestLock, gathered, clientPc, passed,
                  waitEvent, refreshAsked, panelAlive>>
      /\ loopPc \in {"gather", "closing"} /\ busy.holder = Main
  BY DEF LoopEnds, LocksKept
<1>2. /\ busy \in Locks(BusyUsers) /\ InOrder(busy) /\ NoOne \notin BusyUsers
      /\ Main \in BusyUsers /\ Main # NoOne /\ Main \notin Clients
  BY LockUserNames DEF LocksKept, BusyUsers
<1>3. /\ Leave(busy) \in Locks(BusyUsers) /\ InOrder(Leave(busy))
      /\ Members(Leave(busy), BusyUsers) = Members(busy, BusyUsers) \ {Main}
  BY <1>1, <1>2, LeaveInOrder
<1>4. busy' \in Locks(BusyUsers) /\ InOrder(busy')
  BY <1>2, <1>3 DEF LoopEnds
<1>5. TypeOK'
  <2>1. busy'.holder \in Clients \cup {Main, NoOne}
    BY <1>4, HolderTyped DEF BusyUsers
  <2> QED BY <1>1, <2>1 DEF LoopEnds, TypeOK
<1>6. LocksKept'
  <2>1. Members(busy', BusyUsers) = AtBusy'
    <3>1. CASE loopPc' \in {"wait", "returned", "raised"} /\ busy' = Leave(busy)
      BY <1>1, <1>2, <1>3, <3>1 DEF AtBusy, LocksKept
    <3>2. CASE loopPc' = "closing" /\ UNCHANGED busy
      BY <1>1, <3>2 DEF AtBusy, LocksKept
    <3> QED BY <3>1, <3>2 DEF LoopEnds
  <2>2. loopPc' \in {"created", "gather", "closing"} => busy'.holder = Main
    BY <1>1 DEF LoopEnds
  <2>3. \A u \in Requests : (Live(u)' <=> Live(u)) /\ rq'[u] = rq[u]
    BY <1>1 DEF Live
  <2> QED BY <1>1, <1>4, <2>1, <2>2, <2>3, LocksUndisturbed
<1>7. BoundsKept'
  <2>1. missing' > MaxMissing => loopPc' \in {"closing", "returned", "raised"}
    BY MaxMissingAssumption DEF LoopEnds
  <2> QED BY <1>1, <2>1 DEF BoundsKept, Live
<1>8. RefreshKept'
  BY <1>1 DEF RefreshKept, LoopEnds
<1>9. OrphansKept'
  <2>1. LivePoll' = LivePoll /\ Orphans' = Orphans
        /\ RequestsOf(generation)' = RequestsOf(generation)
    BY <1>1 DEF LivePoll, Orphans, Live, RequestsOf
  <2>2. ASSUME loopPc' \in {"start", "wait", "acquire"}, NEW u \in LivePoll, NEW v \in LivePoll
        PROVE  u[1] = v[1]
    <3>1. loopPc = "gather" /\ gathered \in {"ok", "timeout"}
      BY <2>2 DEF LoopEnds
    <3>2. CASE gathered = "timeout"
      BY <3>1, <3>2 DEF OrphansKept, Orphans
    <3>3. CASE gathered = "ok"
      <4>1. \A w \in RequestsOf(generation) : ~Live(w)
        BY <3>1, <3>3 DEF OrphansKept, Live
      <4>2. u \in Orphans /\ v \in Orphans
        BY <4>1, RequestNames DEF Orphans, LivePoll, TypeOK
      <4> QED BY <4>2 DEF OrphansKept
    <3> QED BY <3>1, <3>2, <3>3
  <2>3. loopPc' # "created"
    BY <1>1 DEF LoopEnds
  <2>4. loopPc' # "gather"
    BY <1>1 DEF LoopEnds
  <2> QED BY <1>1, <2>1, <2>2, <2>3, <2>4 DEF OrphansKept
<1> QED BY <1>5, <1>6, <1>7, <1>8, <1>9

-----------------------------------------------------------------------------
(* The specification *)

LEMMA InitInv == Init => Inv
<1> SUFFICES ASSUME Init
             PROVE  Inv
  OBVIOUS
<1> USE DEF Init
<1>1. generation \in Generations
  BY GenerationsAssumption
<1>2. /\ Unlocked \in Locks(LockUsers) /\ Unlocked \in Locks(BusyUsers) /\ InOrder(Unlocked)
      /\ Members(Unlocked, LockUsers) = {} /\ Members(Unlocked, BusyUsers) = {}
  BY UnlockedInOrder, LockUserNames
<1>3. \A u \in Requests : rq[u] = "idle" /\ attempt[u] = 1 /\ ~Live(u)
  BY DEF Live
<1>4. \A c \in Clients : clientPc[c] \in {"in", "out"}
  OBVIOUS
<1>5. TypeOK
  BY <1>1, RetriesAssumption, MaxMissingAssumption, MaxMessagesAssumption DEF TypeOK, Unlocked
<1>6. LocksKept
  BY <1>2, <1>3, <1>4 DEF LocksKept, AtLock, AtBusy
<1>7. BoundsKept /\ RefreshKept
  BY <1>3, <1>4, MaxMissingAssumption DEF BoundsKept, RefreshKept
<1>8. OrphansKept
  <2>1. LivePoll = {} /\ Orphans = {}
    BY <1>3, RequestNames DEF LivePoll, Orphans
  <2> QED BY <2>1 DEF OrphansKept
<1> QED BY <1>5, <1>6, <1>7, <1>8 DEF Inv

LEMMA LoopKeepsInv == Inv /\ LoopStep => Inv'
<1> SUFFICES ASSUME Inv, LoopStep
             PROVE  Inv'
  OBVIOUS
<1>1. CASE LoopStarts
  BY <1>1, RoundKeepsInv DEF LoopStarts, Inv, TypeOK
<1>2. CASE LoopWakes
  BY <1>2, RoundKeepsInv DEF LoopWakes
<1>3. CASE LoopGetsBusy
  BY <1>3, LoopGetsBusyKeepsInv
<1>4. CASE RequestsStart
  BY <1>4, RequestsStartKeepsInv
<1>5. CASE PollSucceeds \/ PollUnusable \/ PollFails \/ PollGivesUp \/ LoopClosed
           \/ PollLosesConnection
  BY <1>5, LoopEndForms, LoopEndsKeepsInv
<1> QED BY <1>1, <1>2, <1>3, <1>4, <1>5 DEF LoopStep

LEMMA ClientConnectsKeepsInv ==
  ASSUME Inv, NEW c \in Clients, ClientConnects(c)
  PROVE  Inv'
<1> USE DEF Inv
<1>1. /\ clientPc[c] = "out" /\ clientPc' = [clientPc EXCEPT ![c] = "in"]
      /\ runState' = IF runState = "RUN" THEN "PAUSE" ELSE runState
      /\ UNCHANGED <<loopPc, generation, missing, busy, rq, attempt, sentNow, requestLock,
                     gathered, passed, waitEvent, refreshAsked, connected, panelAlive>>
  BY DEF ClientConnects, requestVars, refreshVars, linkVars
<1>2. clientPc'[c] = "in" /\ \A d \in Clients : d # c => clientPc'[d] = clientPc[d]
  BY <1>1 DEF TypeOK
<1>3. TypeOK'
  BY <1>1 DEF TypeOK
<1>4. LocksKept'
  <2>1. AtLock' = AtLock /\ AtBusy' = AtBusy
    BY <1>1, <1>2 DEF AtLock, AtBusy, Live
  <2> QED BY <1>1, <1>2, <2>1 DEF LocksKept
<1>5. BoundsKept' /\ RefreshKept'
  BY <1>1, <1>2 DEF BoundsKept, RefreshKept, Live
<1>6. OrphansKept'
  BY <1>1, OrphansUndisturbed
<1> QED BY <1>3, <1>4, <1>5, <1>6

\* The panel, the link and a disconnect() from elsewhere touch no task.
LEMMA LinkKeepsInv ==
  ASSUME Inv, PanelStopsAnswering \/ ConnectionLost \/ Disconnected
  PROVE  Inv'
<1> USE DEF Inv
<1>1. /\ UNCHANGED <<loopPc, generation, missing, busy, rq, attempt, sentNow, requestLock,
                     gathered, clientPc, passed, waitEvent, refreshAsked>>
      /\ connected' \in BOOLEAN /\ panelAlive' \in BOOLEAN
      /\ runState' \in {runState, "STOP"}
  BY DEF PanelStopsAnswering, ConnectionLost, Disconnected, TypeOK, loopVars, requestVars,
         clientVars, refreshVars
<1>2. TypeOK'
  BY <1>1 DEF TypeOK
<1>3. LocksKept'
  <2>1. AtLock' = AtLock /\ AtBusy' = AtBusy
    BY <1>1 DEF AtLock, AtBusy, Live
  <2> QED BY <1>1, <2>1 DEF LocksKept
<1>4. BoundsKept' /\ RefreshKept'
  BY <1>1 DEF BoundsKept, RefreshKept, Live
<1>5. OrphansKept'
  BY <1>1, OrphansUndisturbed
<1> QED BY <1>2, <1>3, <1>4, <1>5

LEMMA StutterKeepsInv == Inv /\ UNCHANGED vars => Inv'
<1> SUFFICES ASSUME Inv, UNCHANGED vars
             PROVE  Inv'
  OBVIOUS
<1> USE DEF Inv, vars
<1>1. AtLock' = AtLock /\ AtBusy' = AtBusy
  BY DEF AtLock, AtBusy, Live
<1>2. OrphansKept'
  BY OrphansUndisturbed
<1> QED BY <1>1, <1>2 DEF TypeOK, LocksKept, BoundsKept, RefreshKept, Live

LEMMA RequestKeepsInv ==
  ASSUME Inv, NEW u \in Requests, RequestStep(u)
  PROVE  Inv'
BY RequestStepForms, EndKeepsInv, TransmitKeepsInv, QueueKeepsInv DEF Inv

LEMMA ClientKeepsInv ==
  ASSUME Inv, NEW c \in Clients, ClientMessage(c) \/ ClientStep(c)
  PROVE  Inv'
BY ClientStepForms, ClientPassesKeepsInv, ClientWaitsKeepsInv, ClientWaitsBusyKeepsInv

LEMMA NextKeepsInv == Inv /\ [Next]_vars => Inv'
<1> SUFFICES ASSUME Inv, [Next]_vars
             PROVE  Inv'
  OBVIOUS
<1>1. CASE LoopStep
  BY <1>1, LoopKeepsInv
<1>2. ASSUME NEW u \in Requests, RequestStep(u)
      PROVE  Inv'
  BY <1>2, RequestKeepsInv
<1>3. ASSUME NEW k \in Commands, CommandGiven(k)
      PROVE  Inv'
  BY <1>3, CommandKeepsInv
<1>4. ASSUME NEW c \in Clients, ClientConnects(c) \/ ClientMessage(c) \/ ClientStep(c)
      PROVE  Inv'
  BY <1>4, ClientConnectsKeepsInv, ClientKeepsInv
<1>5. CASE PanelStopsAnswering \/ ConnectionLost \/ Disconnected
  BY <1>5, LinkKeepsInv
<1>6. CASE UNCHANGED vars
  BY <1>6, StutterKeepsInv
<1> QED BY <1>1, <1>2, <1>3, <1>4, <1>5, <1>6 DEF Next

THEOREM Invariance == Spec => []Inv
<1>1. Init => Inv
  BY InitInv
<1>2. Inv /\ [Next]_vars => Inv'
  BY NextKeepsInv
<1> QED BY <1>1, <1>2, PTL DEF Spec

-----------------------------------------------------------------------------
(* What it means for the program *)

\* Type correctness.  The counter of missing replies and the attempts stay within
\* their bounds, and only tasks that asked for a lock hold it.
THEOREM TypeCorrect == Spec => []TypeOK
<1>1. Inv => TypeOK
  BY DEF Inv
<1> QED BY <1>1, Invariance, PTL

\* However many clients and commands compete for the locks, a client writes to the
\* panel only while no request of PAI waits for its answer and no poll is under
\* way (ClientConnection._handle_passthrough).
THEOREM ClientsWriteAlone == Spec => ClientWritesAlone
<1> DEFINE Alone == /\ \A u \in Requests : rq[u] # "waiting"
                    /\ loopPc \notin {"created", "gather"}
<1>1. Inv /\ [Next]_vars => [passed' # passed => Alone]_vars
  <2> SUFFICES ASSUME Inv, Next, passed' # passed
               PROVE  Alone
    OBVIOUS
  <2>1. PICK c \in Clients : ClientMessage(c) \/ ClientStep(c)
    <3>1. ~LoopStep
      BY DEF LoopStep, LoopStarts, LoopWakes, LoopGetsBusy, RequestsStart, PollSucceeds,
             PollUnusable, PollFails, PollGivesUp, LoopClosed, PollLosesConnection, clientVars
    <3>2. \A u \in Requests : ~RequestStep(u)
      BY DEF RequestStep, RequestGranted, Replied, TimedOut, clientVars
    <3>3. \A k \in Commands : ~CommandGiven(k)
      BY DEF CommandGiven, clientVars
    <3>4. \A c \in Clients : ~ClientConnects(c)
      BY DEF ClientConnects
    <3>5. ~PanelStopsAnswering /\ ~ConnectionLost /\ ~Disconnected
      BY DEF PanelStopsAnswering, ConnectionLost, Disconnected, clientVars
    <3> QED BY <3>1, <3>2, <3>3, <3>4, <3>5 DEF Next
  <2>2. ClientPasses(c)
    BY <2>1, ClientStepForms DEF ClientWaits, ClientWaitsBusy
  <2>3. \A u \in Requests : rq[u] # "waiting"
    BY <2>2, LockUserNames DEF ClientPasses, Inv, LocksKept
  <2>4. loopPc \notin {"created", "gather"}
    BY <2>2, LockUserNames DEF ClientPasses, Inv, LocksKept, BusyUsers
  <2> QED BY <2>3, <2>4
<1> QED BY <1>1, Invariance, PTL DEF Spec, ClientWritesAlone

\* A refresh asked for while a poll is running is not lost to the wait after it:
\* loop() clears loop_wait_event after it waited and before it polls.
THEOREM RefreshRemembered == Spec => []RefreshNotForgotten
<1>1. Inv => RefreshNotForgotten
  BY DEF Inv, RefreshKept, RefreshNotForgotten
<1> QED BY <1>1, Invariance, PTL

\* Whatever the number of attempts and of requests in a poll, requests of two polls
\* at most are alive, so that gather's uncancelled requests do not pile up.
THEOREM OrphansAreBounded == Spec => []OrphansBounded
<1>1. Inv => OrphansBounded
  <2> SUFFICES ASSUME Inv
               PROVE  Cardinality(LiveGenerations) <= 2
    BY DEF OrphansBounded
  <2>1. \A g \in LiveGenerations : \E u \in LivePoll : u[1] = g
    <3> SUFFICES ASSUME NEW g \in LiveGenerations
                 PROVE  \E u \in LivePoll : u[1] = g
      OBVIOUS
    <3>1. PICK u \in RequestsOf(g) : Live(u)
      BY DEF LiveGenerations
    <3> QED BY <3>1, RequestNames DEF LivePoll, LiveGenerations
  <2>2. \A g, h \in LiveGenerations : g # generation /\ h # generation => g = h
    BY <2>1 DEF Inv, OrphansKept, Orphans
  <2>3. \E g : LiveGenerations \subseteq {generation, g}
    BY <2>2
  <2>4. PICK g : LiveGenerations \subseteq {generation, g}
    BY <2>3
  <2>5. IsFiniteSet({generation, g}) /\ Cardinality({generation, g}) \in Nat
        /\ Cardinality({generation, g}) <= 2
    <3>1. IsFiniteSet({generation}) /\ Cardinality({generation}) = 1
      BY FS_Singleton
    <3>2. {generation, g} = {generation} \cup {g}
      OBVIOUS
    <3> QED BY <3>1, <3>2, FS_AddElement
  <2>6. Cardinality(LiveGenerations) \in Nat
        /\ Cardinality(LiveGenerations) <= Cardinality({generation, g})
    BY <2>4, <2>5, FS_Subset, FS_CardinalityType
  <2> QED BY <2>5, <2>6
<1> QED BY <1>1, Invariance, PTL
==============================================================================
