--------------------------- MODULE AsyncLockProofs ---------------------------
(* What Enter and Leave do to a lock whose queue is in order. *)
EXTENDS AsyncLock, Naturals, TLAPS

\* The tasks that hold the lock or wait for it.
Members(l, P) ==
  {p \in P : p = l.holder \/ \E i \in 1..Len(l.waiters) : l.waiters[i] = p}

\* Nobody waits for a free lock, nobody waits twice or for what he holds.
InOrder(l) ==
  /\ l.holder = NoOne => l.waiters = <<>>
  /\ \A i \in 1..Len(l.waiters) : l.waiters[i] # l.holder
  /\ \A i, j \in 1..Len(l.waiters) : l.waiters[i] = l.waiters[j] => i = j

\* p is served before q.
Before(l, p, q) ==
  \E j \in 1..Len(l.waiters) :
    /\ l.waiters[j] = q
    /\ p = l.holder \/ \E i \in 1..Len(l.waiters) : i < j /\ l.waiters[i] = p

\* A free lock is in order and nobody belongs to it.
LEMMA UnlockedInOrder ==
  ASSUME NEW P, NoOne \notin P
  PROVE  /\ Unlocked \in Locks(P)
         /\ InOrder(Unlocked)
         /\ Members(Unlocked, P) = {}
BY DEF Unlocked, Locks, InOrder, Members

\* acquire() of a task that does not belong to the lock adds exactly that task,
\* and it holds the lock just when nobody did (asyncio.Lock.acquire).
LEMMA EnterInOrder ==
  ASSUME NEW P, NoOne \notin P, NEW l \in Locks(P), NEW p \in P,
         InOrder(l), p \notin Members(l, P)
  PROVE  /\ Enter(l, p) \in Locks(P)
         /\ InOrder(Enter(l, p))
         /\ Members(Enter(l, p), P) = Members(l, P) \cup {p}
         /\ Enter(l, p).holder = IF l.holder = NoOne THEN p ELSE l.holder
<1>1. CASE l.holder = NoOne
  BY <1>1 DEF Enter, Locks, InOrder, Members
<1>2. CASE l.holder # NoOne
  <2> DEFINE w == l.waiters
             v == Append(w, p)
  <2>1. Enter(l, p) = [holder |-> l.holder, waiters |-> v]
    BY <1>2 DEF Enter
  <2>2. w \in Seq(P) /\ l.holder \in P /\ v \in Seq(P) /\ Len(v) = Len(w) + 1
        /\ Len(w) \in Nat
    BY <1>2 DEF Locks
  <2>3. \A i \in 1..Len(w) : v[i] = w[i]
    BY <2>2
  <2>4. v[Len(w) + 1] = p
    BY <2>2
  <2>5. \A i \in 1..Len(v) : i \in 1..Len(w) \/ i = Len(w) + 1
    BY <2>2
  <2>6. p # l.holder /\ \A i \in 1..Len(w) : w[i] # p
    BY DEF Members
  <2> HIDE DEF w, v
  <2>7. InOrder(Enter(l, p))
    <3>1. \A i \in 1..Len(v) : v[i] # l.holder
      BY <2>3, <2>4, <2>5, <2>6 DEF InOrder, w
    <3>2. \A i, j \in 1..Len(v) : v[i] = v[j] => i = j
      BY <2>3, <2>4, <2>5, <2>6 DEF InOrder, w
    <3> QED BY <1>2, <2>1, <3>1, <3>2 DEF InOrder
  <2>8. Members(Enter(l, p), P) = Members(l, P) \cup {p}
    <3>1. Members(Enter(l, p), P) =
            {q \in P : q = l.holder \/ \E i \in 1..Len(v) : v[i] = q}
      BY <2>1 DEF Members
    <3>2. \A q : (\E i \in 1..Len(v) : v[i] = q)
                   <=> (q = p \/ \E i \in 1..Len(w) : w[i] = q)
      BY <2>2, <2>3, <2>4, <2>5
    <3> QED BY <3>1, <3>2 DEF Members, w
  <2> QED BY <1>2, <2>1, <2>2, <2>7, <2>8 DEF Locks
<1> QED BY <1>1, <1>2

\* release() removes exactly the holder (asyncio.Lock.release).
LEMMA LeaveInOrder ==
  ASSUME NEW P, NoOne \notin P, NEW l \in Locks(P), InOrder(l), l.holder # NoOne
  PROVE  /\ Leave(l) \in Locks(P)
         /\ InOrder(Leave(l))
         /\ Members(Leave(l), P) = Members(l, P) \ {l.holder}
<1>1. CASE l.waiters = <<>>
  BY <1>1 DEF Leave, Unlocked, Locks, InOrder, Members
<1>2. CASE l.waiters # <<>>
  <2> DEFINE w == l.waiters
             v == Tail(w)
  <2>1. Leave(l) = [holder |-> Head(w), waiters |-> v]
    BY <1>2 DEF Leave
  <2>2. w \in Seq(P) /\ w # <<>> /\ Head(w) = w[1] /\ Len(w) \in Nat /\ Len(w) >= 1
        /\ w[1] \in P
    BY <1>2 DEF Locks
  <2>3. v \in Seq(P) /\ Len(v) = Len(w) - 1 /\ \A i \in 1..Len(v) : v[i] = w[i + 1]
    BY <2>2
  <2>4. \A i \in 1..Len(v) : i + 1 \in 1..Len(w) /\ i + 1 # 1
    BY <2>2, <2>3
  <2>5. \A i \in 1..Len(w) : i = 1 \/ (i - 1 \in 1..Len(v) /\ v[i - 1] = w[i])
    BY <2>2, <2>3
  <2>6. 1 \in 1..Len(w)
    BY <2>2
  <2> HIDE DEF w, v
  <2>7. /\ \A i \in 1..Len(w) : w[i] # l.holder
        /\ \A i, j \in 1..Len(w) : w[i] = w[j] => i = j
    BY DEF InOrder, w
  <2>8. InOrder(Leave(l))
    <3>1. Head(w) # NoOne
      BY <2>2
    <3>2. \A i \in 1..Len(v) : v[i] # Head(w)
      BY <2>2, <2>3, <2>4, <2>6, <2>7
    <3>3. \A i, j \in 1..Len(v) : v[i] = v[j] => i = j
      <4> SUFFICES ASSUME NEW i \in 1..Len(v), NEW j \in 1..Len(v), v[i] = v[j]
                   PROVE  i = j
        OBVIOUS
      <4>1. i + 1 = j + 1
        BY <2>3, <2>4, <2>7
      <4> QED BY <4>1
    <3> QED BY <2>1, <3>1, <3>2, <3>3 DEF InOrder
  <2>9. Members(Leave(l), P) = Members(l, P) \ {l.holder}
    <3>1. Members(Leave(l), P) =
            {q \in P : q = w[1] \/ \E i \in 1..Len(v) : v[i] = q}
      BY <2>1, <2>2 DEF Members
    <3>2. \A q : (\E i \in 1..Len(w) : w[i] = q)
                   <=> (q = w[1] \/ \E i \in 1..Len(v) : v[i] = q)
      BY <2>3, <2>4, <2>5, <2>6
    <3>3. Members(l, P) = {q \in P : q = l.holder \/ \E i \in 1..Len(w) : w[i] = q}
      BY DEF Members, w
    <3>4. \A q : (q \in Members(l, P) /\ q # l.holder)
                   <=> (q \in P /\ \E i \in 1..Len(w) : w[i] = q)
      BY <2>7, <3>3, Zenon
    <3>5. \A q : q \in Members(Leave(l), P)
                   <=> (q \in P /\ \E i \in 1..Len(w) : w[i] = q)
      BY <3>1, <3>2, Zenon
    <3> QED BY <3>4, <3>5, Zenon
  <2> QED BY <2>1, <2>2, <2>3, <2>8, <2>9 DEF Locks
<1> QED BY <1>1, <1>2

\* Only those who belong to the lock are before one another.
LEMMA BeforeMembers ==
  ASSUME NEW P, NEW l \in Locks(P), NEW p \in P, NEW q \in P, Before(l, p, q)
  PROVE  p \in Members(l, P) /\ q \in Members(l, P)
BY DEF Before, Members, Locks

\* The holder is before everybody else.
LEMMA HolderFirst ==
  ASSUME NEW P, NEW l \in Locks(P), NEW q \in Members(l, P), q # l.holder
  PROVE  Before(l, l.holder, q)
BY DEF Before, Members, Locks

\* acquire() leaves the order of the others alone and sends the caller behind them.
LEMMA EnterBefore ==
  ASSUME NEW P, NoOne \notin P, NEW l \in Locks(P), NEW p \in P,
         InOrder(l), p \notin Members(l, P), NEW u \in P, NEW v \in P
  PROVE  Before(Enter(l, p), u, v) <=>
           Before(l, u, v) \/ (v = p /\ u \in Members(l, P))
<1>1. CASE l.holder = NoOne
  BY <1>1 DEF Enter, Locks, InOrder, Members, Before
<1>2. CASE l.holder # NoOne
  <2> DEFINE w == l.waiters
             x == Append(w, p)
  <2>1. Enter(l, p) = [holder |-> l.holder, waiters |-> x]
    BY <1>2 DEF Enter
  <2>2. w \in Seq(P) /\ x \in Seq(P) /\ Len(x) = Len(w) + 1 /\ Len(w) \in Nat
    BY DEF Locks
  <2>3. x[Len(w) + 1] = p /\ \A i \in 1..Len(w) : x[i] = w[i]
    BY <2>2
  <2>4. \A i \in 1..Len(w) : i \in 1..Len(x) /\ i < Len(w) + 1
    BY <2>2
  <2>5. Len(w) + 1 \in 1..Len(x)
        /\ \A i \in 1..Len(x) : i \in 1..Len(w) \/ i = Len(w) + 1
    BY <2>2
  <2>6. \A i \in 1..Len(w) : w[i] # p
    BY DEF Members
  <2>7. \A i, j \in 1..Len(x) : i < j => i \in 1..Len(w)
    BY <2>2
  <2>8. u \in Members(l, P) <=> (u = l.holder \/ \E i \in 1..Len(w) : w[i] = u)
    BY DEF Members
  <2> DEFINE Sooner(j) == u = l.holder \/ \E i \in 1..Len(x) : i < j /\ x[i] = u
             Earlier(j) == u = l.holder \/ \E i \in 1..Len(w) : i < j /\ w[i] = u
  <2>9. Before(Enter(l, p), u, v) <=> \E j \in 1..Len(x) : x[j] = v /\ Sooner(j)
    BY <2>1 DEF Before
  <2>10. Before(l, u, v) <=> \E j \in 1..Len(w) : w[j] = v /\ Earlier(j)
    BY DEF Before
  <2> HIDE DEF w, x
  <2>11. \A j \in 1..Len(w) : Sooner(j) <=> Earlier(j)
    BY <2>3, <2>4, <2>7
  <2>12. Sooner(Len(w) + 1) <=> u \in Members(l, P)
    BY <2>3, <2>4, <2>5, <2>7, <2>8
  <2> HIDE DEF Sooner, Earlier
  <2>13. (\E j \in 1..Len(x) : x[j] = v /\ Sooner(j))
           <=> \/ \E j \in 1..Len(w) : w[j] = v /\ Earlier(j)
               \/ v = p /\ u \in Members(l, P)
    BY <2>3, <2>4, <2>5, <2>11, <2>12
  <2> QED BY <2>9, <2>10, <2>13
<1> QED BY <1>1, <1>2

\* release() leaves the order of the others alone.
LEMMA LeaveBefore ==
  ASSUME NEW P, NoOne \notin P, NEW l \in Locks(P), InOrder(l), l.holder # NoOne,
         NEW u \in P, NEW v \in P
  PROVE  Before(Leave(l), u, v) <=> Before(l, u, v) /\ u # l.holder
<1>1. CASE l.waiters = <<>>
  BY <1>1 DEF Leave, Unlocked, Locks, Before
<1>2. CASE l.waiters # <<>>
  <2> DEFINE w == l.waiters
             x == Tail(w)
  <2>1. Leave(l) = [holder |-> w[1], waiters |-> x]
    BY <1>2 DEF Leave, Locks
  <2>2. w \in Seq(P) /\ Len(w) \in Nat /\ Len(w) >= 1 /\ Len(x) = Len(w) - 1
    BY <1>2 DEF Locks
  <2>3. \A i \in 1..Len(x) : x[i] = w[i + 1] /\ i + 1 \in 1..Len(w) /\ 1 < i + 1
    BY <2>2
  <2>4. \A i \in 1..Len(w) : i = 1 \/ (i - 1 \in 1..Len(x) /\ i = (i - 1) + 1)
    BY <2>2
  <2>5. 1 \in 1..Len(w) /\ Len(w) \in Nat /\ Len(x) \in Nat
    BY <2>2
  <2>6. \A i \in 1..Len(w) : w[i] # l.holder
    BY DEF InOrder
  <2>7. \A i, j \in 1..Len(w) : w[i] = w[j] => i = j
    BY DEF InOrder
  <2>8. Before(Leave(l), u, v) <=>
          \E j \in 1..Len(x) :
            x[j] = v /\ (u = w[1] \/ \E i \in 1..Len(x) : i < j /\ x[i] = u)
    BY <2>1 DEF Before
  <2>9. Before(l, u, v) <=>
          \E j \in 1..Len(w) :
            w[j] = v /\ (u = l.holder \/ \E i \in 1..Len(w) : i < j /\ w[i] = u)
    BY DEF Before
  <2> HIDE DEF w, x
  <2>10. ASSUME Before(Leave(l), u, v)
         PROVE  Before(l, u, v) /\ u # l.holder
    <3>1. PICK j \in 1..Len(x) :
            x[j] = v /\ (u = w[1] \/ \E i \in 1..Len(x) : i < j /\ x[i] = u)
      BY <2>8, <2>10
    <3>2. \E i \in 1..Len(w) : i < j + 1 /\ w[i] = u
      <4>1. CASE u = w[1]
        BY <4>1, <2>3, <2>5
      <4>2. CASE \E i \in 1..Len(x) : i < j /\ x[i] = u
        <5>1. PICK i \in 1..Len(x) : i < j /\ x[i] = u
          BY <4>2
        <5>2. i + 1 < j + 1
          BY <5>1
        <5> QED BY <5>1, <5>2, <2>3
      <4> QED BY <3>1, <4>1, <4>2
    <3>3. w[j + 1] = v /\ j + 1 \in 1..Len(w)
      BY <3>1, <2>3
    <3> QED BY <3>2, <3>3, <2>6, <2>9
  <2>11. ASSUME Before(l, u, v), u # l.holder
         PROVE  Before(Leave(l), u, v)
    <3>1. PICK j \in 1..Len(w) : w[j] = v /\ \E i \in 1..Len(w) : i < j /\ w[i] = u
      BY <2>9, <2>11
    <3>2. PICK i \in 1..Len(w) : i < j /\ w[i] = u
      BY <3>1
    <3>3. j - 1 \in 1..Len(x) /\ x[j - 1] = v
      BY <3>1, <3>2, <2>2, <2>3, <2>4
    <3>4. CASE i = 1
      BY <3>2, <3>3, <3>4, <2>8
    <3>5. CASE i # 1
      <4>1. i - 1 \in 1..Len(x) /\ x[i - 1] = u /\ i - 1 < j - 1
        BY <3>2, <3>5, <2>2, <2>3, <2>4
      <4> QED BY <3>3, <4>1, <2>8
    <3> QED BY <3>4, <3>5
  <2> QED BY <2>10, <2>11
<1> QED BY <1>1, <1>2

\* EnterAll is acquire() by one task after the other.
LEMMA EnterAllIsEnter ==
  ASSUME NEW P, NoOne \notin P, NEW l \in Locks(P), NEW ps \in Seq(P), NEW p \in P
  PROVE  /\ EnterAll(l, <<>>) = l
         /\ EnterAll(l, Append(ps, p)) = Enter(EnterAll(l, ps), p)
<1> DEFINE w == l.waiters
<1>1. l = [holder |-> l.holder, waiters |-> w] /\ w \in Seq(P)
  BY DEF Locks
<1>2. w \o <<>> = w
  BY <1>1
<1>3. EnterAll(l, <<>>) = l
  BY <1>1, <1>2 DEF EnterAll
<1>4. EnterAll(l, Append(ps, p)) = Enter(EnterAll(l, ps), p)
  <2>1. CASE l.holder # NoOne
    <3>1. w \o Append(ps, p) = Append(w \o ps, p)
      BY <1>1
    <3> QED BY <2>1, <3>1 DEF EnterAll, Enter
  <2>2. CASE l.holder = NoOne /\ ps = <<>>
    <3>1. Append(ps, p) = <<p>> /\ Head(<<p>>) = p /\ Tail(<<p>>) = <<>> /\ <<p>> # <<>>
      BY <2>2
    <3>2. Enter(EnterAll(l, ps), p) = [holder |-> p, waiters |-> w]
      BY <2>2, <1>2, <1>3 DEF Enter
    <3> QED BY <2>2, <3>1, <3>2, <1>2 DEF EnterAll
  <2>3. CASE l.holder = NoOne /\ ps # <<>>
    <3>1. /\ Append(ps, p) # <<>>
          /\ Head(Append(ps, p)) = Head(ps)
          /\ Tail(Append(ps, p)) = Append(Tail(ps), p)
          /\ Head(ps) \in P /\ Tail(ps) \in Seq(P)
      BY <2>3
    <3>2. w \o Append(Tail(ps), p) = Append(w \o Tail(ps), p)
      BY <1>1, <3>1
    <3>3. Head(ps) # NoOne
      BY <3>1
    <3> QED BY <2>3, <3>1, <3>2, <3>3 DEF EnterAll, Enter
  <2> QED BY <2>1, <2>2, <2>3
<1> QED BY <1>3, <1>4

\* Tasks that do not belong to the lock and call acquire() one after the other all
\* belong to it then, the first of them holds it if it was free, and none of them
\* is before a task that already belonged to it.
LEMMA EnterAllInOrder ==
  ASSUME NEW P, NoOne \notin P, NEW l \in Locks(P), NEW ps \in Seq(P), InOrder(l),
         ps # <<>>,
         \A i \in 1..Len(ps) : ps[i] \notin Members(l, P),
         \A i, j \in 1..Len(ps) : ps[i] = ps[j] => i = j
  PROVE  LET e == EnterAll(l, ps)
         IN /\ e \in Locks(P)
            /\ InOrder(e)
            /\ Members(e, P) = Members(l, P) \cup {ps[i] : i \in 1..Len(ps)}
            /\ e.holder = IF l.holder = NoOne THEN ps[1] ELSE l.holder
            /\ \A u \in Members(l, P), i \in 1..Len(ps) : ~Before(e, ps[i], u)
<1> DEFINE e == EnterAll(l, ps)
           w == l.waiters
<1>0. w \in Seq(P) /\ Len(w) \in Nat /\ Len(ps) \in Nat /\ Len(ps) >= 1
  BY DEF Locks
<1>1. CASE l.holder = NoOne
  <2> DEFINE x == Tail(ps)
  <2>1. w = <<>> /\ Members(l, P) = {}
    BY <1>1 DEF InOrder, Members
  <2>2. x \in Seq(P) /\ Len(x) = Len(ps) - 1 /\ \A i \in 1..Len(x) : x[i] = ps[i + 1]
    BY <1>0
  <2>3. ps[1] \in P /\ e = [holder |-> ps[1], waiters |-> x]
    BY <1>0, <1>1, <2>1, <2>2 DEF EnterAll
  <2>4. \A i \in 1..Len(x) : i + 1 \in 1..Len(ps) /\ i + 1 # 1
    BY <1>0, <2>2
  <2>5. \A i \in 1..Len(ps) : i = 1 \/ (i - 1 \in 1..Len(x) /\ x[i - 1] = ps[i])
    BY <1>0, <2>2
  <2>6. 1 \in 1..Len(ps)
    BY <1>0
  <2> HIDE DEF x
  <2>7. InOrder(e)
    <3>1. \A i \in 1..Len(x) : x[i] # ps[1]
      BY <2>2, <2>4, <2>6
    <3>2. \A i, j \in 1..Len(x) : x[i] = x[j] => i = j
      <4> SUFFICES ASSUME NEW i \in 1..Len(x), NEW j \in 1..Len(x), x[i] = x[j]
                   PROVE  i = j
        OBVIOUS
      <4>1. i + 1 = j + 1
        BY <2>2, <2>4
      <4> QED BY <4>1
    <3>3. ps[1] # NoOne
      BY <2>3
    <3> QED BY <2>3, <3>1, <3>2, <3>3 DEF InOrder
  <2>8. Members(e, P) = {ps[i] : i \in 1..Len(ps)}
    <3>1. \A q : q \in Members(e, P)
                   <=> q \in P /\ (q = ps[1] \/ \E i \in 1..Len(x) : x[i] = q)
      BY <2>3 DEF Members
    <3>2. \A q : (\E i \in 1..Len(ps) : ps[i] = q)
                   <=> (q = ps[1] \/ \E i \in 1..Len(x) : x[i] = q)
      BY <2>2, <2>4, <2>5, <2>6
    <3>3. \A q : q \in {ps[i] : i \in 1..Len(ps)}
                   <=> q \in P /\ \E i \in 1..Len(ps) : ps[i] = q
      OBVIOUS
    <3> HIDE DEF e
    <3> QED BY <3>1, <3>2, <3>3, Zenon
  <2> QED BY <1>1, <2>1, <2>2, <2>3, <2>7, <2>8 DEF Locks
<1>2. CASE l.holder # NoOne
  <2> DEFINE x == w \o ps
             n == Len(w)
  <2>1. e = [holder |-> l.holder, waiters |-> x]
    BY <1>2 DEF EnterAll
  <2>2. x \in Seq(P) /\ Len(x) = n + Len(ps) /\ l.holder \in P
    BY <1>0, <1>2 DEF Locks
  <2>3. \A i \in 1..n : x[i] = w[i] /\ i \in 1..Len(x)
    BY <1>0, <2>2
  <2>4. \A i \in 1..Len(ps) : x[n + i] = ps[i] /\ n + i \in 1..Len(x) /\ n + i \notin 1..n
    BY <1>0, <2>2
  <2>5. \A i \in 1..Len(x) : i \in 1..n \/ (i - n \in 1..Len(ps) /\ i = n + (i - n))
    BY <1>0, <2>2
  <2>6. \A i \in 1..Len(ps) : ps[i] # l.holder /\ \A j \in 1..n : w[j] # ps[i]
    BY <1>0 DEF Members
  <2>7. /\ \A i \in 1..n : w[i] # l.holder
        /\ \A i, j \in 1..n : w[i] = w[j] => i = j
    BY DEF InOrder
  <2>8. \A i \in 1..Len(x) : \/ i \in 1..n /\ x[i] = w[i]
                             \/ \E k \in 1..Len(ps) : i = n + k /\ x[i] = ps[k]
    BY <2>3, <2>4, <2>5, SMTT(30)
  <2>9. n \in Nat
    BY <1>0
  <2> HIDE DEF x, n
  <2>10. InOrder(e)
    <3>1. \A i \in 1..Len(x) : x[i] # l.holder
      BY <2>6, <2>7, <2>8
    <3>2. \A i, j \in 1..Len(x) : x[i] = x[j] => i = j
      <4> SUFFICES ASSUME NEW i \in 1..Len(x), NEW j \in 1..Len(x), x[i] = x[j]
                   PROVE  i = j
        OBVIOUS
      <4> QED BY <2>6, <2>7, <2>8
    <3> QED BY <1>2, <2>1, <3>1, <3>2 DEF InOrder
  <2>11. Members(e, P) = Members(l, P) \cup {ps[i] : i \in 1..Len(ps)}
    <3>1. \A q : q \in Members(e, P)
                   <=> q \in P /\ (q = l.holder \/ \E i \in 1..Len(x) : x[i] = q)
      BY <2>1 DEF Members
    <3>2. \A q : q \in Members(l, P)
                   <=> q \in P /\ (q = l.holder \/ \E i \in 1..n : w[i] = q)
      BY DEF Members, n
    <3>3. \A q : (\E i \in 1..Len(x) : x[i] = q)
                   <=> (\E i \in 1..n : w[i] = q) \/ \E i \in 1..Len(ps) : ps[i] = q
      <4>1. ASSUME NEW q, NEW i \in 1..Len(x), x[i] = q
            PROVE  (\E k \in 1..n : w[k] = q) \/ \E k \in 1..Len(ps) : ps[k] = q
        BY <2>8, <4>1, Zenon
      <4>2. ASSUME NEW q, NEW i \in 1..n, w[i] = q
            PROVE  \E k \in 1..Len(x) : x[k] = q
        BY <2>3, <4>2, Zenon
      <4>3. ASSUME NEW q, NEW i \in 1..Len(ps), ps[i] = q
            PROVE  \E k \in 1..Len(x) : x[k] = q
        BY <2>4, <4>3, Zenon
      <4> QED BY <4>1, <4>2, <4>3, Zenon
    <3>4. \A q : q \in {ps[i] : i \in 1..Len(ps)}
                   <=> q \in P /\ \E i \in 1..Len(ps) : ps[i] = q
      OBVIOUS
    <3> HIDE DEF e
    <3>5. \A q : q \in Members(e, P)
                   <=> q \in Members(l, P) \cup {ps[i] : i \in 1..Len(ps)}
      BY <3>1, <3>2, <3>3, <3>4, Zenon
    <3> QED BY <3>5, Zenon
  <2>12. \A u \in Members(l, P), i \in 1..Len(ps) : ~Before(e, ps[i], u)
    <3> SUFFICES ASSUME NEW u \in Members(l, P), NEW i \in 1..Len(ps), Before(e, ps[i], u)
                 PROVE  FALSE
      OBVIOUS
    <3>1. PICK j \in 1..Len(x) :
            /\ x[j] = u
            /\ ps[i] = l.holder \/ \E k \in 1..Len(x) : k < j /\ x[k] = ps[i]
      BY <2>1 DEF Before
    <3>2. PICK k \in 1..Len(x) : k < j /\ x[k] = ps[i]
      BY <2>6, <3>1
    <3>3. k \notin 1..n
      BY <2>3, <2>6, <3>2
    <3>4. j \in 1..n
      <4>1. \A m \in 1..Len(ps) : ps[m] # u
        OBVIOUS
      <4> QED BY <2>8, <3>1, <4>1
    <3> QED BY <2>9, <3>2, <3>3, <3>4
  <2> QED BY <1>2, <2>1, <2>2, <2>10, <2>11, <2>12 DEF Locks
<1> QED BY <1>1, <1>2
==============================================================================
