------------------------------ MODULE AsyncLock ------------------------------
(***************************************************************************)
(* asyncio.Lock as Paradox uses it for request_lock and busy               *)
(* (paradox.py, Paradox.__init__): one holder and a first-come first-      *)
(* served list of waiting tasks.  asyncio wakes the first waiter when the  *)
(* holder leaves and sends every later acquire() to the end of the list    *)
(* while somebody waits, so the lock is in effect handed over: the holder  *)
(* of the model is the task the lock was handed to, even before that task  *)
(* has run again.                                                          *)
(***************************************************************************)
EXTENDS Sequences

CONSTANT NoOne

Locks(P) == [holder : P \cup {NoOne}, waiters : Seq(P)]

Unlocked == [holder |-> NoOne, waiters |-> <<>>]

\* acquire(): returns at once on a free lock, otherwise the caller waits.
Enter(l, p) ==
  IF l.holder = NoOne
  THEN [holder |-> p, waiters |-> l.waiters]
  ELSE [holder |-> l.holder, waiters |-> Append(l.waiters, p)]

\* acquire() by the tasks of the sequence ps, one after the other.
EnterAll(l, ps) ==
  IF l.holder = NoOne /\ ps # <<>>
  THEN [holder |-> Head(ps), waiters |-> l.waiters \o Tail(ps)]
  ELSE [holder |-> l.holder, waiters |-> l.waiters \o ps]

\* release(): the first waiter, if there is one, is woken and owns the lock.
Leave(l) ==
  IF l.waiters = <<>>
  THEN Unlocked
  ELSE [holder |-> Head(l.waiters), waiters |-> Tail(l.waiters)]
==============================================================================
