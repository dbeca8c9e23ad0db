------------------------------- MODULE Induction ------------------------------
(***************************************************************************)
(* Induction over the naturals, for the proofs about what PAI computes     *)
(* along a list: handlers of the clients, messages in a stream, the fields *)
(* of a memory map.  The induction theorems of the library take an         *)
(* operator as their parameter; these take a set.  Then there are facts    *)
(* about streams that come in pieces.                                      *)
(***************************************************************************)
EXTENDS Integers, Sequences, SequenceTheorems, WellFoundedInduction, TLAPS

\* Every set of naturals that is not empty has a least one.
LEMMA LeastNatural ==
  ASSUME NEW S \in SUBSET Nat, S # {}
  PROVE  \E n \in S : \A m \in S : n <= m
<1> DEFINE Less == OpToRel(<, Nat)
<1>1. IsWellFoundedOn(Less, Nat)
  BY NatLessThanWellFounded
<1>2. \A x, y \in Nat : x < y => <<x, y>> \in Less
  BY DEF OpToRel
<1> HIDE DEF Less
<1>3. \E n \in S : \A m \in S : ~(<<m, n>> \in Less)
  BY <1>1, WFMin
<1>4. PICK n \in S : \A m \in S : ~(<<m, n>> \in Less)
  BY <1>3
<1>5. ASSUME NEW m \in S
      PROVE  n <= m
  <2>1. n \in Nat /\ m \in Nat /\ ~(m < n)
    BY <1>2, <1>4
  <2> QED BY <2>1
<1> QED BY <1>5

\* A set with 0, and with the successor of each of its naturals, has all of them.
LEMMA NaturalInduction ==
  ASSUME NEW S, 0 \in S, \A n \in Nat : n \in S => n + 1 \in S
  PROVE  Nat \subseteq S
<1> SUFFICES ASSUME Nat \ S # {}
             PROVE  FALSE
  OBVIOUS
<1>1. PICK n \in Nat \ S : \A m \in Nat \ S : n <= m
  BY LeastNatural
<1>2. n # 0 /\ n - 1 \in Nat
  OBVIOUS
<1>3. n - 1 \in S
  BY <1>1, <1>2
<1> QED BY <1>2, <1>3

\* A set of naturals that is not empty and has a bound has a greatest one.
LEMMA GreatestNatural ==
  ASSUME NEW S \in SUBSET Nat, S # {}, NEW b \in Nat, \A n \in S : n <= b
  PROVE  \E n \in S : \A m \in S : m <= n
<1> DEFINE Below == {b - n : n \in S}
<1>1. Below \in SUBSET Nat /\ Below # {}
  <2>1. \A n \in S : b - n \in Nat
    OBVIOUS
  <2>2. \E n \in S : TRUE
    OBVIOUS
  <2> QED BY <2>1, <2>2
<1>2. PICK d \in Below : \A e \in Below : d <= e
  BY <1>1, LeastNatural
<1>3. PICK n \in S : d = b - n
  OBVIOUS
<1>4. ASSUME NEW m \in S
      PROVE  m <= n
  <2>1. b - n <= b - m
    BY <1>2, <1>3
  <2> QED BY <2>1
<1> QED BY <1>4

\* f is computed from base, each value from the one before by Step.
IsRecursive(f, S, N, base, Step) ==
  /\ f \in [0..N -> S]
  /\ f[0] = base
  /\ \A n \in 1..N : f[n] = Step[n][f[n - 1]]

\* There is such a function: a recursive definition over 0..N means what it says.
LEMMA Recursion ==
  ASSUME NEW S, NEW base \in S, NEW N \in Nat, NEW Step \in [1..N -> [S -> S]]
  PROVE  \E f : IsRecursive(f, S, N, base, Step)
<1> DEFINE Until(n, f) == /\ f[0] = base
                          /\ \A k \in 1..n : f[k] = Step[k][f[k - 1]]
           Reached == {n \in Nat : n <= N => \E f \in [0..n -> S] : Until(n, f)}
<1>1. 0 \in Reached
  <2>1. [n \in 0..0 |-> base] \in [0..0 -> S] /\ Until(0, [n \in 0..0 |-> base])
    OBVIOUS
  <2> QED BY <2>1
<1>2. ASSUME NEW n \in Nat, n \in Reached
      PROVE  n + 1 \in Reached
  <2> SUFFICES ASSUME n + 1 <= N
               PROVE  \E f \in [0..n + 1 -> S] : Until(n + 1, f)
    OBVIOUS
  <2>1. PICK f \in [0..n -> S] : Until(n, f)
    BY <1>2
  <2> DEFINE g == [k \in 0..n + 1 |-> IF k = n + 1 THEN Step[n + 1][f[n]] ELSE f[k]]
  <2>2. Step[n + 1][f[n]] \in S
    OBVIOUS
  <2>3. g \in [0..n + 1 -> S]
    BY <2>2
  <2>4. g[0] = base
    BY <2>1
  <2>5. ASSUME NEW k \in 1..n + 1
        PROVE  g[k] = Step[k][g[k - 1]]
    <3>1. CASE k = n + 1
      <4>1. g[n] = f[n]
        OBVIOUS
      <4> QED BY <3>1, <4>1
    <3>2. CASE k \in 1..n
      <4>1. g[k] = f[k] /\ g[k - 1] = f[k - 1]
        BY <3>2
      <4> QED BY <2>1, <3>2, <4>1
    <3> QED BY <3>1, <3>2
  <2> QED BY <2>3, <2>4, <2>5
<1> HIDE DEF Reached
<1>3. N \in Reached
  BY <1>1, <1>2, NaturalInduction
<1>4. PICK f \in [0..N -> S] : Until(N, f)
  BY <1>3 DEF Reached
<1> QED BY <1>4 DEF IsRecursive

\* f is computed from all its values before, by Step.
IsTraced(f, S, N, Step) ==
  /\ f \in [0..N -> S]
  /\ \A n \in 0..N : f[n] = Step[n][[k \in 0..n - 1 |-> f[k]]]

\* There is such a function, too.
LEMMA Tracing ==
  ASSUME NEW S, NEW N \in Nat, NEW Step,
         \A n \in 0..N : \A g \in [0..n - 1 -> S] : Step[n][g] \in S
  PROVE  \E f : IsTraced(f, S, N, Step)
<1> DEFINE Before(f, n) == [k \in 0..n - 1 |-> f[k]]
           Until(n, f) == \A k \in 0..n - 1 : f[k] = Step[k][Before(f, k)]
           Reached == {n \in Nat : n <= N + 1 => \E f \in [0..n - 1 -> S] : Until(n, f)}
<1>1. 0 \in Reached
  <2>1. [n \in 0..0 - 1 |-> 0] \in [0..0 - 1 -> S] /\ Until(0, [n \in 0..0 - 1 |-> 0])
    OBVIOUS
  <2> QED BY <2>1
<1>2. ASSUME NEW n \in Nat, n \in Reached
      PROVE  n + 1 \in Reached
  <2> SUFFICES ASSUME n + 1 <= N + 1
               PROVE  \E f \in [0..(n + 1) - 1 -> S] : Until(n + 1, f)
    OBVIOUS
  <2>1. PICK f \in [0..n - 1 -> S] : Until(n, f)
    BY <1>2
  <2> DEFINE g == [k \in 0..n |-> IF k = n THEN Step[n][f] ELSE f[k]]
  <2>2. Step[n][f] \in S
    OBVIOUS
  <2>3. g \in [0..(n + 1) - 1 -> S]
    BY <2>2
  <2>4. ASSUME NEW k \in 0..n
        PROVE  k \in 0..n - 1 => Before(g, k) = Before(f, k)
    OBVIOUS
  <2>5. Before(g, n) = f
    <3>1. Before(g, n) = [k \in 0..n - 1 |-> f[k]]
      OBVIOUS
    <3> QED BY <3>1
  <2>6. ASSUME NEW k \in 0..(n + 1) - 1
        PROVE  g[k] = Step[k][Before(g, k)]
    <3>1. CASE k = n
      <4>1. g[n] = Step[n][f]
        OBVIOUS
      <4> HIDE DEF Before, g
      <4> QED BY <2>5, <3>1, <4>1
    <3>2. CASE k \in 0..n - 1
      <4>1. g[k] = f[k]
        BY <3>2
      <4>2. f[k] = Step[k][Before(f, k)]
        BY <2>1, <3>2
      <4>3. Before(g, k) = Before(f, k)
        BY <2>4, <3>2
      <4> HIDE DEF Before, g
      <4> QED BY <4>1, <4>2, <4>3
    <3> QED BY <3>1, <3>2
  <2> HIDE DEF g, Before
  <2> QED BY <2>3, <2>6
<1> HIDE DEF Reached
<1>3. N + 1 \in Reached
  BY <1>1, <1>2, NaturalInduction
<1>4. PICK f \in [0..(N + 1) - 1 -> S] : Until(N + 1, f)
  BY <1>3 DEF Reached
<1> QED BY <1>4 DEF IsTraced

-----------------------------------------------------------------------------
(* Sequences that come in pieces *)

\* A stream that comes in two parts.
IsJoined(all, first, second) == all = first \o second

\* It may be all of the message.
IsPartOrWhole(b, m) == Len(b) <= Len(m) /\ \A q \in 1..Len(b) : b[q] = m[q]

\* The first n elements of a sequence.
LEMMA FirstElements ==
  ASSUME NEW S, NEW s \in Seq(S), NEW n \in Nat, n <= Len(s)
  PROVE  /\ SubSeq(s, 1, n) \in Seq(S) /\ Len(SubSeq(s, 1, n)) = n
         /\ \A i \in 1..n : SubSeq(s, 1, n)[i] = s[i]
OBVIOUS

\* A part of a sequence.
LEMMA PartOf ==
  ASSUME NEW S, NEW s \in Seq(S), NEW a \in Nat, NEW z \in Nat, a <= z, z <= Len(s)
  PROVE  /\ SubSeq(s, a + 1, z) \in Seq(S) /\ Len(SubSeq(s, a + 1, z)) = z - a
         /\ \A i \in 1..z - a : SubSeq(s, a + 1, z)[i] = s[a + i]
OBVIOUS

\* Pieces may be joined in any order.
LEMMA Associative ==
  \A a, b, c \in Seq(Nat) : (a \o b) \o c = a \o (b \o c)
BY ConcatAssociative

\* What comes behind the same message is the same.
LEMMA CancelFirst ==
  \A a, b, c \in Seq(Nat) : a \o b = a \o c => b = c
BY ConcatSimplifications

\* What has been received of a stream of two messages, before "left" comes.
LEMMA PartOfFirst ==
  ASSUME NEW m \in Seq(Nat), NEW n \in Seq(Nat), NEW got \in Seq(Nat),
         NEW left \in Seq(Nat), NEW all, IsJoined(all, got, left), IsJoined(all, m, n),
         Len(got) <= Len(m)
  PROVE  IsPartOrWhole(got, m)
<1>0. got \o left = m \o n
  BY DEF IsJoined
<1>1. \A q \in 1..Len(got) + Len(left) :
        (got \o left)[q] = IF q <= Len(got) THEN got[q] ELSE left[q - Len(got)]
  BY ConcatProperties
<1>2. \A q \in 1..Len(m) + Len(n) :
        (m \o n)[q] = IF q <= Len(m) THEN m[q] ELSE n[q - Len(m)]
  BY ConcatProperties
<1>3. ASSUME NEW q \in 1..Len(got)
      PROVE  got[q] = m[q]
  <2>1. /\ q \in 1..Len(got) + Len(left) /\ q \in 1..Len(m) + Len(n)
        /\ q <= Len(got) /\ q <= Len(m)
    OBVIOUS
  <2> QED BY <1>0, <1>1, <1>2, <2>1
<1> QED BY <1>3 DEF IsPartOrWhole

\* What has been received of one message.
LEMMA PartOfLast ==
  ASSUME NEW n \in Seq(Nat), NEW rest \in Seq(Nat), NEW left \in Seq(Nat),
         IsJoined(n, rest, left)
  PROVE  /\ IsPartOrWhole(rest, n)
         /\ ~(Len(rest) < Len(n)) => left = <<>>
<1>0. rest \o left = n
  BY DEF IsJoined
<1>1. /\ Len(rest \o left) = Len(rest) + Len(left)
      /\ \A q \in 1..Len(rest) + Len(left) :
           (rest \o left)[q] = IF q <= Len(rest) THEN rest[q] ELSE left[q - Len(rest)]
  BY ConcatProperties
<1>2. /\ Len(rest) \in Nat /\ Len(left) \in Nat /\ Len(n) = Len(rest) + Len(left)
  BY <1>0, <1>1
<1>3. ASSUME NEW q \in 1..Len(rest)
      PROVE  rest[q] = n[q]
  <2>1. q \in 1..Len(rest) + Len(left) /\ q <= Len(rest)
    BY <1>2
  <2> QED BY <1>0, <1>1, <2>1
<1>4. ~(Len(rest) < Len(n)) => Len(left) = 0
  BY <1>2
<1>5. Len(left) = 0 => left = <<>>
  BY EmptySeq
<1>6. Len(rest) <= Len(n)
  BY <1>2
<1> QED BY <1>3, <1>4, <1>5, <1>6 DEF IsPartOrWhole

\* More than the first message has been received.
LEMMA BeyondFirst ==
  ASSUME NEW m \in Seq(Nat), NEW n \in Seq(Nat), NEW got \in Seq(Nat),
         NEW left \in Seq(Nat), NEW all, IsJoined(all, got, left), IsJoined(all, m, n),
         Len(m) <= Len(got)
  PROVE  \E rest \in Seq(Nat) : IsJoined(got, m, rest) /\ IsJoined(n, rest, left)
<1>0. got \o left = m \o n
  BY DEF IsJoined
<1> DEFINE rest == SubSeq(got, Len(m) + 1, Len(got))
<1>1. Len(m) \in Nat /\ Len(got) \in Nat /\ Len(n) \in Nat /\ Len(left) \in Nat
  OBVIOUS
<1>2. /\ rest \in Seq(Nat) /\ Len(rest) = Len(got) - Len(m)
      /\ \A q \in 1..Len(got) - Len(m) : rest[q] = got[Len(m) + q]
  <2> DEFINE a == Len(m)
             z == Len(got)
  <2>1. a \in Nat /\ z \in Nat /\ a <= z /\ z <= Len(got)
    BY <1>1
  <2>2. rest = SubSeq(got, a + 1, z)
    OBVIOUS
  <2> HIDE DEF a, z, rest
  <2>3. /\ rest \in Seq(Nat) /\ Len(rest) = z - a
        /\ \A q \in 1..z - a : rest[q] = got[a + q]
    BY <2>1, <2>2, PartOf
  <2> QED BY <2>3 DEF a, z
<1> HIDE DEF rest
<1>3. /\ Len(got \o left) = Len(got) + Len(left)
      /\ \A q \in 1..Len(got) + Len(left) :
           (got \o left)[q] = IF q <= Len(got) THEN got[q] ELSE left[q - Len(got)]
  BY ConcatProperties
<1>4. /\ Len(m \o n) = Len(m) + Len(n)
      /\ \A q \in 1..Len(m) + Len(n) :
           (m \o n)[q] = IF q <= Len(m) THEN m[q] ELSE n[q - Len(m)]
  BY ConcatProperties
<1>5. /\ m \o rest \in Seq(Nat) /\ Len(m \o rest) = Len(m) + Len(rest)
      /\ \A q \in 1..Len(m) + Len(rest) :
           (m \o rest)[q] = IF q <= Len(m) THEN m[q] ELSE rest[q - Len(m)]
  BY <1>2, ConcatProperties
<1>6. ASSUME NEW q \in 1..Len(got)
      PROVE  got[q] = (m \o rest)[q]
  <2>1. q \in 1..Len(m) + Len(rest) /\ q \in 1..Len(got) + Len(left)
        /\ q \in 1..Len(m) + Len(n) /\ q <= Len(got)
    BY <1>0, <1>1, <1>2, <1>3, <1>4
  <2>2. CASE q <= Len(m)
    BY <1>0, <1>3, <1>4, <1>5, <2>1, <2>2
  <2>3. CASE ~(q <= Len(m))
    <3>1. q - Len(m) \in 1..Len(got) - Len(m) /\ Len(m) + (q - Len(m)) = q
      BY <1>1, <2>1, <2>3
    <3> QED BY <1>2, <1>5, <2>1, <2>3, <3>1
  <2> QED BY <2>2, <2>3
<1>7. Len(got) = Len(m \o rest)
  BY <1>1, <1>2, <1>5
<1>8. got = m \o rest
  BY <1>5, <1>6, <1>7, SeqEqual
<1>9. m \o (rest \o left) = m \o n
  <2>1. (m \o rest) \o left = m \o (rest \o left)
    BY <1>2, Associative
  <2> QED BY <1>0, <1>8, <2>1
<1>10. rest \o left \in Seq(Nat)
  BY <1>2, ConcatProperties
<1>11. rest \o left = n
  BY <1>9, <1>10, CancelFirst
<1> QED BY <1>2, <1>8, <1>11 DEF IsJoined

\* More comes.
LEMMA Joins ==
  ASSUME NEW got \in Seq(Nat), NEW new \in Seq(Nat), NEW left \in Seq(Nat),
         NEW coming, NEW all, IsJoined(all, got, coming), IsJoined(coming, new, left)
  PROVE  \E more \in Seq(Nat) : IsJoined(more, got, new) /\ IsJoined(all, more, left)
<1>1. (got \o new) \o left = got \o (new \o left) /\ got \o new \in Seq(Nat)
  BY Associative, ConcatProperties
<1>2. all = (got \o new) \o left
  BY <1>1 DEF IsJoined
<1> QED BY <1>1, <1>2 DEF IsJoined

\* What comes behind the first message.
LEMMA JoinsBehind ==
  ASSUME NEW m \in Seq(Nat), NEW kept \in Seq(Nat), NEW new \in Seq(Nat),
         NEW got, NEW more, IsJoined(got, m, kept), IsJoined(more, got, new)
  PROVE  \E rest \in Seq(Nat) : IsJoined(rest, kept, new) /\ IsJoined(more, m, rest)
<1>1. kept \o new \in Seq(Nat)
  BY ConcatProperties
<1>2. (m \o kept) \o new = m \o (kept \o new)
  BY Associative
<1> QED BY <1>1, <1>2 DEF IsJoined

\* What is left belongs to the last message.
LEMMA LeftOfLast ==
  ASSUME NEW m \in Seq(Nat), NEW n \in Seq(Nat), NEW rest \in Seq(Nat),
         NEW left \in Seq(Nat), NEW more, NEW all, IsJoined(more, m, rest),
         IsJoined(all, more, left), IsJoined(all, m, n)
  PROVE  IsJoined(n, rest, left)
<1>1. (m \o rest) \o left = m \o (rest \o left)
  BY Associative
<1>2. m \o (rest \o left) = m \o n
  BY <1>1 DEF IsJoined
<1>3. rest \o left \in Seq(Nat)
  BY ConcatProperties
<1> QED BY <1>2, <1>3, CancelFirst DEF IsJoined

\* More comes of the last message.
LEMMA JoinsLast ==
  ASSUME NEW m \in Seq(Nat), NEW n \in Seq(Nat), NEW kept \in Seq(Nat),
         NEW new \in Seq(Nat), NEW left \in Seq(Nat), NEW got, NEW more, NEW all,
         IsJoined(got, m, kept), IsJoined(more, got, new), IsJoined(all, more, left),
         IsJoined(all, m, n)
  PROVE  \E rest \in Seq(Nat) : /\ IsJoined(rest, kept, new) /\ IsJoined(more, m, rest)
                               /\ IsJoined(n, rest, left)
<1>1. PICK rest \in Seq(Nat) : IsJoined(rest, kept, new) /\ IsJoined(more, m, rest)
  BY JoinsBehind
<1>2. IsJoined(n, rest, left)
  BY <1>1, LeftOfLast
<1> QED BY <1>1, <1>2

\* A sequence in two pieces.
LEMMA TwoPieces ==
  ASSUME NEW s \in Seq(Nat), NEW k \in Nat, k <= Len(s)
  PROVE  /\ SubSeq(s, 1, k) \in Seq(Nat) /\ SubSeq(s, k + 1, Len(s)) \in Seq(Nat)
         /\ IsJoined(s, SubSeq(s, 1, k), SubSeq(s, k + 1, Len(s)))
<1>1. /\ 1 \in 1..Len(s) + 1 /\ k \in 1 - 1..Len(s) /\ Len(s) \in k..Len(s)
  OBVIOUS
<1>2. SubSeq(s, 1, k) \o SubSeq(s, k + 1, Len(s)) = SubSeq(s, 1, Len(s))
  BY <1>1, ConcatAdjacentSubSeq
<1>3. SubSeq(s, 1, Len(s)) = s
  BY SubSeqFull
<1>4. SubSeq(s, 1, k) \in Seq(Nat) /\ SubSeq(s, k + 1, Len(s)) \in Seq(Nat)
  OBVIOUS
<1> QED BY <1>2, <1>3, <1>4 DEF IsJoined
==============================================================================
