---------------------------- MODULE InterfacesProofs ---------------------------
(***************************************************************************)
(* What TLAPS proves of the modules that MCInterfaces runs: IPConnection,  *)
(* for any number of transports, session commands and tries; IPFraming,    *)
(* for messages and segments of any size; ClientFanout, for any clients,   *)
(* messages and numbers; and, carried over from LifecycleProofs, a session *)
(* that no IP client disturbs.                                             *)
(***************************************************************************)
EXTENDS MCInterfaces, Induction, SequenceTheorems

USE NoneAssumption, CommandsAssumption, MaxTriesAssumption, CloseAssumption

-----------------------------------------------------------------------------
(* IPConnection: type correctness *)

\* A failed try leaves the variables it changes in their types.
LEMMA TryFailsType ==
  ASSUME TypeOK, TryFails
  PROVE  /\ pc' \in {"idle", "dialing"} /\ tries' \in 1..MaxTries
         /\ step' = 0 /\ answer' = None
BY DEF TypeOK, TryFails

\* The values the model starts from, or goes back to, have the right types.
LEMMA Constants ==
  /\ 1 \in 1..MaxTries /\ 0 \in 0..Commands
  /\ <<>> \in Seq(1..Commands)
OBVIOUS

\* Every step of the task, the transports and the module keeps the types.
LEMMA NextType == TypeOK /\ [Next]_vars => TypeOK'
<1> SUFFICES ASSUME TypeOK, [Next]_vars PROVE TypeOK'
  OBVIOUS
<1>1. CASE Connect
  BY <1>1, Constants DEF Connect, TypeOK
<1>2. ASSUME NEW t \in Transports, Dialed(t) PROVE TypeOK'
  <2>1. CASE Commands = 0
    BY <1>2, <2>1 DEF Dialed, TypeOK
  <2>2. CASE Commands # 0
    <3>1. 1 \in 0..Commands /\ <<1>> \in Seq(1..Commands)
      BY <2>2
    <3>2. /\ pc' = "command" /\ step' = 1 /\ flag' = flag
          /\ pending' = [pending EXCEPT ![t] = <<1>>]
      BY <1>2, <2>2 DEF Dialed
    <3>3. pending' \in [Transports -> Seq(1..Commands)]
      BY <3>1, <3>2 DEF TypeOK
    <3> QED BY <1>2, <3>1, <3>2, <3>3 DEF Dialed, TypeOK
  <2> QED BY <2>1, <2>2
<1>3. CASE DialFails
  BY <1>3, TryFailsType DEF DialFails, TypeOK
<1>4. CASE Answered
  <2>0. answer \in Answers /\ answer.from \in Transports /\ step \in 1..Commands
    BY <1>4 DEF Answered, TypeOK, Answers
  <2>1. /\ answer \in Answers /\ step \in 1..Commands
        /\ key' \in [Transports -> Transports \cup {None}]
    BY <1>4, <2>0 DEF Answered, TypeOK
  <2>2. CASE step = Commands
    BY <1>4, <2>1, <2>2 DEF Answered, TypeOK
  <2>3. CASE step # Commands /\ Active
    <3>1. step + 1 \in 1..Commands /\ step + 1 # 0 /\ protocol \in Transports
      BY <2>1, <2>3 DEF TypeOK, Active
    <3>2. Append(pending[protocol], step + 1) \in Seq(1..Commands)
      BY <3>1 DEF TypeOK
    <3>3. /\ pc' = pc /\ flag' = flag /\ tries' = tries /\ step' = step + 1
          /\ answer' = None /\ protocol' = protocol /\ tcp' = tcp /\ late' = late
          /\ pending' = [pending EXCEPT ![protocol] = Append(@, step + 1)]
      BY <1>4, <2>3 DEF Answered
    <3>4. pending' \in [Transports -> Seq(1..Commands)]
      BY <3>1, <3>2, <3>3 DEF TypeOK
    <3>5. step' \in 0..Commands /\ step' # 0 /\ pc' = "command"
      BY <1>4, <3>1, <3>3 DEF Answered
    <3> QED BY <2>1, <3>3, <3>4, <3>5 DEF TypeOK
  <2>4. CASE step # Commands /\ ~Active
    BY <1>4, <2>1, <2>4, TryFailsType DEF Answered, TypeOK
  <2> QED BY <2>2, <2>3, <2>4
<1>5. CASE AnswerUnusable
  BY <1>5, TryFailsType DEF AnswerUnusable, TypeOK
<1>6. CASE PasswordInvalid
  BY <1>6 DEF PasswordInvalid, TypeOK
<1>7. CASE CommandTimesOut
  BY <1>7, TryFailsType DEF CommandTimesOut, TypeOK
<1>8. CASE Disconnect
  BY <1>8 DEF Disconnect, TypeOK
<1>9. CASE Closed
  BY <1>9 DEF Closed, TypeOK
<1>10. CASE CloseTimesOut
  BY <1>10 DEF CloseTimesOut, TypeOK
<1>11. ASSUME NEW t \in Transports, ConnectionLost(t) PROVE TypeOK'
  BY <1>11, Constants DEF ConnectionLost, TypeOK
<1>12. ASSUME NEW t \in Transports, ModuleAnswers(t) PROVE TypeOK'
  <2>1. Head(pending[t]) \in 1..Commands /\ Tail(pending[t]) \in Seq(1..Commands)
    BY <1>12 DEF ModuleAnswers, TypeOK
  <2>2. [from |-> t, of |-> Head(pending[t])] \in Answers
    BY <2>1 DEF Answers
  <2> QED BY <1>12, <2>1, <2>2 DEF ModuleAnswers, TypeOK
<1>13. ASSUME NEW t \in Transports, CommandLost(t) PROVE TypeOK'
  <2>1. Tail(pending[t]) \in Seq(1..Commands)
    BY <1>13 DEF CommandLost, TypeOK
  <2> QED BY <1>13, <2>1 DEF CommandLost, TypeOK
<1>14. CASE UNCHANGED vars
  BY <1>14 DEF vars, TypeOK
<1> QED
  BY <1>1, <1>2, <1>3, <1>4, <1>5, <1>6, <1>7, <1>8, <1>9, <1>10, <1>11, <1>12, <1>13,
     <1>14 DEF Next, Dial, Await, Wire

\* Every variable keeps its type; in particular connect() never makes more than
\* max_tries tries.
THEOREM TypesKept == Spec => []TypeOK
<1>1. Init => TypeOK
  BY Constants DEF Init, TypeOK
<1> QED BY <1>1, NextType, PTL DEF Spec

-----------------------------------------------------------------------------
(* A bare connection *)

\* A transport is open or closing only in the session that uses it, and the
\* session is marked as connected exactly as long as the transport is there.
BareInv ==
  /\ TypeOK
  /\ NoTransportLeft
  /\ pc \in {"idle", "dialing"} => \A t \in Transports : tcp[t] = "gone"
  /\ pc \in {"up", "closing"} => protocol # None
  /\ pc = "up" /\ tcp[protocol] # "gone" => flag /\ tcp[protocol] = "open"

\* Without session commands the task is never inside of one.
LEMMA NoCommand ==
  ASSUME TypeOK, Commands = 0 PROVE pc # "command" /\ step = 0
BY DEF TypeOK

\* Without session commands, and when close() ends in time, every step keeps BareInv.
LEMMA NextBare ==
  ASSUME Commands = 0, CloseInTime, BareInv, [Next]_vars PROVE BareInv'
<1> USE DEF BareInv, NoTransportLeft
<1>0. TypeOK /\ TypeOK'
  BY NextType
<1>1. CASE Connect
  BY <1>0, <1>1 DEF Connect
<1>2. ASSUME NEW t \in Transports, Dialed(t) PROVE BareInv'
  <2>1. /\ pc = "dialing" /\ pc' = "up" /\ protocol' = t /\ flag' = TRUE
        /\ tcp' = [tcp EXCEPT ![t] = "open"]
    BY <1>2 DEF Dialed
  <2> QED BY <1>0, <2>1 DEF TypeOK
<1>3. CASE DialFails
  BY <1>0, <1>3, TryFailsType DEF DialFails
<1>4. CASE Await
  BY <1>0, <1>4, NoCommand DEF Await, Answered, AnswerUnusable, PasswordInvalid,
     CommandTimesOut
<1>5. CASE Disconnect
  BY <1>0, <1>5 DEF Disconnect, Connected, Active, TypeOK
<1>6. CASE Closed
  BY <1>0, <1>6 DEF Closed, TypeOK
<1>7. CASE CloseTimesOut
  BY <1>7 DEF CloseTimesOut
<1>8. ASSUME NEW t \in Transports, ConnectionLost(t) PROVE BareInv'
  BY <1>0, <1>8 DEF ConnectionLost, TypeOK
<1>9. ASSUME NEW t \in Transports, Wire(t) PROVE BareInv'
  BY <1>0, <1>9 DEF Wire, ModuleAnswers, CommandLost
<1>10. CASE UNCHANGED vars
  BY <1>0, <1>10 DEF vars
<1> QED
  BY <1>1, <1>2, <1>3, <1>4, <1>5, <1>6, <1>7, <1>8, <1>9, <1>10 DEF Next, Dial

\* BareInv holds in every reachable state of a bare connection.
LEMMA BareInvariant == ASSUME Commands = 0, CloseInTime PROVE Spec => []BareInv
<1>1. Init => BareInv
  BY Constants DEF Init, BareInv, TypeOK, NoTransportLeft
<1>2. BareInv /\ [Next]_vars => BareInv'
  BY NextBare
<1> QED BY <1>1, <1>2, PTL DEF Spec

\* However often a bare connection is lost and made again, no socket but the
\* current one is open.
THEOREM BareLeavesNoTransport ==
  ASSUME Commands = 0, CloseInTime PROVE Spec => []NoTransportLeft
<1>1. BareInv => NoTransportLeft
  BY DEF BareInv
<1> QED BY <1>1, BareInvariant, PTL

\* A session of a bare connection ends only with its own transport.
THEOREM BareLossIsOwn ==
  ASSUME Commands = 0, CloseInTime PROVE Spec => LossIsOwn
<1> DEFINE Step == pc = "up" /\ pc' = "up" /\ Connected
                   => Connected' \/ tcp'[protocol] # "open"
<1>1. ASSUME BareInv, [Next]_vars PROVE [Step]_vars
  <2> SUFFICES ASSUME pc = "up", pc' = "up", flag, Active, tcp'[protocol] = "open"
               PROVE  Connected'
    BY DEF Connected
  <2>1. protocol \in Transports /\ tcp[protocol] = "open" /\ flag
    BY <1>1 DEF BareInv, TypeOK, Active
  <2>2. protocol' = protocol /\ flag'
    <3>1. ASSUME NEW t \in Transports, ConnectionLost(t) PROVE FALSE
      <4>1. t = protocol
        BY <1>1, <3>1 DEF ConnectionLost, BareInv, NoTransportLeft
      <4> QED BY <1>1, <2>1, <3>1, <4>1 DEF ConnectionLost, BareInv, TypeOK
    <3>2. ASSUME NEW t \in Transports, Wire(t) PROVE protocol' = protocol /\ flag'
      BY <2>1, <3>2 DEF Wire, ModuleAnswers, CommandLost
    <3>3. CASE UNCHANGED vars
      BY <2>1, <3>3 DEF vars
    <3>4. ~Connect /\ ~Dial /\ ~Await /\ ~Disconnect /\ ~Closed /\ ~CloseTimesOut
      BY DEF Connect, Dial, DialFails, Dialed, Await, Answered, AnswerUnusable,
         PasswordInvalid, CommandTimesOut, Disconnect, Closed, CloseTimesOut
    <3> QED BY <1>1, <3>1, <3>2, <3>3, <3>4 DEF Next
  <2> QED BY <2>1, <2>2 DEF Connected, Active
<1> QED BY <1>1, BareInvariant, PTL DEF Spec, LossIsOwn

-----------------------------------------------------------------------------
(* The session key *)

\* Until an answer is late, at most one message is under way: the command of
\* the current try or its answer.
KeyInv ==
  /\ TypeOK
  /\ \A t \in Transports :
       pending[t] # <<>> => /\ pc = "command" /\ answer = None /\ t = protocol
                            /\ tcp[t] = "open" /\ Len(pending[t]) = 1
  /\ answer # None => pc = "command" /\ answer.from = protocol
  /\ pc = "command" /\ step > 1 => key[protocol] = protocol
  /\ pc \in {"command", "up"} => protocol # None
  /\ pc = "up" /\ Commands > 0 => key[protocol] = protocol

\* What is left of a sequence of length one.
LEMMA TailOfOne ==
  ASSUME NEW S, NEW s \in Seq(S), Len(s) = 1 PROVE Tail(s) = <<>>
<1>1. s # <<>>
  BY EmptySeq
<1>2. Tail(s) \in Seq(S) /\ Len(Tail(s)) = 0
  BY <1>1, HeadTailProperties
<1> QED BY <1>2, EmptySeq

\* A step after which no answer has been late keeps KeyInv.
LEMMA NextKey == ASSUME ~late', KeyInv, [Next]_vars PROVE KeyInv'
<1> USE DEF KeyInv
<1>0. TypeOK /\ TypeOK'
  BY NextType
<1>1. CASE Connect
  BY <1>0, <1>1 DEF Connect
<1>2. ASSUME NEW t \in Transports, Dialed(t) PROVE KeyInv'
  <2>1. /\ pc = "dialing" /\ protocol' = t /\ answer' = None /\ answer = None
        /\ \A u \in Transports : pending[u] = <<>>
    BY <1>2 DEF Dialed
  <2>2. CASE Commands = 0
    BY <1>0, <1>2, <2>1, <2>2 DEF Dialed, TypeOK
  <2>3. CASE Commands # 0
    <3>1. /\ pc' = "command" /\ step' = 1 /\ tcp' = [tcp EXCEPT ![t] = "open"]
          /\ pending' = [pending EXCEPT ![t] = <<1>>]
      BY <1>2, <2>3 DEF Dialed
    <3> QED BY <1>0, <2>1, <3>1 DEF TypeOK
  <2> QED BY <2>2, <2>3
<1>3. CASE DialFails
  BY <1>0, <1>3, TryFailsType DEF DialFails
<1>4. CASE Answered
  <2>1. /\ pc = "command" /\ answer # None /\ answer.from = protocol
        /\ \A t \in Transports : pending[t] = <<>>
        /\ step \in 1..Commands /\ protocol \in Transports
    BY <1>0, <1>4 DEF Answered, TypeOK
  <2>2. key'[protocol] = protocol /\ protocol' = protocol /\ tcp' = tcp
    BY <1>0, <1>4, <2>1 DEF Answered, TypeOK
  <2>3. CASE step = Commands
    BY <1>0, <1>4, <2>1, <2>2, <2>3 DEF Answered, TypeOK
  <2>4. CASE step # Commands /\ Active
    <3>1. /\ pc' = "command" /\ answer' = None
          /\ pending' = [pending EXCEPT ![protocol] = Append(@, step + 1)]
      BY <1>4, <2>1, <2>4 DEF Answered
    <3>2. Append(<<>>, step + 1) = <<step + 1>> /\ Len(<<step + 1>>) = 1
      OBVIOUS
    <3> QED BY <1>0, <2>1, <2>2, <2>4, <3>1, <3>2 DEF TypeOK, Active
  <2>5. CASE step # Commands /\ ~Active
    BY <1>0, <1>4, <2>1, <2>2, <2>5, TryFailsType DEF Answered
  <2> QED BY <2>3, <2>4, <2>5
<1>5. CASE AnswerUnusable
  BY <1>0, <1>5, TryFailsType DEF AnswerUnusable
<1>6. CASE PasswordInvalid
  BY <1>0, <1>6 DEF PasswordInvalid
<1>7. CASE CommandTimesOut
  BY <1>0, <1>7, TryFailsType DEF CommandTimesOut
<1>8. CASE Disconnect
  BY <1>0, <1>8 DEF Disconnect
<1>9. CASE Closed
  BY <1>0, <1>9 DEF Closed
<1>10. CASE CloseTimesOut
  BY <1>0, <1>10 DEF CloseTimesOut
<1>11. ASSUME NEW t \in Transports, ConnectionLost(t) PROVE KeyInv'
  BY <1>0, <1>11 DEF ConnectionLost, TypeOK
<1>12. ASSUME NEW t \in Transports, ModuleAnswers(t) PROVE KeyInv'
  <2>1. /\ pc = "command" /\ answer = None /\ t = protocol /\ Len(pending[t]) = 1
    BY <1>12 DEF ModuleAnswers
  <2>2. Tail(pending[t]) = <<>>
    BY <1>0, <2>1, TailOfOne DEF TypeOK
  <2>3. /\ answer'.from = protocol /\ pc' = pc /\ protocol' = protocol /\ key' = key
        /\ pending' = [pending EXCEPT ![t] = <<>>] /\ step' = step
    BY <1>12, <2>1, <2>2 DEF ModuleAnswers
  <2> QED BY <1>0, <2>1, <2>3 DEF TypeOK
<1>13. ASSUME NEW t \in Transports, CommandLost(t) PROVE KeyInv'
  <2>1. /\ pc = "command" /\ answer = None /\ t = protocol /\ Len(pending[t]) = 1
    BY <1>13 DEF CommandLost
  <2>2. Tail(pending[t]) = <<>>
    BY <1>0, <2>1, TailOfOne DEF TypeOK
  <2> QED BY <1>0, <1>13, <2>2 DEF CommandLost, TypeOK
<1>14. CASE UNCHANGED vars
  BY <1>0, <1>14 DEF vars
<1> QED
  BY <1>1, <1>2, <1>3, <1>4, <1>5, <1>6, <1>7, <1>8, <1>9, <1>10, <1>11, <1>12, <1>13,
     <1>14 DEF Next, Dial, Await, Wire

\* As long as no answer came after its timeout, every session uses the key of
\* its own transport, however many tries were made before.
THEOREM SessionKeyIsOwn == Spec => []KeyOfSession
<1>1. Init => TypeOK /\ (~late => KeyInv)
  BY Constants DEF Init, KeyInv, TypeOK
<1>2. TypeOK /\ (~late => KeyInv) /\ [Next]_vars => TypeOK' /\ (~late => KeyInv)'
  <2> SUFFICES ASSUME TypeOK, ~late => KeyInv, [Next]_vars PROVE TypeOK' /\ (~late' => KeyInv')
    OBVIOUS
  <2>1. TypeOK'
    BY NextType
  <2>2. ASSUME late PROVE late'
    BY <2>2 DEF Next, Dial, Await, Wire, Connect, DialFails, Dialed, Answered, AnswerUnusable,
       PasswordInvalid, CommandTimesOut, Disconnect, Closed, CloseTimesOut, ConnectionLost,
       ModuleAnswers, CommandLost, vars
  <2> QED BY <2>1, <2>2, NextKey DEF KeyInv
<1>3. (~late => KeyInv) => KeyOfSession
  BY DEF KeyInv, KeyOfSession
<1> QED BY <1>1, <1>2, <1>3, PTL DEF Spec

-----------------------------------------------------------------------------
(* IPFraming: message boundaries in TCP segments *)

\* What Begin is defined for.
Payloads == [1..MaxMessages -> Nat]

\* A message begins where the one before it ends.
LEMMA Begins ==
  ASSUME lengths \in Payloads
  PROVE  /\ \A i \in 1..MaxMessages + 1 : Framing!Begin(i) \in Nat
         /\ \A i \in 1..MaxMessages :
              Framing!Begin(i + 1) =
                Framing!Begin(i) + Framing!MessageSize(lengths[i])
<1> DEFINE
  N == MaxMessages
  size(n) == Framing!MessageSize(lengths[n])
  Step == [n \in 1..N |-> [s \in Nat |-> s + size(n)]]
  Is(f) == f = [n \in 0..N |-> IF n = 0 THEN 0 ELSE f[n - 1] + size(n)]
  Sum == CHOOSE f : Is(f)
<1>1. N \in Nat
  BY FramingAssumption
<1>2. \A n \in 1..N : size(n) \in Nat
  BY DEF Payloads, Framing!MessageSize
<1>3. \A i : Framing!Begin(i) = Sum[i - 1]
  BY DEF Framing!Begin
<1> HIDE DEF N, size
<1>4. PICK f : IsRecursive(f, Nat, N, 0, Step)
  <2>1. Step \in [1..N -> [Nat -> Nat]]
    BY <1>2
  <2> HIDE DEF Step
  <2> QED BY <1>1, <2>1, Recursion
<1>5. Is(f)
  <2>1. f \in [0..N -> Nat] /\ f[0] = 0
    BY <1>4 DEF IsRecursive
  <2>2. ASSUME NEW n \in 1..N
        PROVE  f[n] = f[n - 1] + size(n)
    <3>1. f[n] = Step[n][f[n - 1]]
      BY <1>4 DEF IsRecursive
    <3>2. n - 1 \in 0..N /\ f[n - 1] \in Nat
      BY <1>1, <2>1
    <3> QED BY <3>1, <3>2
  <2>3. \A n \in 0..N : f[n] = IF n = 0 THEN 0 ELSE f[n - 1] + size(n)
    BY <2>1, <2>2
  <2> QED BY <2>1, <2>3
<1>6. Is(Sum)
  BY <1>5
<1> HIDE DEF Sum
<1>7. Sum[0] = 0 /\ \A n \in 1..N : Sum[n] = Sum[n - 1] + size(n)
  <2>1. Sum[0] = 0
    BY <1>1, <1>6
  <2>2. \A n \in 1..N : n \in 0..N /\ n # 0
    OBVIOUS
  <2>3. \A n \in 1..N : Sum[n] = Sum[n - 1] + size(n)
    BY <1>6, <2>2
  <2> QED BY <2>1, <2>3
<1>8. \A n \in 0..N : Sum[n] \in Nat
  <2> DEFINE T == {n \in Nat : n <= N => Sum[n] \in Nat}
  <2>1. 0 \in T
    BY <1>7
  <2>2. ASSUME NEW n \in Nat, n \in T
        PROVE  n + 1 \in T
    <3> SUFFICES ASSUME n + 1 <= N
                 PROVE  Sum[n + 1] \in Nat
      OBVIOUS
    <3>1. n + 1 \in 1..N /\ (n + 1) - 1 = n /\ Sum[n] \in Nat
      BY <1>1, <2>2
    <3>2. Sum[n + 1] = Sum[n] + size(n + 1)
      BY <1>7, <3>1
    <3> QED BY <1>2, <3>1, <3>2
  <2> HIDE DEF T
  <2>3. Nat \subseteq T
    BY <2>1, <2>2, NaturalInduction
  <2> QED BY <1>1, <2>3 DEF T
<1>9. \A i \in 1..N + 1 : i - 1 \in 0..N
  BY <1>1
<1>10. ASSUME NEW i \in 1..N
       PROVE  Framing!Begin(i + 1) = Framing!Begin(i) + size(i)
  <2>1. (i + 1) - 1 = i
    OBVIOUS
  <2> QED BY <1>3, <1>7, <2>1
<1> QED BY <1>3, <1>8, <1>9, <1>10 DEF N, size

\* A later message begins behind an earlier one.
LEMMA BeginsInOrder ==
  ASSUME lengths \in Payloads, NEW i \in 1..MaxMessages + 1
  PROVE  \A j \in i + 1..MaxMessages + 1 : Framing!Begin(i) < Framing!Begin(j)
<1> DEFINE T == {n \in Nat : i + 1 + n <= MaxMessages + 1 =>
                               Framing!Begin(i) < Framing!Begin(i + 1 + n)}
<1>1. MaxMessages \in Nat
  BY FramingAssumption
<1>2. ASSUME NEW j \in 1..MaxMessages
      PROVE  /\ Framing!Begin(j) \in Nat /\ Framing!Begin(j + 1) \in Nat
             /\ Framing!Begin(j) < Framing!Begin(j + 1)
  <2>1. Framing!MessageSize(lengths[j]) > 0 /\ Framing!MessageSize(lengths[j]) \in Nat
    BY DEF Payloads, Framing!MessageSize
  <2>2. Framing!Begin(j) \in Nat
    BY <1>1, Begins
  <2>3. Framing!Begin(j + 1) = Framing!Begin(j) + Framing!MessageSize(lengths[j])
    BY Begins
  <2> QED BY <2>1, <2>2, <2>3
<1>3. 0 \in T
  BY <1>1, <1>2
<1>4. ASSUME NEW n \in Nat, n \in T
      PROVE  n + 1 \in T
  <2> SUFFICES ASSUME i + 1 + (n + 1) <= MaxMessages + 1
               PROVE  Framing!Begin(i) < Framing!Begin(i + 1 + (n + 1))
    OBVIOUS
  <2>1. i + 1 + n \in 1..MaxMessages /\ i \in 1..MaxMessages
    BY <1>1
  <2>2. Framing!Begin(i) < Framing!Begin(i + 1 + n)
    BY <1>1, <1>4
  <2>3. i + 1 + (n + 1) = (i + 1 + n) + 1
    OBVIOUS
  <2>4. /\ Framing!Begin(i + 1 + n) < Framing!Begin((i + 1 + n) + 1)
        /\ Framing!Begin(i + 1 + n) \in Nat /\ Framing!Begin((i + 1 + n) + 1) \in Nat
        /\ Framing!Begin(i) \in Nat
    BY <1>2, <2>1
  <2> QED BY <2>2, <2>3, <2>4
<1> HIDE DEF T
<1>5. Nat \subseteq T
  BY <1>3, <1>4, NaturalInduction
<1>6. ASSUME NEW j \in i + 1..MaxMessages + 1
      PROVE  Framing!Begin(i) < Framing!Begin(j)
  <2>1. j - (i + 1) \in T /\ i + 1 + (j - (i + 1)) = j
    BY <1>1, <1>5
  <2> QED BY <1>1, <2>1 DEF T
<1> QED BY <1>6

\* What the handler is given.
Delivery == [message : 1..MaxMessages, whole : BOOLEAN]

\* Part of a message was given to the handler because a segment ended between two of
\* its blocks.
CutOff(i) ==
  \E to \in ends : /\ Framing!Begin(i) < to /\ to < Framing!Begin(i + 1)
                   /\ (to - Framing!Begin(i)) % 16 = 0

\* The buffer begins behind the beginning of every message that was delivered.
FramingInv ==
  /\ lengths \in [1..MaxMessages -> Lengths]
  /\ received \in Nat /\ start \in Nat /\ start <= received
  /\ delivered \in Seq(Delivery)
  /\ \A k \in 1..Len(delivered), i \in 1..MaxMessages :
       delivered[k].message = i =>
         Framing!Begin(i) < start /\ (delivered[k].whole \/ CutOff(i))
  /\ \A k \in 1..Len(delivered) : \A l \in 1..k - 1 :
       delivered[l].message < delivered[k].message

\* It holds before the first segment.
LEMMA FramingInit == Framing!Init => FramingInv
BY DEF Framing!Init, FramingInv

\* Every segment keeps it: the message at the front of the buffer is a later one than
\* any that was delivered, and only a cut between blocks hands it on too early.
LEMMA FramingStep == FramingInv /\ [Framing!Next]_(Framing!ipVars) => FramingInv'
<1> SUFFICES ASSUME FramingInv, [Framing!Next]_(Framing!ipVars)
             PROVE  FramingInv'
  OBVIOUS
<1>1. lengths \in Payloads /\ MaxMessages \in Nat
  BY FramingAssumption DEF FramingInv, Payloads
<1>2. lengths' = lengths
  BY DEF Framing!Next, Framing!Dangling, Framing!IndexError, Framing!Wait,
         Framing!Process, Framing!Segment, Framing!ipVars
<1>3. \A i : Framing!Begin(i)' = Framing!Begin(i)
  BY <1>2 DEF Framing!Begin
<1>4. \A i \in 1..MaxMessages : /\ Framing!Begin(i) \in Nat
                                /\ Framing!Begin(i + 1) \in Nat
  BY <1>1, Begins
<1>5. ASSUME NEW to \in Nat, Framing!Segment(to)
      PROVE  /\ received' = to /\ received' \in Nat
             /\ \A i \in 1..MaxMessages : CutOff(i) => CutOff(i)'
  <2>1. received' = to /\ ends \subseteq ends'
    BY <1>5 DEF Framing!Segment
  <2> QED BY <1>3, <2>1 DEF CutOff
<1>6. ASSUME NEW to \in Nat,
             Framing!Dangling(to) \/ Framing!IndexError(to) \/ Framing!Wait(to)
      PROVE  FramingInv'
  <2>1. /\ Framing!Segment(to) /\ UNCHANGED delivered
        /\ to > received /\ (start' = to \/ start' = start)
    BY <1>6 DEF Framing!Dangling, Framing!IndexError, Framing!Wait, Framing!Segment
  <2>2. start' \in Nat /\ start <= start' /\ start' <= received'
    BY <1>5, <2>1 DEF FramingInv
  <2>3. ASSUME NEW k \in 1..Len(delivered'), NEW i \in 1..MaxMessages,
               delivered'[k].message = i
        PROVE  /\ Framing!Begin(i)' < start'
               /\ delivered'[k].whole \/ CutOff(i)'
    <3>1. Framing!Begin(i) < start /\ (delivered[k].whole \/ CutOff(i))
      BY <2>1, <2>3 DEF FramingInv
    <3>2. Framing!Begin(i)' < start'
      <4>1. start \in Nat
        BY DEF FramingInv
      <4> QED BY <1>3, <1>4, <2>2, <3>1, <4>1
    <3> QED BY <1>5, <2>1, <3>1, <3>2
  <2> QED BY <1>2, <1>5, <2>1, <2>2, <2>3 DEF FramingInv
<1>7. ASSUME NEW to \in Nat, Framing!Process(to)
      PROVE  FramingInv'
  <2>1. PICK cur \in 1..MaxMessages : cur = Framing!Current /\ Framing!Begin(cur) = start
    BY <1>7 DEF Framing!Process, Framing!Starts, Framing!Current
  <2>2. /\ Framing!Segment(to) /\ to > received /\ start' = to /\ to \in ends'
        /\ (to - start) % 16 = 0
        /\ delivered' =
             Append(delivered, [message |-> cur,
                                whole |-> to >= Framing!Begin(cur + 1)])
    BY <1>7, <2>1 DEF Framing!Process, Framing!Segment, Framing!Incomplete,
                      Framing!Processed
  <2>3. start \in Nat /\ start < to
    BY <2>2 DEF FramingInv
  <2>4. PICK new \in Delivery :
          /\ delivered' = Append(delivered, new) /\ new.message = cur
          /\ new.whole \/ to < Framing!Begin(cur + 1)
    <3>1. CASE to >= Framing!Begin(cur + 1)
      <4>1. [message |-> cur, whole |-> TRUE] \in Delivery
        BY DEF Delivery
      <4> QED BY <2>2, <3>1, <4>1
    <3>2. CASE to < Framing!Begin(cur + 1)
      <4>1. [message |-> cur, whole |-> FALSE] \in Delivery
        BY DEF Delivery
      <4>2. (to >= Framing!Begin(cur + 1)) = FALSE
        BY <1>4, <3>2
      <4> QED BY <2>2, <3>2, <4>1, <4>2
    <3> QED BY <1>4, <3>1, <3>2
  <2>5. new.whole \/ CutOff(cur)'
    <3>1. CASE to < Framing!Begin(cur + 1)
      BY <1>3, <2>1, <2>2, <2>3, <3>1 DEF CutOff
    <3> QED BY <2>4, <3>1
  <2>6. /\ delivered' \in Seq(Delivery) /\ Len(delivered) \in Nat
        /\ Len(delivered') = Len(delivered) + 1
        /\ \A k \in 1..Len(delivered) : delivered'[k] = delivered[k]
        /\ delivered'[Len(delivered) + 1] = new
    BY <2>4 DEF FramingInv
  <2>7. ASSUME NEW k \in 1..Len(delivered), NEW i \in 1..MaxMessages,
               delivered[k].message = i
        PROVE  i < cur
    <3>1. Framing!Begin(i) < Framing!Begin(cur)
      BY <2>1, <2>7 DEF FramingInv
    <3>2. CASE i > cur
      <4>1. cur \in 1..MaxMessages + 1 /\ i \in cur + 1..MaxMessages + 1
        BY <1>1, <3>2
      <4>2. Framing!Begin(cur) < Framing!Begin(i)
        BY <1>1, <4>1, BeginsInOrder
      <4> QED BY <1>4, <3>1, <4>2
    <3>3. i # cur
      BY <1>4, <3>1
    <3> QED BY <3>2, <3>3
  <2>8. ASSUME NEW k \in 1..Len(delivered'), NEW i \in 1..MaxMessages,
               delivered'[k].message = i
        PROVE  /\ Framing!Begin(i)' < start'
               /\ delivered'[k].whole \/ CutOff(i)'
    <3>1. CASE k \in 1..Len(delivered)
      <4>1. delivered'[k] = delivered[k]
        BY <2>6, <3>1
      <4>2. Framing!Begin(i) < start /\ (delivered[k].whole \/ CutOff(i))
        BY <2>8, <3>1, <4>1 DEF FramingInv
      <4>3. Framing!Begin(i)' < start'
        BY <1>3, <1>4, <2>2, <2>3, <4>2
      <4> QED BY <1>5, <2>2, <4>1, <4>2, <4>3
    <3>2. CASE k = Len(delivered) + 1
      <4>1. i = cur /\ delivered'[k] = new
        BY <2>4, <2>6, <2>8, <3>2
      <4>2. Framing!Begin(cur)' < start'
        BY <1>3, <2>1, <2>2, <2>3
      <4> QED BY <2>5, <4>1, <4>2
    <3> QED BY <2>6, <3>1, <3>2
  <2>9. ASSUME NEW k \in 1..Len(delivered'), NEW l \in 1..k - 1
        PROVE  delivered'[l].message < delivered'[k].message
    <3>1. l \in 1..Len(delivered) /\ delivered'[l] = delivered[l]
      BY <2>6
    <3>2. CASE k \in 1..Len(delivered)
      BY <2>6, <3>1, <3>2 DEF FramingInv
    <3>3. CASE k = Len(delivered) + 1
      <4>1. delivered[l].message \in 1..MaxMessages
        <5>1. delivered[l] \in Delivery
          BY <3>1 DEF FramingInv
        <5> QED BY <5>1 DEF Delivery
      <4>2. delivered[l].message < cur
        BY <2>7, <3>1, <4>1
      <4> QED BY <2>4, <2>6, <3>1, <3>3, <4>2
    <3> QED BY <2>6, <3>2, <3>3
  <2>10. start' \in Nat /\ start' <= received' /\ received' \in Nat
    BY <1>5, <2>2
  <2> QED BY <1>2, <2>6, <2>8, <2>9, <2>10 DEF FramingInv
<1>8. ASSUME NEW i \in 1..MaxMessages, NEW n \in Cuts,
             n < Framing!MessageSize(lengths[i])
      PROVE  Framing!Begin(i + 1) - n \in Nat
  <2>1. /\ Framing!Begin(i) \in Nat
        /\ Framing!Begin(i + 1) = Framing!Begin(i) + Framing!MessageSize(lengths[i])
    BY <1>1, Begins
  <2>2. n \in Nat /\ Framing!MessageSize(lengths[i]) \in Nat
    BY <1>1, FramingAssumption DEF Payloads, Framing!MessageSize
  <2> QED BY <1>8, <2>1, <2>2
<1>9. CASE UNCHANGED Framing!ipVars
  BY <1>3, <1>9 DEF Framing!ipVars, FramingInv, CutOff
<1>10. CASE Framing!Next
  <2>1. PICK i \in 1..MaxMessages :
          \E n \in {n \in Cuts : n < Framing!MessageSize(lengths[i])} :
            LET to == Framing!Begin(i + 1) - n
            IN \/ Framing!Dangling(to) \/ Framing!IndexError(to)
               \/ Framing!Wait(to) \/ Framing!Process(to)
    BY <1>10 DEF Framing!Next
  <2>2. PICK n \in Cuts :
          /\ n < Framing!MessageSize(lengths[i])
          /\ LET to == Framing!Begin(i + 1) - n
             IN \/ Framing!Dangling(to) \/ Framing!IndexError(to)
                \/ Framing!Wait(to) \/ Framing!Process(to)
    BY <2>1
  <2>3. PICK to \in Nat :
          \/ Framing!Dangling(to) \/ Framing!IndexError(to)
          \/ Framing!Wait(to) \/ Framing!Process(to)
    BY <1>8, <2>2
  <2> QED BY <1>6, <1>7, <2>3
<1> QED BY <1>9, <1>10

\* The invariant is strong enough.
LEMMA InvWhole == FramingInv => Framing!OnlyWholeMessages
<1> SUFFICES ASSUME FramingInv, NEW k \in 1..Len(delivered)
             PROVE  LET i == delivered[k].message
                    IN /\ \A l \in 1..k - 1 : delivered[l].message < i
                       /\ delivered[k].whole \/ CutOff(i)
  <2>1. FramingInv => DOMAIN delivered = 1..Len(delivered)
    BY DEF FramingInv
  <2> QED BY <2>1 DEF Framing!OnlyWholeMessages, CutOff
<1>1. delivered[k].message \in 1..MaxMessages
  <2>1. delivered[k] \in Delivery
    BY DEF FramingInv
  <2> QED BY <2>1 DEF Delivery
<1> QED BY <1>1 DEF FramingInv

\* For any number of messages of any lengths and segments of any sizes: the handler of
\* data_received gets the messages in order, none twice, and whole but for such cuts.
THEOREM WholeMessages == Framing!Spec => []Framing!OnlyWholeMessages
<1> QED BY InvWhole, FramingInit, FramingStep, PTL DEF Framing!Spec

\* The same of the segments of MCInterfaces.
THEOREM MessagesWhole == SpecOfParts => []OnlyWholeMessages
<1>1. InitOfParts => (part = "framing" => FramingInv)
  BY FramingInit DEF InitOfParts
<1>2. (part = "framing" => FramingInv) /\ [NextOfParts]_allVars
        => (part = "framing" => FramingInv)'
  <2> SUFFICES ASSUME part = "framing" => FramingInv, [NextOfParts]_allVars,
                      part' = "framing"
               PROVE  FramingInv'
    OBVIOUS
  <2>1. part = "framing" /\ [Framing!Next]_(Framing!ipVars)
    BY DEF NextOfParts, allVars, framingVars, Framing!ipVars
  <2> QED BY <2>1, FramingStep
<1>3. (part = "framing" => FramingInv) => OnlyWholeMessages
  BY InvWhole DEF OnlyWholeMessages
<1> QED BY <1>1, <1>2, <1>3, PTL DEF SpecOfParts

-----------------------------------------------------------------------------
(* ClientFanout: the list of raw handlers *)

\* The list without the handler at k.
Without(list, k) == [i \in 1..Len(list) - 1 |-> IF i < k THEN list[i] ELSE list[i + 1]]

\* remove_by_name takes one handler out of the list, if one has the name.
LEMMA RemovesOne ==
  ASSUME NEW S, NEW list \in Seq(S), NEW nr, NEW k \in 1..Len(list),
         \A i \in 1..Len(list) : list[i].nr = nr <=> i = k
  PROVE  Fanout!RemoveByName(list, nr) = Without(list, k)
<1> DEFINE
  N == Len(list)
  Then(s, i) == IF ~s.skip /\ list[i].nr = nr
                THEN [kept |-> s.kept, skip |-> TRUE]
                ELSE [kept |-> Append(s.kept, list[i]), skip |-> FALSE]
  Is(f) == f = [i \in 0..N |-> IF i = 0 THEN [kept |-> <<>>, skip |-> FALSE]
                               ELSE Then(f[i - 1], i)]
  Kept(n) == [i \in 1..IF n < k THEN n ELSE n - 1 |->
                IF i < k THEN list[i] ELSE list[i + 1]]
  At(n) == [kept |-> Kept(n), skip |-> IF n = k THEN TRUE ELSE FALSE]
  F == [n \in 0..N |-> At(n)]
  Look == CHOOSE f : Is(f)
<1>1. N \in Nat
  OBVIOUS
<1>2. At(0) = [kept |-> <<>>, skip |-> FALSE]
  <2>1. Kept(0) = <<>>
    OBVIOUS
  <2>2. 0 # k
    OBVIOUS
  <2> HIDE DEF Kept
  <2> QED BY <2>1, <2>2
<1>3. ASSUME NEW i \in 1..N
      PROVE  At(i) = Then(At(i - 1), i)
  <2>1. CASE i = k
    <3>1. Kept(i) = Kept(i - 1)
      BY <2>1
    <3> HIDE DEF Kept
    <3> QED BY <2>1, <3>1
  <2>2. CASE i # k
    <3>1. list[i].nr # nr
      BY <2>2
    <3>2. Kept(i) = Append(Kept(i - 1), list[i])
      <4>1. CASE i < k
        BY <4>1
      <4>2. CASE i > k
        BY <4>2
      <4> QED BY <2>2, <4>1, <4>2
    <3> QED BY <2>2, <3>1, <3>2
  <2> QED BY <2>1, <2>2
<1> HIDE DEF At, Then
<1>4. Is(F)
  BY <1>2, <1>3
<1>5. Is(Look)
  BY <1>4
<1> HIDE DEF Look, F
<1>9. Look[0] = [kept |-> <<>>, skip |-> FALSE]
  BY <1>5
<1>10. ASSUME NEW i \in 1..N
       PROVE  Look[i] = Then(Look[i - 1], i)
  <2>1. i \in 0..N /\ i # 0
    OBVIOUS
  <2> HIDE DEF N
  <2> QED BY <1>5, <2>1
<1>6. \A n \in 0..N : Look[n] = At(n)
  <2> DEFINE T == {n \in Nat : n <= N => Look[n] = At(n)}
  <2>1. 0 \in T
    BY <1>1, <1>2, <1>5
  <2>2. ASSUME NEW n \in Nat, n \in T
        PROVE  n + 1 \in T
    <3> SUFFICES ASSUME n + 1 <= N
                 PROVE  Look[n + 1] = At(n + 1)
      OBVIOUS
    <3>1. Look[n] = At(n)
      BY <1>1, <2>2
    <3>2. Look[n + 1] = Then(Look[n], n + 1)
      <4>2. n + 1 \in 1..N /\ (n + 1) - 1 = n
        BY <1>1
      <4> QED BY <1>10, <4>2
    <3>3. At(n + 1) = Then(At(n), n + 1)
      BY <1>1, <1>3
    <3> QED BY <3>1, <3>2, <3>3
  <2> HIDE DEF T
  <2>3. Nat \subseteq T
    BY <2>1, <2>2, NaturalInduction
  <2> QED BY <1>1, <2>3 DEF T
<1>7. Fanout!RemoveByName(list, nr) = Look[N].kept
  BY DEF Fanout!RemoveByName, Look, Then
<1>8. At(N).kept = Without(list, k)
  BY DEF At, Without
<1> QED BY <1>1, <1>6, <1>7, <1>8

\* An entry of the list of raw handlers.
Handler == [nr : Nat, of : Clients \cup {"PAI"}]

\* The types of the variables, of use as long as no two clients share a number.
FanoutTypes ==
  /\ handlers \in Seq(Handler)
  /\ clientNr \in Nat
  /\ number \in [Clients -> Nat]
  /\ client \in [Clients -> {"out", "reading", "gone"}]
  /\ index \in [Messages -> Nat \cup {Fanout!Ended}]
  /\ got \in [Messages -> SUBSET Clients]
  /\ due \in [Messages -> SUBSET Clients]
  /\ disturbed \subseteq Messages

\* PAI's handler is first, and the others are those of the clients that are read
\* from, one each.
Registered ==
  /\ handlers # <<>> /\ handlers[1] = Fanout!PAI
  /\ \A i \in 2..Len(handlers) :
       /\ handlers[i].of \in Clients
       /\ client[handlers[i].of] = "reading"
       /\ handlers[i].nr = number[handlers[i].of]
  /\ \A i, j \in 1..Len(handlers) : handlers[i].nr = handlers[j].nr => i = j
  /\ \A c \in Clients : client[c] = "reading" =>
       \E i \in 2..Len(handlers) : handlers[i].of = c

\* The list of an undisturbed message has not changed before index[m], and every
\* client up to there has got it.
Handed(m) ==
  /\ index[m] = 0 => due[m] = {}
  /\ \A c \in due[m] : client[c] # "out"
  /\ (m \in Fanout!Running /\ m \notin disturbed) =>
       /\ index[m] \in 2..Len(handlers)
       /\ \A i \in 2..index[m] : handlers[i].of \in got[m]
  /\ (index[m] = Fanout!Ended /\ m \notin disturbed) =>
       \A c \in due[m] : client[c] = "reading" => c \in got[m]

\* The inductive invariant of ClientFanout, up to the first number given twice.
FanoutInv ==
  /\ shared \in BOOLEAN
  /\ ~shared => FanoutTypes /\ Registered /\ \A m \in Messages : Handed(m)

\* It holds before the first client.
LEMMA FanoutInit == Fanout!Init => FanoutInv
<1> SUFFICES ASSUME Fanout!Init
             PROVE  FanoutInv
  OBVIOUS
<1> USE FanoutAssumption DEF Fanout!Init, Fanout!PAI, Fanout!Ended, Fanout!Running
<1>1. handlers \in Seq(Handler) /\ Len(handlers) = 1 /\ handlers[1] = Fanout!PAI
  BY DEF Handler
<1>2. FanoutTypes
  BY <1>1 DEF FanoutTypes
<1>3. Registered
  BY <1>1 DEF Registered
<1>4. \A m \in Messages : Handed(m)
  BY DEF Handed
<1> QED BY <1>2, <1>3, <1>4 DEF FanoutInv

\* A client that comes is the last of the list, and no message is due to it.
LEMMA ConnectKeeps ==
  ASSUME FanoutTypes, Registered, \A m \in Messages : Handed(m),
         NEW c \in Clients, Fanout!Connect(c), ~shared, ~shared'
  PROVE  FanoutTypes' /\ Registered' /\ \A m \in Messages : Handed(m)'
<1> USE DEF Fanout!Connect
<1> DEFINE nr == clientNr'
           new == [nr |-> nr, of |-> c]
<1>1. nr \in Nat /\ nr # Numbers
  BY FanoutAssumption DEF FanoutTypes
<1>2. new \in Handler
  BY <1>1 DEF Handler
<1>3. /\ handlers' \in Seq(Handler)
      /\ Len(handlers') = Len(handlers) + 1 /\ Len(handlers) \in Nat
      /\ \A i \in 1..Len(handlers) : handlers'[i] = handlers[i]
      /\ handlers'[Len(handlers) + 1] = new
  BY <1>2 DEF FanoutTypes
<1>4. \A i \in 1..Len(handlers) : handlers[i].nr # nr
  <2>1. DOMAIN handlers = 1..Len(handlers)
    BY DEF FanoutTypes
  <2>2. shared' = (shared \/ \E i \in DOMAIN handlers : handlers[i].nr = clientNr')
    OBVIOUS
  <2>3. ~(\E i \in DOMAIN handlers : handlers[i].nr = clientNr')
    BY <2>2, Zenon
  <2> QED BY <2>1, <2>3
<1>5. FanoutTypes'
  BY <1>1, <1>3 DEF FanoutTypes
<1>6. Registered'
  <2>1. handlers' # <<>> /\ handlers'[1] = Fanout!PAI
    BY <1>3 DEF Registered, FanoutTypes
  <2>2. ASSUME NEW i \in 2..Len(handlers')
        PROVE  /\ handlers'[i].of \in Clients
               /\ client'[handlers'[i].of] = "reading"
               /\ handlers'[i].nr = number'[handlers'[i].of]
    BY <1>3 DEF Registered, FanoutTypes
  <2>3. ASSUME NEW i \in 1..Len(handlers'), NEW j \in 1..Len(handlers'),
               handlers'[i].nr = handlers'[j].nr
        PROVE  i = j
    BY <1>3, <1>4, <2>3 DEF Registered
  <2>4. ASSUME NEW d \in Clients, client'[d] = "reading"
        PROVE  \E i \in 2..Len(handlers') : handlers'[i].of = d
    BY <1>3, <2>4 DEF Registered, FanoutTypes
  <2> QED BY <2>1, <2>2, <2>3, <2>4 DEF Registered
<1>7. ASSUME NEW m \in Messages
      PROVE  Handed(m)'
  <2>1. Handed(m)
    OBVIOUS
  <2> QED BY <1>3, <2>1 DEF Handed, FanoutTypes, Fanout!Running
<1> QED BY <1>5, <1>6, <1>7

\* A client that leaves takes its own handler with it, and disturbs what is handed round.
LEMMA LeaveKeeps ==
  ASSUME FanoutTypes, Registered, \A m \in Messages : Handed(m),
         NEW c \in Clients, Fanout!Leave(c)
  PROVE  FanoutTypes' /\ Registered' /\ \A m \in Messages : Handed(m)'
<1> USE DEF Fanout!Leave
<1>1. PICK k \in 2..Len(handlers) : handlers[k].of = c
  BY DEF Registered
<1>2. /\ k \in 1..Len(handlers)
      /\ \A i \in 1..Len(handlers) : handlers[i].nr = number[c] <=> i = k
  BY <1>1 DEF Registered
<1>3. handlers' = Without(handlers, k)
  BY <1>2, RemovesOne DEF FanoutTypes
<1>4. /\ Len(handlers) \in Nat
      /\ handlers' \in Seq(Handler)
      /\ Len(handlers') = Len(handlers) - 1
      /\ \A i \in 1..Len(handlers) - 1 :
           handlers'[i] = IF i < k THEN handlers[i] ELSE handlers[i + 1]
  BY <1>1, <1>3 DEF Without, FanoutTypes
<1>5. FanoutTypes'
  BY <1>4 DEF FanoutTypes, Fanout!Running
<1>6. Registered'
  <2>1. handlers' # <<>> /\ handlers'[1] = Fanout!PAI
    BY <1>1, <1>4 DEF Registered
  <2>2. ASSUME NEW i \in 2..Len(handlers')
        PROVE  /\ handlers'[i].of \in Clients
               /\ client'[handlers'[i].of] = "reading"
               /\ handlers'[i].nr = number'[handlers'[i].of]
    <3>1. PICK j \in 2..Len(handlers) : j # k /\ handlers'[i] = handlers[j]
      BY <1>1, <1>4
    <3>2. handlers[j].of # c
      BY <1>2, <3>1 DEF Registered
    <3> QED BY <3>1, <3>2 DEF Registered, FanoutTypes
  <2>3. ASSUME NEW i \in 1..Len(handlers'), NEW j \in 1..Len(handlers'),
               handlers'[i].nr = handlers'[j].nr
        PROVE  i = j
    <3> DEFINE old(n) == IF n < k THEN n ELSE n + 1
    <3>1. /\ old(i) \in 1..Len(handlers) /\ handlers'[i] = handlers[old(i)]
          /\ old(j) \in 1..Len(handlers) /\ handlers'[j] = handlers[old(j)]
      BY <1>1, <1>4
    <3>2. old(i) = old(j)
      BY <2>3, <3>1 DEF Registered
    <3> QED BY <3>2
  <2>4. ASSUME NEW d \in Clients, client'[d] = "reading"
        PROVE  \E i \in 2..Len(handlers') : handlers'[i].of = d
    <3>1. d # c /\ client[d] = "reading"
      BY <2>4 DEF FanoutTypes
    <3>2. PICK j \in 2..Len(handlers) : handlers[j].of = d
      BY <3>1 DEF Registered
    <3>3. j # k
      BY <1>1, <3>1, <3>2
    <3>4. CASE j < k
      <4>1. j \in 2..Len(handlers') /\ handlers'[j] = handlers[j]
        BY <1>1, <1>4, <3>4
      <4> QED BY <3>2, <4>1
    <3>5. CASE j > k
      <4>1. j - 1 \in 2..Len(handlers') /\ handlers'[j - 1] = handlers[j]
        BY <1>1, <1>4, <3>5
      <4> QED BY <3>2, <4>1
    <3> QED BY <1>1, <3>3, <3>4, <3>5
  <2> QED BY <2>1, <2>2, <2>3, <2>4 DEF Registered
<1>7. ASSUME NEW m \in Messages
      PROVE  Handed(m)'
  <2>1. Handed(m) /\ (m \in Fanout!Running => m \in disturbed')
    OBVIOUS
  <2> QED BY <2>1 DEF Handed, FanoutTypes, Fanout!Running
<1> QED BY <1>5, <1>6, <1>7

\* The next of the list gets m, or the list is over, or its loop ends with an error.
LEMMA WriteKeeps ==
  ASSUME FanoutTypes, Registered, \A m \in Messages : Handed(m),
         NEW m \in Messages, NEW i \in Nat \ {0, 1}, Fanout!WriteTo(m, i),
         m \notin disturbed =>
           /\ i - 1 <= Len(handlers)
           /\ \A j \in 2..i - 1 : handlers[j].of \in got[m],
         UNCHANGED <<handlers, clientNr, number, client>>,
         \A n \in Messages \ {m} : due'[n] = due[n],
         due' \in [Messages -> SUBSET Clients],
         \A c \in due'[m] : client[c] # "out"
  PROVE  FanoutTypes' /\ Registered' /\ \A n \in Messages : Handed(n)'
<1> USE DEF Fanout!Ended
<1>1. Registered'
  BY DEF Registered
<1>2. CASE i > Len(handlers)
  <2>1. index' = [index EXCEPT ![m] = -1] /\ UNCHANGED <<got, disturbed>>
    BY <1>2 DEF Fanout!WriteTo
  <2>2. FanoutTypes'
    BY <2>1 DEF FanoutTypes
  <2>3. ASSUME m \notin disturbed, NEW c \in Clients, client[c] = "reading"
        PROVE  c \in got[m]
    BY <1>2, <2>3 DEF Registered, FanoutTypes
  <2>4. Handed(m)'
    BY <2>1, <2>3 DEF Handed, FanoutTypes, Fanout!Running
  <2>5. ASSUME NEW n \in Messages, n # m
        PROVE  Handed(n)'
    <3>1. Handed(n)
      OBVIOUS
    <3> QED BY <2>1, <2>5, <3>1 DEF Handed, FanoutTypes, Fanout!Running
  <2> QED BY <1>1, <2>2, <2>4, <2>5
<1>3. CASE i <= Len(handlers)
  <2> DEFINE c == handlers[i].of
  <2>1. c \in Clients /\ client[c] = "reading"
    BY <1>3 DEF Registered
  <2>2. \/ /\ index' = [index EXCEPT ![m] = i]
           /\ got' = [got EXCEPT ![m] = @ \cup {c}]
           /\ UNCHANGED disturbed
        \/ /\ index' = [index EXCEPT ![m] = -1]
           /\ disturbed' = disturbed \cup {m}
           /\ UNCHANGED got
    BY <1>3, <2>1 DEF Fanout!WriteTo, FanoutTypes
  <2> HIDE DEF c
  <2>3. FanoutTypes'
    <3>1. /\ index' \in [Messages -> Nat \cup {-1}]
          /\ got' \in [Messages -> SUBSET Clients]
          /\ disturbed' \subseteq Messages
      <4>1. CASE index' = [index EXCEPT ![m] = -1] /\ UNCHANGED got
                 /\ disturbed' = disturbed \cup {m}
        BY <4>1 DEF FanoutTypes
      <4>2. CASE index' = [index EXCEPT ![m] = i] /\ UNCHANGED disturbed
                 /\ got' = [got EXCEPT ![m] = @ \cup {c}]
        <5>1. index' \in [Messages -> Nat \cup {-1}]
          BY <4>2 DEF FanoutTypes
        <5>2. got' \in [Messages -> SUBSET Clients]
          BY <2>1, <4>2 DEF FanoutTypes
        <5>3. disturbed' \subseteq Messages
          BY <4>2 DEF FanoutTypes
        <5> QED BY <5>1, <5>2, <5>3
      <4> QED BY <2>2, <4>1, <4>2
    <3> QED BY <3>1 DEF FanoutTypes
  <2>4. Handed(m)'
    <3>1. index' = [index EXCEPT ![m] = -1] => m \in disturbed'
      BY <2>2 DEF FanoutTypes
    <3>2. index' = [index EXCEPT ![m] = i] =>
            /\ m \notin disturbed' => \A j \in 2..i : handlers[j].of \in got'[m]
      BY <2>2 DEF FanoutTypes, c
    <3> QED BY <1>3, <2>2, <3>1, <3>2 DEF Handed, FanoutTypes, Fanout!Running
  <2>5. ASSUME NEW n \in Messages, n # m
        PROVE  Handed(n)'
    <3>1. Handed(n)
      OBVIOUS
    <3>2. index'[n] = index[n] /\ got'[n] = got[n] /\ (n \in disturbed' <=> n \in disturbed)
      BY <2>2, <2>5 DEF FanoutTypes
    <3> QED BY <2>5, <3>1, <3>2 DEF Handed, FanoutTypes, Fanout!Running
  <2> QED BY <1>1, <2>3, <2>4, <2>5
<1>4. Len(handlers) \in Nat
  BY DEF FanoutTypes
<1> QED BY <1>2, <1>3, <1>4

\* Every step keeps it.
LEMMA FanoutStep == FanoutInv /\ [Fanout!Next]_(Fanout!vars) => FanoutInv'
<1> SUFFICES ASSUME FanoutInv, [Fanout!Next]_(Fanout!vars)
             PROVE  FanoutInv'
  OBVIOUS
<1>1. shared' \in BOOLEAN /\ (shared => shared')
  BY DEF FanoutInv, Fanout!Next, Fanout!vars, Fanout!Connect, Fanout!Act, Fanout!Leave,
         Fanout!Begin, Fanout!Proceed, Fanout!LosePanel
<1> SUFFICES ASSUME ~shared, ~shared'
             PROVE  FanoutTypes' /\ Registered' /\ \A m \in Messages : Handed(m)'
  BY <1>1 DEF FanoutInv
<1>2. FanoutTypes /\ Registered /\ \A m \in Messages : Handed(m)
  BY DEF FanoutInv
<1>3. ASSUME NEW c \in Clients, Fanout!Connect(c)
      PROVE  FanoutTypes' /\ Registered' /\ \A m \in Messages : Handed(m)'
  BY <1>2, <1>3, ConnectKeeps
<1>4. ASSUME NEW c \in Clients, Fanout!Leave(c)
      PROVE  FanoutTypes' /\ Registered' /\ \A m \in Messages : Handed(m)'
  BY <1>2, <1>4, LeaveKeeps
<1>5. ASSUME NEW m \in Messages, Fanout!Begin(m)
      PROVE  FanoutTypes' /\ Registered' /\ \A n \in Messages : Handed(n)'
  <2>1. Fanout!WriteTo(m, 2) /\ UNCHANGED <<handlers, clientNr, number, client>>
    BY <1>5 DEF Fanout!Begin
  <2>2. \A n \in Messages \ {m} : due'[n] = due[n]
    BY <1>2, <1>5 DEF Fanout!Begin, FanoutTypes
  <2>3. /\ due' \in [Messages -> SUBSET Clients]
        /\ \A c \in due'[m] : client[c] # "out"
    BY <1>2, <1>5 DEF Fanout!Begin, FanoutTypes
  <2>4. 2 - 1 <= Len(handlers)
    BY <1>2 DEF Registered, FanoutTypes
  <2> QED BY <1>2, <2>1, <2>2, <2>3, <2>4, WriteKeeps
<1>6. ASSUME NEW m \in Messages, Fanout!Proceed(m)
      PROVE  FanoutTypes' /\ Registered' /\ \A n \in Messages : Handed(n)'
  <2>1. /\ Fanout!WriteTo(m, index[m] + 1)
        /\ UNCHANGED <<handlers, clientNr, number, client, due>>
    BY <1>6 DEF Fanout!Proceed
  <2>2. Handed(m) /\ m \in Fanout!Running
    BY <1>2, <1>6 DEF Fanout!Proceed
  <2>3. index[m] + 1 \in Nat \ {0, 1}
    BY <1>2, <2>2 DEF FanoutTypes, Fanout!Running, Fanout!Ended
  <2>4. m \notin disturbed => /\ (index[m] + 1) - 1 <= Len(handlers)
                              /\ \A j \in 2..(index[m] + 1) - 1 : handlers[j].of \in got[m]
    BY <1>2, <2>2 DEF Handed, FanoutTypes
  <2>5. /\ due' \in [Messages -> SUBSET Clients]
        /\ \A c \in due'[m] : client[c] # "out"
    BY <1>2, <2>1, <2>2 DEF Handed, FanoutTypes
  <2> QED BY <1>2, <2>1, <2>3, <2>4, <2>5, WriteKeeps
<1>7. CASE \/ \E c \in Clients : Fanout!Act(c)
           \/ Fanout!LosePanel \/ UNCHANGED Fanout!vars
  <2>1. UNCHANGED <<handlers, clientNr, number, client, index, got, due, disturbed>>
    BY <1>7 DEF Fanout!Act, Fanout!LosePanel, Fanout!vars
  <2>2. FanoutTypes' /\ Registered'
    BY <1>2, <2>1 DEF FanoutTypes, Registered
  <2>3. ASSUME NEW m \in Messages
        PROVE  Handed(m)'
    <3>1. Handed(m)
      BY <1>2
    <3> QED BY <2>1, <3>1 DEF Handed, Fanout!Running
  <2> QED BY <2>2, <2>3
<1> QED BY <1>3, <1>4, <1>5, <1>6, <1>7 DEF Fanout!Next

\* For any number of clients, messages and numbers: who stays misses a message only if
\* another client leaves or fails while it is handed round, or shares a number.
THEOREM MissedOnly == Fanout!Spec => []Fanout!MissedOnlyByLeaving
<1>1. FanoutInv => Fanout!MissedOnlyByLeaving
  BY DEF FanoutInv, Fanout!MissedOnlyByLeaving, Handed
<1> QED BY <1>1, FanoutInit, FanoutStep, PTL DEF Fanout!Spec

\* Whatever part moves, the list of handlers takes a step of ClientFanout or none.
LEMMA FanoutRuns == SpecOfParts => Fanout!Spec
<1>1. InitOfParts => Fanout!Init
  BY DEF InitOfParts
<1>2. [NextOfParts]_allVars => [Fanout!Next]_(Fanout!vars)
  BY DEF NextOfParts, allVars, fanoutVars, Fanout!vars
<1> QED BY <1>1, <1>2, PTL DEF SpecOfParts, Fanout!Spec

\* The same of the clients of MCInterfaces.
THEOREM MissedByLeaving == SpecOfParts => []MissedOnlyByLeaving
<1>1. Fanout!MissedOnlyByLeaving => MissedOnlyByLeaving
  BY DEF MissedOnlyByLeaving
<1> QED BY <1>1, MissedOnly, FanoutRuns, PTL

-----------------------------------------------------------------------------
(* Lifecycle: a session without IP clients *)

L == INSTANCE LifecycleProofs
  WITH runState <- paiState, step <- session, Clients <- {},
       CloseInTime <- TRUE, PasswordErrors <- FALSE

\* The part of MCInterfaces without IP clients is the module of its own.
LEMMA SessionRuns == SpecOfParts => L!Spec
<1>1. InitOfParts => L!Init
  BY DEF InitOfParts, Alone!Init, L!Init, L!Connectors, Alone!Connectors
<1>2. Alone!Next => L!Next
  BY DEF Alone!Next, L!Next, Alone!MainStep, L!MainStep, Alone!ConnectStep,
         L!ConnectStep, Alone!Connectors, L!Connectors, Alone!Running, L!Running,
         Alone!At, L!At, Alone!Goto, L!Goto, Alone!Ends, L!Ends, Alone!Fails, L!Fails,
         Alone!BeginConnect, L!BeginConnect, Alone!Closed, L!Closed,
         Alone!CloseTimesOut, L!CloseTimesOut, Alone!Opened, L!Opened,
         Alone!OpenFails, L!OpenFails, Alone!OpenRefused, L!OpenRefused,
         Alone!HandshakeDone, L!HandshakeDone, Alone!HandshakeFails, L!HandshakeFails,
         Alone!HandshakeRefused, L!HandshakeRefused, Alone!HandshakeCrashes,
         L!HandshakeCrashes, Alone!Loaded, L!Loaded, Alone!LoadFails, L!LoadFails,
         Alone!Disconnect, L!Disconnect, Alone!MainConnects, L!MainConnects,
         Alone!MainStops, L!MainStops, Alone!LoopReturns, L!LoopReturns,
         Alone!BeginPoll, L!BeginPoll, Alone!PollEnds, L!PollEnds,
         Alone!LoopRaises, L!LoopRaises, Alone!LoopGivesUp, L!LoopGivesUp,
         Alone!LoopClosed, L!LoopClosed, Alone!MainExits, L!MainExits,
         Alone!MainExitClosed, L!MainExitClosed, Alone!Signal, L!Signal,
         Alone!ExitClosed, L!ExitClosed, Alone!ExitCloseTimesOut, L!ExitCloseTimesOut,
         Alone!PanelNotConnected, L!PanelNotConnected, Alone!ErrorClosed,
         L!ErrorClosed, Alone!PasswordRejected, L!PasswordRejected,
         Alone!ConnectionLost, L!ConnectionLost, Alone!ClientConnects,
         L!ClientConnects, Alone!ClientLeaves, L!ClientLeaves, Alone!Resume, L!Resume
<1>3. [NextOfParts]_allVars => [L!Next]_(L!vars)
  BY <1>2 DEF NextOfParts, allVars, sessionVars, L!vars
<1> QED BY <1>1, <1>3, PTL DEF SpecOfParts, L!Spec

\* run_state is RUN, or PAUSE, only with the panel object of the model that the
\* handshake found.
THEOREM RunIsIdentified == SpecOfParts => []RunMeansIdentified
<1>1. L!RunMeansIdentified => RunMeansIdentified
  BY DEF L!RunMeansIdentified, RunMeansIdentified, Alone!RunMeansIdentified
<1>2. L!Spec => []L!RunMeansIdentified
  BY L!AloneIdentified
<1> QED BY <1>1, <1>2, SessionRuns, PTL
==============================================================================
