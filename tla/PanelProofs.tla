------------------------------ MODULE PanelProofs -----------------------------
(***************************************************************************)
(* What PAI believes of a panel, proved for any number of changes at the   *)
(* panel.  A status that has seen the last change corrects the storage,    *)
(* although older events may still be under way when it is read: the wire  *)
(* keeps the order, so a status that has seen everything has nothing       *)
(* behind it.  And current_state is never older than the last status: each *)
(* stored flag has evidence, a state the panel was in since, and that      *)
(* evidence survives every event, every hook and every published status.   *)
(*                                                                         *)
(* Then the theorems of ControlCommands are carried over to the calls that *)
(* MCPanel runs.                                                           *)
(*                                                                         *)
(* Then comes the memory reader: what has been read of an area are always  *)
(* its first fields, each at its own address; and the limits of a type are *)
(* enabled elements once its definitions have been read, which is before   *)
(* its labels are.                                                         *)
(*                                                                         *)
(* The last part is about the serial line without noise: what has been     *)
(* delivered and what is kept are all that has been received.              *)
(***************************************************************************)
EXTENDS MCPanel, Induction, SequenceTheorems

P == INSTANCE ControlCommandsProofs

-----------------------------------------------------------------------------
(* The flags, and what the panel's states say of them *)

Flags == [FlagNames -> BOOLEAN]

Events == Modes \cup {"code", "disarm", "special_disarm", "bypass", "zone_alarm"}

Armed == {"armed_home", "armed_night", "armed_away"}

\* The modes are exclusive, and a partition is armed in one of them.
Consistent(flags) ==
  /\ flags["arm"] <=> \E m \in Modes : flags[m]
  /\ \A m, n \in Modes : flags[m] /\ flags[n] => m = n

\* Each flag, for itself, was the panel's while it was in some state of R.  The flags
\* need not have been so together: an event changes some of them only.
Evidence(flags, R) ==
  /\ flags["exit_delay"] => "arming" \in R
  /\ \A a \in Alarms : flags[a] => "triggered" \in R
  /\ flags["arm_stay"] => "armed_home" \in R
  /\ flags["arm_no_entry"] => "armed_night" \in R
  /\ flags["arm"] => \E s \in Armed : s \in R
  /\ ~flags["arm"] => "disarmed" \in R

\* What the event tells has happened while the panel was in some state of R.
Covered(event, R) ==
  /\ event = "arm_stay" => "armed_home" \in R
  /\ event = "arm_no_entry" => "armed_night" \in R
  /\ event \in Modes \cup {"code"} => \E s \in Armed : s \in R
  /\ event \in {"disarm", "special_disarm"} => "disarmed" \in R
  /\ event = "zone_alarm" => "triggered" \in R

\* The names, written out for the provers.
LEMMA Names ==
  /\ FlagNames = {"arm", "exit_delay", "bypassed", "arm_stay", "arm_away", "arm_no_entry",
                  "audible_alarm", "silent_alarm"}
  /\ Modes = {"arm_stay", "arm_away", "arm_no_entry"}
  /\ Alarms = {"audible_alarm", "silent_alarm"}
BY DEF FlagNames, Modes, Alarms

\* CurrentState, case by case.
LEMMA CurrentStates ==
  ASSUME NEW flags \in Flags
  PROVE  /\ flags["exit_delay"] => CurrentState(flags) = "arming"
         /\ ~flags["exit_delay"] =>
              /\ \A a \in Alarms : flags[a] => CurrentState(flags) = "triggered"
              /\ (\A a \in Alarms : ~flags[a]) =>
                   /\ ~flags["arm"] => CurrentState(flags) = "disarmed"
                   /\ flags["arm"] =>
                        CurrentState(flags) =
                          IF flags["arm_stay"] THEN "armed_home"
                          ELSE IF flags["arm_no_entry"] THEN "armed_night" ELSE "armed_away"
BY DEF CurrentState

\* The states that stand for the flags of a panel are evidence for all of them.
LEMMA Explains ==
  ASSUME NEW flags \in Flags, Consistent(flags)
  PROVE  Evidence(flags, States(flags))
<1> DEFINE Shown(hidden) == [f \in FlagNames |-> f \notin hidden /\ flags[f]]
           H0 == {}
           H1 == {"exit_delay"}
           H2 == {"exit_delay"} \cup Alarms
<1>1. States(flags) = {CurrentState(Shown(H0)), CurrentState(Shown(H1)), CurrentState(Shown(H2))}
  BY DEF States
<1>2. \A hidden : /\ Shown(hidden) \in Flags
                  /\ \A f \in FlagNames : Shown(hidden)[f] <=> (f \notin hidden /\ flags[f])
  BY DEF Flags
<1> HIDE DEF Shown
<1>3. flags["exit_delay"] => CurrentState(Shown(H0)) = "arming"
  <2>1. Shown(H0) \in Flags /\ (Shown(H0)["exit_delay"] <=> flags["exit_delay"])
    BY <1>2, Names
  <2> QED BY <2>1, CurrentStates
<1>4. \A a \in Alarms : flags[a] => CurrentState(Shown(H1)) = "triggered"
  <2>1. /\ Shown(H1) \in Flags /\ ~Shown(H1)["exit_delay"]
        /\ \A a \in Alarms : Shown(H1)[a] <=> flags[a]
    BY <1>2, Names
  <2> QED BY <2>1, CurrentStates
<1>5. /\ ~flags["arm"] => CurrentState(Shown(H2)) = "disarmed"
      /\ flags["arm"] =>
           CurrentState(Shown(H2)) =
             IF flags["arm_stay"] THEN "armed_home"
             ELSE IF flags["arm_no_entry"] THEN "armed_night" ELSE "armed_away"
  <2>1. /\ Shown(H2) \in Flags /\ ~Shown(H2)["exit_delay"]
        /\ \A a \in Alarms : ~Shown(H2)[a]
        /\ \A f \in {"arm", "arm_stay", "arm_no_entry"} : Shown(H2)[f] <=> flags[f]
    BY <1>2, Names
  <2> QED BY <2>1, CurrentStates
<1> HIDE DEF H0, H1, H2
<1> QED BY <1>1, <1>3, <1>4, <1>5, Names DEF Evidence, Armed, Consistent

LEMMA EvidenceStays ==
  ASSUME NEW flags, NEW R, NEW S, R \subseteq S, Evidence(flags, R)
  PROVE  Evidence(flags, S)
BY DEF Evidence

\* Evidence for every flag is enough for current_state, but for the mode of a partition
\* that no event named yet.
LEMMA EvidenceOfState ==
  ASSUME NEW flags \in Flags, NEW R, Evidence(flags, R)
  PROVE  \/ CurrentState(flags) \in R
         \/ CurrentState(flags) = "armed_away" /\ R \cap {"armed_home", "armed_night"} # {}
<1>1. CASE flags["exit_delay"]
  BY <1>1, CurrentStates DEF Evidence
<1>2. CASE ~flags["exit_delay"] /\ \E a \in Alarms : flags[a]
  BY <1>2, CurrentStates DEF Evidence
<1>3. CASE ~flags["exit_delay"] /\ (\A a \in Alarms : ~flags[a]) /\ ~flags["arm"]
  BY <1>3, CurrentStates DEF Evidence
<1>4. CASE ~flags["exit_delay"] /\ (\A a \in Alarms : ~flags[a]) /\ flags["arm"]
  BY <1>4, CurrentStates DEF Evidence, Armed
<1> QED BY <1>1, <1>2, <1>3, <1>4

\* update_container_object changes the named flags and nothing else.
LEMMA UpdatedFlags ==
  ASSUME NEW flags \in Flags, NEW changes
  PROVE  /\ Updated(flags, changes) \in Flags
         /\ \A f \in FlagNames :
              /\ f \notin DOMAIN changes => (Updated(flags, changes)[f] <=> flags[f])
              /\ f \in DOMAIN changes /\ changes[f] = "on" => Updated(flags, changes)[f]
              /\ f \in DOMAIN changes /\ changes[f] = "off" => ~Updated(flags, changes)[f]
BY DEF Updated, Flags

\* A status has every flag: after it the storage is what it says.
LEMMA StatusCopies ==
  ASSUME NEW flags \in Flags, NEW new \in Flags
  PROVE  Updated(flags, [f \in FlagNames |-> IF new[f] THEN "on" ELSE "off"]) = new
BY DEF Updated, Flags

\* New flags need evidence where they differ.
LEMMA EvidenceOfNew ==
  ASSUME NEW flags, NEW new, NEW R, Evidence(flags, R),
         new["exit_delay"] => flags["exit_delay"],
         \A a \in Alarms : new[a] => flags[a] \/ "triggered" \in R,
         new["arm_stay"] => flags["arm_stay"] \/ "armed_home" \in R,
         new["arm_no_entry"] => flags["arm_no_entry"] \/ "armed_night" \in R,
         new["arm"] => flags["arm"] \/ \E s \in Armed : s \in R,
         ~new["arm"] => ~flags["arm"] \/ "disarmed" \in R
  PROVE  Evidence(new, R)
BY DEF Evidence

\* Rows of event_map change no flag that the event is no evidence for.
LEMMA EventKeepsEvidence ==
  ASSUME NEW flags \in Flags, NEW event \in Events, NEW R, Evidence(flags, R), Covered(event, R)
  PROVE  Evidence(Updated(flags, ChangeOf(event)), R)
<1> DEFINE changes == ChangeOf(event)
           new == Updated(flags, changes)
<1>1. /\ \A f \in FlagNames :
           /\ f \notin DOMAIN changes => (new[f] <=> flags[f])
           /\ f \in DOMAIN changes /\ changes[f] = "on" => new[f]
           /\ f \in DOMAIN changes /\ changes[f] = "off" => ~new[f]
  BY UpdatedFlags
<1>2. CASE event \in Modes
  <2>1. changes = [f \in {"arm", event} \ {"arm_no_entry"} |-> "on"]
    <3>1. event \notin {"code", "disarm", "special_disarm", "bypass"}
      BY <1>2, Names
    <3> QED BY <1>2, <3>1 DEF ChangeOf, ModeChange
  <2>2. /\ DOMAIN changes = {"arm", event} \ {"arm_no_entry"}
        /\ \A f \in DOMAIN changes : changes[f] = "on"
    BY <2>1
  <2> HIDE DEF new, changes
  <2>3. /\ new["exit_delay"] => flags["exit_delay"]
        /\ \A a \in Alarms : new[a] => flags[a]
        /\ new["arm_stay"] => flags["arm_stay"] \/ event = "arm_stay"
        /\ new["arm_no_entry"] => flags["arm_no_entry"]
        /\ new["arm"]
    BY <1>1, <1>2, <2>2, Names
  <2> QED BY <1>2, <2>3, EvidenceOfNew DEF Covered, new, changes
<1>3. CASE event \in {"code", "disarm", "special_disarm"}
  <2>1. \/ event = "code" /\ changes = [arm |-> "on"]
        \/ event # "code" /\ changes = [arm |-> "off", audible_alarm |-> "off"]
        \/ event # "code" /\ changes = [arm |-> "off"]
    BY <1>3 DEF ChangeOf, Modes
  <2>2. /\ DOMAIN changes \in {{"arm"}, {"arm", "audible_alarm"}}
        /\ changes["arm"] = (IF event = "code" THEN "on" ELSE "off")
        /\ "audible_alarm" \in DOMAIN changes => changes["audible_alarm"] = "off"
    BY <2>1
  <2> HIDE DEF new, changes
  <2>3. /\ new["exit_delay"] => flags["exit_delay"]
        /\ \A a \in Alarms : new[a] => flags[a]
        /\ new["arm_stay"] => flags["arm_stay"]
        /\ new["arm_no_entry"] => flags["arm_no_entry"]
        /\ new["arm"] <=> event = "code"
    BY <1>1, <2>2, Names
  <2> QED BY <1>3, <2>3, EvidenceOfNew DEF Covered, new, changes
<1>4. CASE event \in {"bypass", "zone_alarm"}
  <2>1. changes = [bypassed |-> "toggle"] \/ changes = <<>>
    BY <1>4 DEF ChangeOf, Modes
  <2>2. DOMAIN changes \subseteq {"bypassed"}
    BY <2>1
  <2> HIDE DEF new, changes
  <2>3. \A f \in FlagNames \ {"bypassed"} : new[f] <=> flags[f]
    BY <1>1, <2>2
  <2>4. /\ new["exit_delay"] => flags["exit_delay"]
        /\ \A a \in Alarms : new[a] => flags[a]
        /\ new["arm_stay"] => flags["arm_stay"]
        /\ new["arm_no_entry"] => flags["arm_no_entry"]
        /\ new["arm"] <=> flags["arm"]
    BY <2>3, Names
  <2> QED BY <2>4, EvidenceOfNew DEF new, changes
<1> QED BY <1>2, <1>3, <1>4 DEF Events

LEMMA HookKeepsEvidence ==
  ASSUME NEW flags \in Flags, NEW event \in Events, NEW R, Evidence(flags, R), Covered(event, R)
  PROVE  Evidence(Updated(flags, HookOf(event)), R)
<1> DEFINE changes == HookOf(event)
           new == Updated(flags, changes)
<1>1. /\ \A f \in FlagNames :
           /\ f \notin DOMAIN changes => (new[f] <=> flags[f])
           /\ f \in DOMAIN changes /\ changes[f] = "off" => ~new[f]
  BY UpdatedFlags
<1>2. /\ DOMAIN changes \subseteq {"audible_alarm", "exit_delay"}
      /\ "audible_alarm" \in DOMAIN changes => event = "zone_alarm"
      /\ "exit_delay" \in DOMAIN changes => changes["exit_delay"] = "off"
  <2>1. \/ event = "zone_alarm" /\ changes = [audible_alarm |-> "on", exit_delay |-> "off"]
        \/ changes = <<>>
    BY DEF HookOf
  <2> QED BY <2>1
<1> HIDE DEF new, changes
<1>3. /\ new["exit_delay"] => flags["exit_delay"]
      /\ \A a \in Alarms : new[a] => flags[a] \/ event = "zone_alarm"
      /\ new["arm_stay"] => flags["arm_stay"]
      /\ new["arm_no_entry"] => flags["arm_no_entry"]
      /\ new["arm"] <=> flags["arm"]
  BY <1>1, <1>2, Names
<1> QED BY <1>3, EvidenceOfNew DEF Covered, new, changes

-----------------------------------------------------------------------------
(* The inductive invariant *)

Messages ==
  [kind : {"event"}, event : Events] \cup [kind : {"status"}, flags : Flags, at : Nat]

Types ==
  /\ panel \in Flags /\ stored \in Flags
  /\ version \in Nat /\ published \in Nat
  /\ wire \in Seq(Messages)
  /\ poll \in {"none", "asked", "read"}
  /\ snapshot \in [flags : Flags, at : Nat]
  /\ announcing \in Seq(Events)

\* The events on their way, and those whose subscribers have not run.
EventsCovered(R) ==
  /\ \A i \in 1..Len(wire) : wire[i].kind = "event" => Covered(wire[i].event, R)
  /\ \A i \in 1..Len(announcing) : Covered(announcing[i], R)

\* Only the running poll has a status on the wire, and what follows it is newer: if it
\* has seen the last change it is the last message, and it says what the panel is.
StatusKept ==
  \A i \in 1..Len(wire) : wire[i].kind = "status" =>
    /\ poll = "asked"
    /\ Evidence(wire[i].flags, sinceRead)
    /\ \A j \in 1..Len(wire) : i < j => wire[j].kind = "event" /\ Covered(wire[j].event, sinceRead)
    /\ wire[i].at <= version
    /\ wire[i].at = version => wire[i].flags = panel /\ i = Len(wire)

\* So does a status that waits for the other blocks of its poll.
ReadKept ==
  poll = "read" =>
    /\ Evidence(snapshot.flags, sinceRead) /\ EventsCovered(sinceRead)
    /\ snapshot.at <= version
    /\ snapshot.at = version => wire = <<>> /\ announcing = <<>> /\ snapshot.flags = panel

\* Once a status that has seen the last change is published, no event is on its way.
PublishedKept ==
  /\ published <= version
  /\ published = version =>
       /\ \A i \in 1..Len(wire) : wire[i].kind = "status"
       /\ announcing = <<>>

Inv ==
  /\ Types
  /\ Consistent(panel)
  /\ Evidence(stored, recent) /\ EventsCovered(recent)
  /\ StatusKept /\ ReadKept /\ PublishedKept
  /\ PollCorrects /\ AnnouncedIsRecent

LEMMA InitInv == Init => Inv
<1> SUFFICES ASSUME Init PROVE Inv
  OBVIOUS
<1>1. /\ AllOff \in Flags /\ \A f \in FlagNames : ~AllOff[f]
  BY DEF AllOff, Flags
<1>2. CurrentState(AllOff) = "disarmed"
  BY <1>1, CurrentStates, Names
<1>3. Consistent(panel) /\ Evidence(stored, recent)
  BY <1>1, Names DEF Init, Consistent, Evidence
<1>4. Types
  BY <1>1 DEF Init, Types
<1>5. EventsCovered(recent) /\ StatusKept /\ ReadKept /\ PublishedKept
  BY DEF Init, EventsCovered, StatusKept, ReadKept, PublishedKept
<1> QED BY <1>2, <1>3, <1>4, <1>5 DEF Init, Inv, PollCorrects, AnnouncedIsRecent

\* The sequence operations of the actions.
LEMMA Rest ==
  ASSUME NEW S, NEW s \in Seq(S), s # <<>>
  PROVE  /\ Tail(s) \in Seq(S) /\ Head(s) \in S /\ Head(s) = s[1]
         /\ Len(s) \in Nat /\ 1 \in 1..Len(s) /\ Len(Tail(s)) = Len(s) - 1
         /\ \A i \in 1..Len(Tail(s)) : i + 1 \in 1..Len(s) /\ Tail(s)[i] = s[i + 1]
OBVIOUS

LEMMA OneMore ==
  ASSUME NEW S, NEW s \in Seq(S), NEW m \in S
  PROVE  /\ Append(s, m) \in Seq(S) /\ s \o <<m>> = Append(s, m) /\ s \o <<>> = s
         /\ Len(s) \in Nat /\ Len(Append(s, m)) = Len(s) + 1
         /\ Append(s, m)[Len(s) + 1] = m
         /\ \A i \in 1..Len(s) : Append(s, m)[i] = s[i]
OBVIOUS

LEMMA MessageKinds ==
  ASSUME NEW m \in Messages
  PROVE  \/ m.kind = "event" /\ m.event \in Events
         \/ m.kind = "status" /\ m.flags \in Flags /\ m.at \in Nat
BY DEF Messages

LEMMA CoverageStays ==
  ASSUME NEW event, NEW R, NEW S, R \subseteq S, Covered(event, R)
  PROVE  Covered(event, S)
BY DEF Covered

\* Any change of the panel that its event covers keeps the invariant.
LEMMA BecomesKeepsInv ==
  ASSUME Inv, NEW flags \in Flags, Consistent(flags), NEW events, Becomes(flags, events),
         \/ events = <<>>
         \/ \E e \in Events : events = Reported(e) /\ Covered(e, States(flags))
  PROVE  Inv'
<1>1. /\ panel' = flags /\ version' = version + 1 /\ wire' = wire \o events
      /\ recent' = recent \cup States(flags) /\ sinceRead' = sinceRead \cup States(flags)
      /\ UNCHANGED <<stored, state, poll, snapshot, announcing, published>>
  BY DEF Becomes
<1>2. /\ wire' \in Seq(Messages) /\ Len(wire) \in Nat /\ Len(wire') \in Nat
      /\ \A i \in 1..Len(wire') :
           \/ i \in 1..Len(wire) /\ wire'[i] = wire[i]
           \/ i = Len(wire) + 1 /\ wire'[i].kind = "event" /\ Covered(wire'[i].event, States(flags))
      /\ Len(wire') >= Len(wire)
  <2>1. CASE events = <<>>
    BY <1>1, <2>1, OneMore DEF Inv, Types
  <2>2. CASE \E e \in Events : events = Reported(e) /\ Covered(e, States(flags))
    <3>1. PICK e \in Events : events = Reported(e) /\ Covered(e, States(flags))
      BY <2>2
    <3> DEFINE m == [kind |-> "event", event |-> e]
    <3>2. m \in Messages /\ m.kind = "event" /\ m.event = e
      BY DEF Messages
    <3> HIDE DEF m
    <3>3. wire' = wire \o <<m>>
      BY <1>1, <3>1 DEF Reported, m
    <3>4. wire' = Append(wire, m)
      BY <3>2, <3>3, OneMore DEF Inv, Types
    <3> QED BY <3>1, <3>2, <3>4, OneMore DEF Inv, Types
  <2> QED BY <2>1, <2>2
<1>3. Types'
  BY <1>1, <1>2 DEF Inv, Types
<1>4. Evidence(stored, recent)' /\ Consistent(panel)'
  BY <1>1, EvidenceStays DEF Inv, Consistent, Evidence
<1>5. EventsCovered(recent)'
  BY <1>1, <1>2, CoverageStays DEF Inv, EventsCovered
<1>6. StatusKept'
  <2> SUFFICES ASSUME NEW i \in 1..Len(wire'), wire'[i].kind = "status"
               PROVE  /\ poll' = "asked"
                      /\ Evidence(wire'[i].flags, sinceRead')
                      /\ \A j \in 1..Len(wire') : i < j =>
                           wire'[j].kind = "event" /\ Covered(wire'[j].event, sinceRead')
                      /\ wire'[i].at <= version'
                      /\ wire'[i].at = version' => wire'[i].flags = panel' /\ i = Len(wire')
    BY DEF StatusKept
  <2>1. i \in 1..Len(wire) /\ wire'[i] = wire[i]
    BY <1>2
  <2>2. /\ poll = "asked" /\ Evidence(wire[i].flags, sinceRead)
        /\ \A j \in 1..Len(wire) : i < j =>
             wire[j].kind = "event" /\ Covered(wire[j].event, sinceRead)
        /\ wire[i].at <= version
    BY <2>1 DEF Inv, StatusKept
  <2>3. wire[i].at \in Nat /\ version \in Nat
    <3>1. wire[i] \in Messages /\ wire[i].kind = "status"
      BY <2>1 DEF Inv, Types
    <3> QED BY <3>1, MessageKinds DEF Inv, Types
  <2>4. Evidence(wire'[i].flags, sinceRead')
    BY <1>1, <2>1, <2>2, EvidenceStays
  <2>5. ASSUME NEW j \in 1..Len(wire'), i < j
        PROVE  wire'[j].kind = "event" /\ Covered(wire'[j].event, sinceRead')
    BY <1>1, <1>2, <2>2, <2>5, CoverageStays
  <2>6. wire'[i].at <= version' /\ wire'[i].at # version'
    BY <1>1, <2>1, <2>2, <2>3
  <2>7. poll' = "asked"
    BY <1>1, <2>2
  <2> QED BY <2>4, <2>5, <2>6, <2>7
<1>7. ReadKept'
  <2> SUFFICES ASSUME poll = "read"
               PROVE  /\ Evidence(snapshot.flags, sinceRead') /\ EventsCovered(sinceRead)'
                      /\ snapshot.at <= version' /\ snapshot.at # version'
    BY <1>1 DEF ReadKept
  <2>1. /\ Evidence(snapshot.flags, sinceRead) /\ EventsCovered(sinceRead)
        /\ snapshot.at <= version /\ snapshot.at \in Nat /\ version \in Nat
    BY DEF Inv, Types, ReadKept
  <2>2. Evidence(snapshot.flags, sinceRead')
    BY <1>1, <2>1, EvidenceStays
  <2>3. EventsCovered(sinceRead)'
    BY <1>1, <1>2, <2>1, CoverageStays DEF EventsCovered
  <2>4. snapshot.at <= version' /\ snapshot.at # version'
    BY <1>1, <2>1
  <2> QED BY <2>2, <2>3, <2>4
<1>8. PublishedKept' /\ PollCorrects'
  BY <1>1 DEF Inv, Types, PublishedKept, PollCorrects
<1>9. AnnouncedIsRecent'
  BY <1>1 DEF Inv, AnnouncedIsRecent
<1> QED BY <1>3, <1>4, <1>5, <1>6, <1>7, <1>8, <1>9 DEF Inv

LEMMA EnvironmentKeepsInv ==
  ASSUME Inv, Environment
  PROVE  Inv'
<1>1. panel \in Flags /\ Consistent(panel)
  BY DEF Inv, Types
<1>2. CASE Arm
  <2>1. PICK mode \in Modes, event \in Modes \cup {"code"} :
          /\ ~panel["arm"]
          /\ event \in {mode, "code"}
          /\ Becomes([panel EXCEPT !["arm"] = TRUE, ![mode] = TRUE, !["exit_delay"] = TRUE],
                     Reported(event))
    BY <1>2 DEF Arm
  <2> DEFINE new == [panel EXCEPT !["arm"] = TRUE, ![mode] = TRUE, !["exit_delay"] = TRUE]
  <2>2. /\ new \in Flags /\ new["arm"] /\ new[mode]
        /\ \A f \in Modes : new[f] <=> f = mode \/ panel[f]
    BY <1>1, Names DEF Flags
  <2> HIDE DEF new
  <2>3. Consistent(new)
    BY <1>1, <2>1, <2>2 DEF Consistent
  <2>4. Covered(event, States(new))
    BY <2>1, <2>2, <2>3, Explains, Names DEF Covered, Evidence
  <2>5. event \in Events /\ Becomes(new, Reported(event))
    BY <2>1 DEF Events, new
  <2> QED BY <2>2, <2>3, <2>4, <2>5, BecomesKeepsInv
<1>3. CASE DelayEnds
  <2> DEFINE noDelay == [panel EXCEPT !["exit_delay"] = FALSE]
             noAlarm == [f \in FlagNames |-> f \notin Alarms /\ panel[f]]
  <2>1. /\ noDelay \in Flags /\ noDelay["arm"] = panel["arm"]
        /\ \A m \in Modes : noDelay[m] = panel[m]
    BY <1>1, Names DEF Flags
  <2>2. /\ noAlarm \in Flags /\ (noAlarm["arm"] <=> panel["arm"])
        /\ \A m \in Modes : noAlarm[m] <=> panel[m]
    BY <1>1, Names DEF Flags
  <2>3. Becomes(noDelay, <<>>) \/ Becomes(noAlarm, <<>>)
    BY <1>3 DEF DelayEnds
  <2> HIDE DEF noDelay, noAlarm
  <2>4. Consistent(noDelay) /\ Consistent(noAlarm)
    BY <1>1, <2>1, <2>2 DEF Consistent
  <2> QED BY <2>1, <2>2, <2>3, <2>4, BecomesKeepsInv
<1>4. CASE Disarm
  <2>1. PICK event \in {"disarm", "special_disarm"} :
          Becomes([AllOff EXCEPT !["bypassed"] = panel["bypassed"]], Reported(event))
    BY <1>4 DEF Disarm
  <2> DEFINE new == [AllOff EXCEPT !["bypassed"] = panel["bypassed"]]
  <2>2. new \in Flags /\ ~new["arm"] /\ \A m \in Modes : ~new[m]
    BY <1>1, Names DEF AllOff, Flags
  <2>3. Becomes(new, Reported(event)) /\ event \in Events
    BY <2>1 DEF Events
  <2> HIDE DEF new
  <2>4. Consistent(new)
    BY <2>2 DEF Consistent
  <2>5. Covered(event, States(new))
    BY <2>2, <2>4, Explains DEF Covered, Evidence, Modes
  <2> QED BY <2>2, <2>3, <2>4, <2>5, BecomesKeepsInv
<1>5. CASE ZoneAlarm
  <2>1. PICK a \in Alarms :
          Becomes([panel EXCEPT ![a] = TRUE, !["exit_delay"] = FALSE], Reported("zone_alarm"))
    BY <1>5 DEF ZoneAlarm
  <2> DEFINE new == [panel EXCEPT ![a] = TRUE, !["exit_delay"] = FALSE]
  <2>2. /\ new \in Flags /\ new[a] /\ new["arm"] = panel["arm"]
        /\ \A m \in Modes : new[m] = panel[m]
    BY <1>1, Names DEF Flags
  <2>3. Becomes(new, Reported("zone_alarm")) /\ "zone_alarm" \in Events
    BY <2>1 DEF Events
  <2> HIDE DEF new
  <2>4. Consistent(new)
    BY <1>1, <2>2 DEF Consistent
  <2>5. Covered("zone_alarm", States(new))
    BY <2>2, <2>4, Explains DEF Covered, Evidence, Modes
  <2> QED BY <2>2, <2>3, <2>4, <2>5, BecomesKeepsInv
<1>6. CASE Bypass
  <2> DEFINE new == [panel EXCEPT !["bypassed"] = ~@]
  <2>1. new \in Flags /\ new["arm"] = panel["arm"] /\ \A m \in Modes : new[m] = panel[m]
    BY <1>1, Names DEF Flags
  <2>2. Becomes(new, Reported("bypass")) /\ "bypass" \in Events
    BY <1>6 DEF Bypass, Events
  <2> HIDE DEF new
  <2>3. Consistent(new)
    BY <1>1, <2>1 DEF Consistent
  <2>4. Covered("bypass", States(new))
    BY DEF Covered, Modes
  <2> QED BY <2>1, <2>2, <2>3, <2>4, BecomesKeepsInv
<1> QED BY <1>2, <1>3, <1>4, <1>5, <1>6 DEF Environment

LEMMA ReadStatusKeepsInv ==
  ASSUME Inv, ReadStatus
  PROVE  Inv'
<1> DEFINE m == [kind |-> "status", flags |-> panel, at |-> version]
<1>1. /\ m \in Messages /\ m.kind = "status" /\ m.flags = panel /\ m.at = version
      /\ wire \in Seq(Messages) /\ version \in Nat
  BY DEF Inv, Types, Messages
<1>2. /\ poll = "none" /\ poll' = "asked" /\ wire' = Append(wire, m) /\ sinceRead' = States(panel)
      /\ UNCHANGED <<panel, version, stored, state, snapshot, announcing, published, recent>>
  BY DEF ReadStatus
<1> HIDE DEF m
<1>3. /\ wire' \in Seq(Messages) /\ Len(wire) \in Nat /\ Len(wire') = Len(wire) + 1
      /\ wire'[Len(wire) + 1] = m
      /\ \A i \in 1..Len(wire) : wire'[i] = wire[i]
      /\ \A i \in 1..Len(wire') : i \in 1..Len(wire) \/ i = Len(wire')
  BY <1>1, <1>2, OneMore
<1>4. \A i \in 1..Len(wire) : wire[i].kind # "status"
  BY <1>2 DEF Inv, StatusKept
<1>5. Types'
  BY <1>2, <1>3 DEF Inv, Types
<1>6. EventsCovered(recent)'
  BY <1>1, <1>2, <1>3 DEF Inv, EventsCovered
<1>7. Evidence(panel, States(panel))
  BY Explains DEF Inv, Types
<1>8. StatusKept'
  <2> SUFFICES ASSUME NEW i \in 1..Len(wire'), wire'[i].kind = "status"
               PROVE  /\ poll' = "asked"
                      /\ Evidence(wire'[i].flags, sinceRead')
                      /\ \A j \in 1..Len(wire') : i < j =>
                           wire'[j].kind = "event" /\ Covered(wire'[j].event, sinceRead')
                      /\ wire'[i].at <= version'
                      /\ wire'[i].at = version' => wire'[i].flags = panel' /\ i = Len(wire')
    BY DEF StatusKept
  <2>1. i = Len(wire') /\ wire'[i] = m
    BY <1>3, <1>4
  <2>2. \A j \in 1..Len(wire') : ~(i < j)
    BY <1>3, <2>1
  <2>3. version' <= version'
    BY <1>1, <1>2
  <2> QED BY <1>1, <1>2, <1>7, <2>1, <2>2, <2>3
<1>9. ReadKept'
  BY <1>2 DEF ReadKept
<1>10. PublishedKept'
  BY <1>1, <1>2, <1>3 DEF Inv, PublishedKept
<1> QED BY <1>2, <1>5, <1>6, <1>8, <1>9, <1>10
        DEF Inv, Consistent, Evidence, PollCorrects, AnnouncedIsRecent

LEMMA ReceiveStatusKeepsInv ==
  ASSUME Inv, ReceiveStatus
  PROVE  Inv'
<1>1. /\ wire # <<>> /\ Head(wire).kind = "status" /\ announcing = <<>>
      /\ wire' = Tail(wire) /\ poll' = "read"
      /\ snapshot' = [flags |-> Head(wire).flags, at |-> Head(wire).at]
      /\ UNCHANGED <<panel, version, stored, state, announcing, published, recent, sinceRead>>
  BY DEF ReceiveStatus
<1>2. /\ Head(wire) \in Messages /\ Head(wire) = wire[1] /\ 1 \in 1..Len(wire)
      /\ wire' \in Seq(Messages) /\ Len(wire) \in Nat /\ Len(wire') = Len(wire) - 1
      /\ \A i \in 1..Len(wire') : i + 1 \in 1..Len(wire) /\ wire'[i] = wire[i + 1]
  BY <1>1, Rest DEF Inv, Types
<1>3. /\ snapshot'.flags = wire[1].flags /\ snapshot'.at = wire[1].at
      /\ snapshot'.flags \in Flags /\ snapshot'.at \in Nat /\ wire[1].kind = "status"
      /\ snapshot' \in [flags : Flags, at : Nat]
  BY <1>1, <1>2, MessageKinds
<1>4. /\ Evidence(wire[1].flags, sinceRead) /\ wire[1].at <= version
      /\ \A j \in 1..Len(wire) : 1 < j =>
           wire[j].kind = "event" /\ Covered(wire[j].event, sinceRead)
      /\ wire[1].at = version => wire[1].flags = panel /\ Len(wire) = 1
  BY <1>2, <1>3 DEF Inv, StatusKept
<1>5. \A i \in 1..Len(wire') :
        wire'[i].kind = "event" /\ Covered(wire'[i].event, sinceRead)
  <2> SUFFICES ASSUME NEW i \in 1..Len(wire')
               PROVE  wire'[i].kind = "event" /\ Covered(wire'[i].event, sinceRead)
    OBVIOUS
  <2>1. i + 1 \in 1..Len(wire) /\ 1 < i + 1 /\ wire'[i] = wire[i + 1]
    BY <1>2
  <2> QED BY <1>4, <2>1
<1>6. Types'
  BY <1>1, <1>2, <1>3 DEF Inv, Types
<1>7. EventsCovered(recent)'
  BY <1>1, <1>2 DEF Inv, EventsCovered
<1>8. StatusKept'
  BY <1>5 DEF StatusKept
<1>9. ReadKept'
  <2>1. EventsCovered(sinceRead)'
    BY <1>1, <1>5 DEF EventsCovered
  <2>2. snapshot'.at = version' => wire' = <<>>
    BY <1>1, <1>2, <1>3, <1>4
  <2> QED BY <1>1, <1>3, <1>4, <2>1, <2>2 DEF ReadKept
<1>10. PublishedKept'
  BY <1>1, <1>2 DEF Inv, PublishedKept
<1> QED BY <1>1, <1>6, <1>7, <1>8, <1>9, <1>10
        DEF Inv, Consistent, Evidence, PollCorrects, AnnouncedIsRecent

LEMMA PublishKeepsInv ==
  ASSUME Inv, Publish
  PROVE  Inv'
<1>1. /\ poll = "read" /\ poll' = "none" /\ state' = CurrentState(stored')
      /\ published' = snapshot.at /\ recent' = sinceRead
      /\ UNCHANGED <<panel, version, wire, snapshot, announcing, sinceRead>>
  BY DEF Publish
<1>2. snapshot.flags \in Flags /\ snapshot.at \in Nat /\ stored \in Flags
  BY DEF Inv, Types
<1>3. stored' = snapshot.flags
  BY <1>2, StatusCopies DEF Publish, StatusUpdate
<1>4. /\ Evidence(snapshot.flags, sinceRead) /\ EventsCovered(sinceRead)
      /\ snapshot.at <= version
      /\ snapshot.at = version => wire = <<>> /\ announcing = <<>> /\ snapshot.flags = panel
  BY <1>1 DEF Inv, ReadKept
<1>5. Types'
  BY <1>1, <1>2, <1>3 DEF Inv, Types
<1>6. Evidence(stored, recent)' /\ EventsCovered(recent)' /\ Consistent(panel)'
  BY <1>1, <1>3, <1>4 DEF Inv, Evidence, EventsCovered, Consistent
<1>7. StatusKept'
  BY <1>1 DEF Inv, StatusKept
<1>8. ReadKept'
  BY <1>1 DEF ReadKept
<1>9. PublishedKept' /\ PollCorrects'
  BY <1>1, <1>3, <1>4 DEF PublishedKept, PollCorrects
<1>10. AnnouncedIsRecent'
  BY <1>1, <1>2, <1>3, <1>4, EvidenceOfState DEF AnnouncedIsRecent
<1> QED BY <1>5, <1>6, <1>7, <1>8, <1>9, <1>10 DEF Inv

LEMMA HandleEventKeepsInv ==
  ASSUME Inv, HandleEvent
  PROVE  Inv'
<1> DEFINE event == wire[1].event
<1>1. /\ wire # <<>> /\ Head(wire).kind = "event" /\ wire' = Tail(wire)
      /\ stored' = Updated(stored, ChangeOf(Head(wire).event))
      /\ announcing' = Append(announcing, Head(wire).event)
      /\ UNCHANGED <<panel, version, poll, snapshot, published, recent, sinceRead>>
  BY DEF HandleEvent
<1>2. /\ Head(wire) \in Messages /\ Head(wire) = wire[1] /\ 1 \in 1..Len(wire)
      /\ wire' \in Seq(Messages) /\ Len(wire) \in Nat /\ Len(wire') = Len(wire) - 1
      /\ \A i \in 1..Len(wire') : i + 1 \in 1..Len(wire) /\ wire'[i] = wire[i + 1]
  BY <1>1, Rest DEF Inv, Types
<1>3. event \in Events /\ wire[1].kind = "event"
  BY <1>1, <1>2, MessageKinds
<1> HIDE DEF event
<1>4. /\ announcing' \in Seq(Events) /\ announcing' # <<>> /\ Len(announcing) \in Nat
      /\ Len(announcing') = Len(announcing) + 1 /\ announcing'[Len(announcing) + 1] = event
      /\ \A i \in 1..Len(announcing) : announcing'[i] = announcing[i]
  <2>1. announcing \in Seq(Events) /\ announcing' = Append(announcing, event)
    BY <1>1, <1>2 DEF Inv, Types, event
  <2>2. Len(announcing') # 0
    BY <1>3, <2>1, OneMore
  <2> QED BY <1>3, <2>1, <2>2, OneMore
<1>5. Covered(event, recent)
  BY <1>2, <1>3 DEF Inv, EventsCovered, event
<1>6. stored' = Updated(stored, ChangeOf(event)) /\ stored \in Flags
  BY <1>1, <1>2 DEF Inv, Types, event
<1>7. Evidence(stored', recent')
  BY <1>1, <1>3, <1>5, <1>6, EventKeepsEvidence DEF Inv
<1>8. Types'
  BY <1>1, <1>2, <1>4, <1>6, UpdatedFlags DEF Inv, Types
<1>9. ASSUME NEW R, EventsCovered(R), Covered(event, R)
      PROVE  /\ \A i \in 1..Len(wire') : wire'[i].kind = "event" => Covered(wire'[i].event, R)
             /\ \A i \in 1..Len(announcing') : Covered(announcing'[i], R)
  <2>1. \A i \in 1..Len(announcing') : i \in 1..Len(announcing) \/ i = Len(announcing) + 1
    BY <1>4
  <2> QED BY <1>2, <1>4, <1>9, <2>1 DEF EventsCovered
<1>10. EventsCovered(recent)'
  BY <1>1, <1>5, <1>9 DEF Inv, EventsCovered
<1>11. StatusKept'
  <2> SUFFICES ASSUME NEW i \in 1..Len(wire'), wire'[i].kind = "status"
               PROVE  /\ poll' = "asked"
                      /\ Evidence(wire'[i].flags, sinceRead')
                      /\ \A j \in 1..Len(wire') : i < j =>
                           wire'[j].kind = "event" /\ Covered(wire'[j].event, sinceRead')
                      /\ wire'[i].at <= version'
                      /\ wire'[i].at = version' => wire'[i].flags = panel' /\ i = Len(wire')
    BY DEF StatusKept
  <2>1. i + 1 \in 1..Len(wire) /\ wire'[i] = wire[i + 1]
    BY <1>2
  <2>2. /\ poll = "asked" /\ Evidence(wire[i + 1].flags, sinceRead)
        /\ \A j \in 1..Len(wire) : i + 1 < j =>
             wire[j].kind = "event" /\ Covered(wire[j].event, sinceRead)
        /\ wire[i + 1].at <= version
        /\ wire[i + 1].at = version => wire[i + 1].flags = panel /\ i + 1 = Len(wire)
    BY <2>1 DEF Inv, StatusKept
  <2>3. ASSUME NEW j \in 1..Len(wire'), i < j
        PROVE  wire'[j].kind = "event" /\ Covered(wire'[j].event, sinceRead')
    <3>1. j + 1 \in 1..Len(wire) /\ i + 1 < j + 1 /\ wire'[j] = wire[j + 1]
      BY <1>2, <2>3
    <3> QED BY <1>1, <2>2, <3>1
  <2>4. i + 1 = Len(wire) => i = Len(wire')
    BY <1>2
  <2> QED BY <1>1, <2>1, <2>2, <2>3, <2>4
<1>12. ReadKept'
  <2> SUFFICES ASSUME poll = "read"
               PROVE  /\ Evidence(snapshot.flags, sinceRead) /\ EventsCovered(sinceRead)'
                      /\ snapshot.at <= version /\ snapshot.at # version
    BY <1>1 DEF ReadKept
  <2>1. /\ Evidence(snapshot.flags, sinceRead) /\ EventsCovered(sinceRead)
        /\ snapshot.at <= version /\ snapshot.at # version
    BY <1>1 DEF Inv, ReadKept
  <2>2. Covered(event, sinceRead)
    BY <1>2, <1>3, <2>1 DEF EventsCovered, event
  <2> QED BY <1>1, <1>9, <2>1, <2>2 DEF EventsCovered
<1>13. PublishedKept' /\ PollCorrects'
  <2>1. published # version /\ published <= version
    BY <1>2, <1>3 DEF Inv, PublishedKept
  <2> QED BY <1>1, <2>1 DEF PublishedKept, PollCorrects
<1> QED BY <1>1, <1>4, <1>7, <1>8, <1>10, <1>11, <1>12, <1>13
        DEF Inv, Consistent, AnnouncedIsRecent

LEMMA OnEventKeepsInv ==
  ASSUME Inv, OnEvent
  PROVE  Inv'
<1>1. /\ announcing # <<>> /\ announcing' = Tail(announcing)
      /\ stored' = Updated(stored, HookOf(Head(announcing))) /\ state' = CurrentState(stored')
      /\ UNCHANGED <<panel, version, wire, poll, snapshot, published, recent, sinceRead>>
  BY DEF OnEvent
<1>2. /\ Head(announcing) \in Events /\ Head(announcing) = announcing[1]
      /\ 1 \in 1..Len(announcing) /\ announcing' \in Seq(Events)
      /\ \A i \in 1..Len(announcing') :
           i + 1 \in 1..Len(announcing) /\ announcing'[i] = announcing[i + 1]
  BY <1>1, Rest DEF Inv, Types
<1>3. stored' \in Flags /\ Evidence(stored', recent)
  BY <1>1, <1>2, UpdatedFlags, HookKeepsEvidence DEF Inv, Types, EventsCovered
<1>4. Types'
  BY <1>1, <1>2, <1>3 DEF Inv, Types
<1>5. \A R : EventsCovered(R) =>
        /\ \A i \in 1..Len(wire) : wire[i].kind = "event" => Covered(wire[i].event, R)
        /\ \A i \in 1..Len(announcing') : Covered(announcing'[i], R)
  BY <1>2 DEF EventsCovered
<1>6. EventsCovered(recent)' /\ (EventsCovered(sinceRead) => EventsCovered(sinceRead)')
  BY <1>1, <1>5 DEF Inv, EventsCovered
<1>7. StatusKept'
  BY <1>1 DEF Inv, StatusKept
<1>8. ReadKept'
  BY <1>1, <1>6 DEF Inv, ReadKept
<1>9. PublishedKept' /\ PollCorrects'
  BY <1>1 DEF Inv, PublishedKept, PollCorrects
<1>10. AnnouncedIsRecent'
  BY <1>1, <1>3, EvidenceOfState DEF AnnouncedIsRecent
<1> QED BY <1>1, <1>3, <1>4, <1>6, <1>7, <1>8, <1>9, <1>10 DEF Inv, Consistent

\* The invariant holds however the panel's changes, the polls and the subscribers
\* interleave, and however many changes there are.
THEOREM Invariance == Spec => []Inv
<1>1. Init => Inv
  BY InitInv
<1>2. Inv /\ [Next]_vars => Inv'
  <2> SUFFICES ASSUME Inv, [Next]_vars PROVE Inv'
    OBVIOUS
  <2>1. CASE Environment
    BY <2>1, EnvironmentKeepsInv
  <2>2. CASE ReadStatus
    BY <2>2, ReadStatusKeepsInv
  <2>3. CASE ReceiveStatus
    BY <2>3, ReceiveStatusKeepsInv
  <2>4. CASE Publish
    BY <2>4, PublishKeepsInv
  <2>5. CASE HandleEvent
    BY <2>5, HandleEventKeepsInv
  <2>6. CASE OnEvent
    BY <2>6, OnEventKeepsInv
  <2>7. CASE UNCHANGED vars
    BY <2>7 DEF vars, Inv, Types, Consistent, Evidence, EventsCovered, StatusKept, ReadKept,
                PublishedKept, PollCorrects, AnnouncedIsRecent
  <2> QED BY <2>1, <2>2, <2>3, <2>4, <2>5, <2>6, <2>7 DEF Next
<1> QED BY <1>1, <1>2, PTL DEF Spec

\* A status that was read after the panel's last change leaves nothing wrong in the
\* storage, for any number of changes: older events have all been handled before it.
THEOREM PollsCorrect == Spec => []PollCorrects
<1>1. Inv => PollCorrects
  BY DEF Inv
<1> QED BY <1>1, Invariance, PTL

\* current_state was the panel's state at some moment since the last status was read,
\* whatever events, hooks and polls have changed since (Paradox.handle_event_message,
\* _on_event, _update_partition_states).
THEOREM StatesAreRecent == Spec => []AnnouncedIsRecent
<1>1. Inv => AnnouncedIsRecent
  BY DEF Inv
<1> QED BY <1>1, Invariance, PTL

-----------------------------------------------------------------------------
(* The calls of MCPanel *)

LEMMA OutputsSelected == P!Selections({1, 2, 3})
<1>1. /\ <<1, 2>> \in Seq({1, 2, 3}) /\ <<2, 1>> \in Seq({1, 2, 3})
      /\ <<1>> \in Seq({1, 2, 3}) /\ <<3, 2>> \in Seq({1, 2, 3})
  OBVIOUS
<1>2. /\ Wanted["pulse1"].selected = <<1, 2>> /\ Wanted["pulse2"].selected = <<2, 1>>
      /\ Wanted["off"].selected = <<1>> /\ Wanted["on"].selected = <<3, 2>>
      /\ Wanted["bad"].selected = <<1>>
  BY DEF Wanted
<1>3. P!Calls = {"pulse1", "pulse2", "off", "on", "bad"}
  BY DEF P!Calls, Wanted
<1> QED BY <1>1, <1>2, <1>3 DEF P!Selections

\* The part of MCPanel about outputs is the module of its own.
LEMMA ControlRuns == SpecOfParts => P!Spec
<1>1. InitOfParts => P!Init
  BY DEF InitOfParts, Control!Init, P!Init, P!Calls, Control!Calls
<1>2. Control!Next => P!Next
  BY DEF P!Next, P!Calls, P!Begin, P!Replied, P!Awake, P!Unanswered, P!NotConnected,
         P!LoseConnection, P!Perform, P!NextOutput, P!Return, P!Output, P!Command,
         P!Supported, Control!Next, Control!Calls, Control!Begin, Control!Replied,
         Control!Awake, Control!Unanswered, Control!NotConnected, Control!LoseConnection,
         Control!Perform, Control!NextOutput, Control!Return, Control!Output,
         Control!Command, Control!Supported
<1>3. [NextOfParts]_allVars => [P!Next]_(P!vars)
  BY <1>2 DEF NextOfParts, allVars, controlVars, P!vars
<1> QED BY <1>1, <1>3, PTL DEF SpecOfParts, P!Spec

\* control_output returns True only when every output it selected was brought where the
\* command wants it.
THEOREM TrueIsAll == SpecOfParts => []TrueMeansAll
<1>1. P!TrueMeansAll => TrueMeansAll
  BY DEF P!TrueMeansAll, TrueMeansAll, Control!TrueMeansAll, P!Calls, Control!Calls,
         P!ToSet, Control!ToSet
<1>2. P!Spec => []P!TrueMeansAll
  BY P!TrueIsAll, OutputsSelected
<1> QED BY <1>1, <1>2, ControlRuns, PTL

\* When all calls have returned, an output that is on was asked to be on, or the caller
\* of its pulse was told that it failed.
THEOREM PulsesEnd == SpecOfParts => []PulseDoesNotStay
<1>1. P!PulseDoesNotStay => PulseDoesNotStay
  BY DEF P!PulseDoesNotStay, PulseDoesNotStay, Control!PulseDoesNotStay, P!Calls,
         Control!Calls, P!ToSet, Control!ToSet, P!Command, Control!Command
<1>2. P!Spec => []P!PulseDoesNotStay
  BY P!PulsesEnd, OutputsSelected
<1> QED BY <1>1, <1>2, ControlRuns, PTL

-----------------------------------------------------------------------------
(* The fields that one read joins, and the fields that have been read *)

\* A list of addresses, and the fields of it that are read.
FieldsOf(all, within) == {[number |-> n, address |-> all[n]] : n \in within \cap 1..Len(all)}

\* Leaving addresses out of the list changes the number of none (load_labels).
LEMMA SelectedFields ==
  ASSUME NEW all \in Seq(Nat), NEW within
  PROVE  Memory!Selected(all, within) \in Seq(FieldsOf(all, within))
<1> DEFINE
  N == Len(all)
  S == Seq(FieldsOf(all, within))
  field(n) == [number |-> n, address |-> all[n]]
  Step == [n \in 1..N |-> [s \in S |-> IF n \in within THEN Append(s, field(n)) ELSE s]]
  Is(f) == f = [i \in 0..N |-> IF i = 0 THEN <<>>
                               ELSE IF i \in within THEN Append(f[i - 1], field(i))
                               ELSE f[i - 1]]
  Taken == CHOOSE f : Is(f)
<1>1. N \in Nat /\ <<>> \in S
  OBVIOUS
<1>2. ASSUME NEW n \in 1..N, n \in within, NEW s \in S
      PROVE  Append(s, field(n)) \in S
  <2>1. field(n) \in FieldsOf(all, within)
    BY <1>2 DEF FieldsOf
  <2> QED BY <2>1
<1>3. Memory!Selected(all, within) = Taken[N]
  BY DEF Memory!Selected
<1> HIDE DEF S, field
<1>4. PICK f : IsRecursive(f, S, N, <<>>, Step)
  <2>1. Step \in [1..N -> [S -> S]]
    BY <1>2
  <2> HIDE DEF Step, N
  <2> QED BY <1>1, <2>1, Recursion
<1> HIDE DEF N
<1>5. Is(f)
  <2>1. f \in [0..N -> S] /\ f[0] = <<>>
    BY <1>4 DEF IsRecursive
  <2>2. ASSUME NEW n \in 1..N
        PROVE  f[n] = IF n \in within THEN Append(f[n - 1], field(n)) ELSE f[n - 1]
    <3>1. f[n] = Step[n][f[n - 1]]
      BY <1>4 DEF IsRecursive
    <3>2. n - 1 \in 0..N /\ f[n - 1] \in S
      BY <1>1, <2>1
    <3> QED BY <3>1, <3>2
  <2>3. \A n \in 0..N : n # 0 => n \in 1..N
    BY <1>1
  <2>4. \A n \in 0..N : f[n] = IF n = 0 THEN <<>>
                               ELSE IF n \in within THEN Append(f[n - 1], field(n))
                               ELSE f[n - 1]
    BY <2>1, <2>2, <2>3
  <2>5. f = [n \in 0..N |-> f[n]]
    BY <2>1
  <2> QED BY <2>4, <2>5
<1>6. Is(Taken)
  BY <1>5
<1> HIDE DEF Taken, Step
<1>7. /\ Taken[0] = <<>>
      /\ \A n \in 1..N : Taken[n] = IF n \in within THEN Append(Taken[n - 1], field(n))
                                    ELSE Taken[n - 1]
  <2>1. Taken[0] = <<>>
    BY <1>1, <1>6
  <2>2. ASSUME NEW n \in 1..N
        PROVE  Taken[n] = IF n \in within THEN Append(Taken[n - 1], field(n))
                          ELSE Taken[n - 1]
    <3>1. n \in 0..N /\ n # 0
      BY <1>1
    <3> QED BY <1>6, <3>1
  <2> QED BY <2>1, <2>2
<1>8. \A n \in 0..N : Taken[n] \in S
  <2> DEFINE Right == {n \in Nat : n <= N => Taken[n] \in S}
  <2>1. 0 \in Right
    BY <1>1, <1>7
  <2>2. ASSUME NEW n \in Nat, n \in Right
        PROVE  n + 1 \in Right
    <3> SUFFICES ASSUME n + 1 <= N
                 PROVE  Taken[n + 1] \in S
      OBVIOUS
    <3>1. n + 1 \in 1..N /\ (n + 1) - 1 = n /\ Taken[n] \in S
      BY <1>1, <2>2
    <3>2. CASE n + 1 \in within
      BY <1>2, <1>7, <3>1, <3>2
    <3>3. CASE n + 1 \notin within
      BY <1>7, <3>1, <3>3
    <3> QED BY <3>2, <3>3
  <2> HIDE DEF Right
  <2>3. Nat \subseteq Right
    BY <2>1, <2>2, NaturalInduction
  <2> QED BY <1>1, <2>3 DEF Right
<1> QED BY <1>1, <1>3, <1>8 DEF S

\* A read that joins fields stays within one reply, and they are sequential
\* (_eeprom_batch_reader).
LEMMA BatchFits ==
  ASSUME NEW F, NEW wanted \in Seq(F), NEW width \in 1..Memory!MaxResponse(model),
         position \in 1..Len(wanted)
  PROVE  LET n == Memory!BatchSize(wanted, width)
         IN /\ n \in 1..Len(wanted) - position + 1
            /\ n * width <= Memory!MaxResponse(model)
            /\ \A k \in 1..n - 1 : wanted[position + k].address
                                     = wanted[position].address + k * width
<1> DEFINE
  max == Memory!MaxResponse(model)
  rest == Len(wanted) - position + 1
  most == Memory!Min({rest, max})
  Fits == {n \in 1..most :
             \A k \in 1..n - 1 :
               /\ wanted[position + k].address = wanted[position].address + k * width
               /\ (k + 1) * width <= max}
  n == Memory!BatchSize(wanted, width)
<1>1. max \in Nat \ {0} /\ rest \in Nat \ {0}
  BY DEF Memory!MaxResponse
<1>2. n = Memory!Max(Fits)
  BY DEF Memory!BatchSize
<1>3. most \in 1..rest
  <2> HIDE DEF max, rest
  <2>1. \E x \in {rest, max} : \A y \in {rest, max} : x <= y
    BY <1>1
  <2>2. most \in {rest, max} /\ \A y \in {rest, max} : most <= y
    BY <2>1 DEF Memory!Min
  <2> QED BY <1>1, <2>2
<1> HIDE DEF most, rest, max
<1>4. Fits \in SUBSET Nat /\ 1 \in Fits /\ \A x \in Fits : x <= most
  BY <1>1, <1>3
<1>5. n \in Fits
  <2> HIDE DEF Fits
  <2>1. \E x \in Fits : \A y \in Fits : y <= x
    <3>1. most \in Nat /\ Fits # {}
      BY <1>1, <1>3, <1>4
    <3> QED BY <1>4, <3>1, GreatestNatural
  <2> QED BY <1>2, <1>4, <2>1 DEF Memory!Max
<1> HIDE DEF n
<1>6. n \in 1..rest
  BY <1>1, <1>3, <1>5
<1>7. n * width <= max
  <2>1. CASE n = 1
    BY <2>1 DEF max
  <2>2. CASE n > 1
    <3>1. n - 1 \in 1..n - 1 /\ (n - 1) + 1 = n
      BY <1>1, <1>6, <2>2
    <3>2. ((n - 1) + 1) * width <= max
      BY <1>5, <3>1
    <3> QED BY <3>1, <3>2
  <2> QED BY <1>1, <1>6, <2>1, <2>2
<1> QED BY <1>5, <1>6, <1>7 DEF n, max, rest

\* The addresses and the numbers of the area being read.
Addresses == Memory!Map[area].addresses

Within ==
  IF Memory!Map[area].kind = "labels"
  THEN Memory!LimitsForType(Memory!Map[area].type, DOMAIN Addresses)
  ELSE DOMAIN Addresses

\* What the proof needs to know of the values.
ReaderTypes ==
  /\ model \in Models
  /\ limits \in [DOMAIN limits -> SUBSET Nat]
  /\ area \in Nat \ {0}
  /\ read \in SUBSET Nat

\* What has been read of an area are its first fields.
AreaRead ==
  area \in DOMAIN Memory!Map =>
    /\ position \in 1..Len(Memory!Wanted) + 1
    /\ read = {Memory!Wanted[i].number : i \in 1..position - 1}
    /\ \A field \in yielded : /\ Addresses[field.number] = field.address
                              /\ field.length <= Memory!MaxResponse(model)

\* The definitions of a type are read in every load of this panel.
Defined(t) == \E d \in DOMAIN Memory!Map : /\ Memory!Map[d].kind = "definitions"
                                           /\ Memory!Map[d].type = t

\* Once the definitions of a type have been read in this load, its limits are enabled
\* elements; and the labels of such a type are of enabled elements.
LimitsShrunk ==
  \A t \in {"zone", "pgm", "partition"} :
    /\ \A d \in DOMAIN Memory!Map :
         (/\ Memory!Map[d].kind = "definitions" /\ Memory!Map[d].type = t
          /\ d < area) => t \in DOMAIN limits /\ limits[t] \subseteq enabled
    /\ Defined(t) => \A label \in labels : label[1] = t => label[2] \in enabled

\* A map is a list of areas.
LEMMA MapsAreLists ==
  \A m \in Models : DOMAIN Memory!MemMap(m) \subseteq Nat \ {0}
BY MapsAssumption, LimitsAssumption

\* What an area of a map is.
LEMMA AreaOfMap ==
  ASSUME model \in Models, area \in DOMAIN Memory!Map
  PROVE  /\ Memory!Map[area].width \in 1..Memory!MaxResponse(model)
         /\ Addresses \in Seq(Nat) /\ DOMAIN Addresses = 1..Len(Addresses)
         /\ Memory!Wanted = Memory!Selected(Addresses, Within)
         /\ Memory!Wanted \in Seq(FieldsOf(Addresses, Within))
<1>1. /\ Memory!Map[area].width \in 1..Memory!MaxResponse(model)
      /\ Addresses \in Seq(Nat)
  BY MapsAssumption, LimitsAssumption DEF Memory!Map, Addresses
<1>2. DOMAIN Addresses = 1..Len(Addresses)
  BY <1>1
<1>3. Memory!Wanted = Memory!Selected(Addresses, Within)
  BY DEF Memory!Wanted, Addresses, Within
<1> QED BY <1>1, <1>2, <1>3, SelectedFields

\* One read: its fields are the next of the area, each at its own address.
LEMMA ReadBatchKeeps ==
  ASSUME ReaderTypes, AreaRead, Memory!ReadBatch
  PROVE  ReaderTypes' /\ AreaRead'
<1> DEFINE
  wanted == Memory!Wanted
  width == Memory!Map[area].width
  n == Memory!BatchSize(wanted, width)
  batch == SubSeq(wanted, position, position + n - 1)
  fields == {[number |-> batch[i].number,
              address |-> batch[1].address + (i - 1) * width,
              length |-> Len(batch) * width] : i \in DOMAIN batch}
  F == FieldsOf(Addresses, Within)
<1>1. /\ area \in DOMAIN Memory!Map /\ position <= Len(wanted)
      /\ yielded' = fields
      /\ read' = read \cup {field.number : field \in fields}
      /\ position' = position + Len(batch)
      /\ UNCHANGED <<model, enabled, limits, area, loads>>
  BY DEF Memory!ReadBatch
<1>2. model \in Models /\ position \in 1..Len(wanted)
  BY <1>1 DEF ReaderTypes, AreaRead
<1>3. /\ width \in 1..Memory!MaxResponse(model)
      /\ Addresses \in Seq(Nat) /\ DOMAIN Addresses = 1..Len(Addresses)
      /\ wanted \in Seq(F)
  BY <1>1, <1>2, AreaOfMap
<1>4. /\ n \in 1..Len(wanted) - position + 1
      /\ n * width <= Memory!MaxResponse(model)
      /\ \A k \in 1..n - 1 : wanted[position + k].address
                               = wanted[position].address + k * width
  <2> HIDE DEF wanted, width, F
  <2> QED BY <1>2, <1>3, BatchFits DEF n
<1>5. Memory!Map' = Memory!Map /\ Addresses' = Addresses /\ Memory!Wanted' = wanted
  <2>1. Memory!Map' = Memory!Map
    BY <1>1 DEF Memory!Map
  <2>2. Addresses' = Addresses
    BY <1>1, <2>1 DEF Addresses
  <2>3. Memory!Wanted' = wanted
    BY <1>1, <2>1 DEF Memory!Wanted, Memory!LimitsForType
  <2> QED BY <2>1, <2>2, <2>3
<1> HIDE DEF wanted, width, n, F
<1>6. /\ Len(wanted) \in Nat /\ \A i \in 1..Len(wanted) : wanted[i] \in F
      /\ position \in Nat \ {0} /\ n \in Nat \ {0} /\ width \in Nat
      /\ position + n - 1 <= Len(wanted)
  BY <1>2, <1>3, <1>4 DEF Memory!MaxResponse
<1>7. /\ Len(batch) = n /\ DOMAIN batch = 1..n
      /\ \A i \in 1..n : batch[i] = wanted[position + i - 1]
  BY <1>3, <1>6
<1> HIDE DEF batch
<1>8. ASSUME NEW f \in F
      PROVE  f.number \in 1..Len(Addresses) /\ f.address = Addresses[f.number]
             /\ f.address \in Nat /\ f.number \in Nat
  BY <1>3 DEF F, FieldsOf
<1>9. ASSUME NEW i \in 1..n
      PROVE  /\ batch[1].address + (i - 1) * width = batch[i].address
             /\ batch[i] \in F
  <2>1. batch[i] \in F
    <3>1. position + i - 1 \in 1..Len(wanted)
      BY <1>6
    <3> QED BY <1>6, <1>7, <3>1
  <2>2. CASE i = 1
    <3>1. batch[1].address \in Nat
      BY <1>8, <2>1, <2>2
    <3> QED BY <1>6, <2>1, <2>2, <3>1
  <2>3. CASE i > 1
    <3>1. i - 1 \in 1..n - 1 /\ position + i - 1 = position + (i - 1)
      BY <1>6, <2>3
    <3>2. wanted[position + (i - 1)].address = wanted[position].address + (i - 1) * width
      BY <1>4, <3>1
    <3>3. batch[1] = wanted[position] /\ batch[i] = wanted[position + (i - 1)]
      BY <1>6, <1>7, <3>1
    <3> QED BY <2>1, <3>2, <3>3
  <2> QED BY <2>1, <2>2, <2>3
<1>10. ASSUME NEW field \in fields
       PROVE  /\ Addresses[field.number] = field.address
              /\ field.length <= Memory!MaxResponse(model)
  <2>1. PICK i \in 1..n : field = [number |-> batch[i].number,
                                   address |-> batch[1].address + (i - 1) * width,
                                   length |-> Len(batch) * width]
    BY <1>7
  <2>2. field.number = batch[i].number /\ field.address = batch[i].address
    BY <1>9, <2>1
  <2> QED BY <1>4, <1>7, <1>8, <1>9, <2>1, <2>2
<1>11. {field.number : field \in fields} = {batch[i].number : i \in 1..n}
  <2>1. ASSUME NEW i \in 1..n
        PROVE  \E field \in fields : field.number = batch[i].number
    <3> DEFINE field == [number |-> batch[i].number,
                         address |-> batch[1].address + (i - 1) * width,
                         length |-> Len(batch) * width]
    <3>1. field \in fields /\ field.number = batch[i].number
      BY <1>7
    <3> QED BY <3>1
  <2>2. ASSUME NEW field \in fields
        PROVE  \E i \in 1..n : field.number = batch[i].number
    BY <1>7
  <2> HIDE DEF fields
  <2> QED BY <2>1, <2>2
<1> HIDE DEF fields
<1>12. read' = {wanted[i].number : i \in 1..position' - 1}
  <2>1. read = {wanted[i].number : i \in 1..position - 1}
    BY <1>1 DEF AreaRead, wanted
  <2>2. position' - 1 = position - 1 + n
    BY <1>1, <1>6, <1>7
  <2>3. ASSUME NEW i \in 1..n
        PROVE  position + i - 1 \in 1..position' - 1
    BY <1>6, <2>2
  <2>4. ASSUME NEW i \in 1..position' - 1, i > position - 1
        PROVE  i - (position - 1) \in 1..n /\ position + (i - (position - 1)) - 1 = i
    BY <1>6, <2>2, <2>4
  <2>5. {batch[i].number : i \in 1..n} \subseteq {wanted[i].number : i \in 1..position' - 1}
    BY <1>7, <2>3
  <2>6. read \subseteq {wanted[i].number : i \in 1..position' - 1}
    BY <1>6, <2>1, <2>2
  <2>7. {wanted[i].number : i \in 1..position' - 1}
          \subseteq read \cup {batch[i].number : i \in 1..n}
    <3> SUFFICES ASSUME NEW i \in 1..position' - 1
                 PROVE  wanted[i].number \in read \cup {batch[j].number : j \in 1..n}
      OBVIOUS
    <3>1. CASE i <= position - 1
      BY <1>6, <2>1, <3>1
    <3>2. CASE i > position - 1
      <4>1. /\ i - (position - 1) \in 1..n
            /\ wanted[i] = batch[i - (position - 1)]
        BY <1>7, <2>4, <3>2
      <4> QED BY <4>1
    <3> QED BY <1>6, <2>2, <3>1, <3>2
  <2> QED BY <1>1, <1>11, <2>5, <2>6, <2>7
<1>13. position' \in 1..Len(wanted) + 1
  BY <1>1, <1>6, <1>7
<1>14. AreaRead'
  BY <1>1, <1>5, <1>10, <1>12, <1>13 DEF AreaRead, wanted
<1>15. read' \in SUBSET Nat
  BY <1>1, <1>8, <1>9, <1>11 DEF ReaderTypes
<1> QED BY <1>1, <1>14, <1>15 DEF ReaderTypes

\* An area begins with nothing read.
LEMMA AreaBegins ==
  ASSUME position' = 1, yielded' = {}, read' = {},
         area' \in DOMAIN Memory!Map' => Len(Memory!Wanted') \in Nat
  PROVE  AreaRead'
BY DEF AreaRead

\* What is read of an area is a list, whatever the limits.
LEMMA WantedLength ==
  ASSUME NEW m \in Models, NEW a \in DOMAIN Memory!MemMap(m), NEW within
  PROVE  Len(Memory!Selected(Memory!MemMap(m)[a].addresses, within)) \in Nat
<1> DEFINE all == Memory!MemMap(m)[a].addresses
<1>1. all \in Seq(Nat)
  BY MapsAssumption, LimitsAssumption
<1> HIDE DEF all
<1>2. Memory!Selected(all, within) \in Seq(FieldsOf(all, within))
  BY <1>1, SelectedFields
<1> QED BY <1>2 DEF all

\* The next type begins with nothing read; the limits stay sets of numbers.
LEMMA NextAreaKeeps ==
  ASSUME ReaderTypes, AreaRead, Memory!NextArea
  PROVE  ReaderTypes' /\ AreaRead'
<1> DEFINE type == Memory!Map[area].type
<1>1. /\ area' = area + 1 /\ position' = 1 /\ yielded' = {} /\ read' = {}
      /\ model' = model
      /\ limits' = IF Memory!Map[area].kind = "definitions"
                   THEN [t \in DOMAIN limits \cup {type} |->
                           IF t = type THEN Memory!Shrunk(type) ELSE limits[t]]
                   ELSE limits
      /\ area \in DOMAIN Memory!Map
  BY DEF Memory!NextArea
<1>2. Memory!EnabledIn(type) \in SUBSET Nat
  BY DEF Memory!EnabledIn, ReaderTypes
<1>3. Memory!Shrunk(type) \in SUBSET Nat
  BY <1>2 DEF Memory!Shrunk
<1> HIDE DEF type
<1>5. limits' \in [DOMAIN limits' -> SUBSET Nat]
  BY <1>1, <1>3 DEF ReaderTypes
<1>6. area' \in DOMAIN Memory!Map' => Len(Memory!Wanted') \in Nat
  <2>1. model' \in Models
    BY <1>1 DEF ReaderTypes
  <2> QED BY <2>1, WantedLength DEF Memory!Wanted, Memory!Map
<1>7. AreaRead'
  BY <1>1, <1>6, AreaBegins
<1> QED BY <1>1, <1>5, <1>7 DEF ReaderTypes

\* A new load begins with nothing read and inherits the limits of the last one.
LEMMA LoadAgainKeeps ==
  ASSUME ReaderTypes, Memory!LoadAgain
  PROVE  ReaderTypes' /\ AreaRead'
<1>1. /\ area' = 1 /\ position' = 1 /\ yielded' = {} /\ read' = {}
      /\ UNCHANGED <<model, limits>>
  BY DEF Memory!LoadAgain
<1>2. area' \in DOMAIN Memory!Map' => Len(Memory!Wanted') \in Nat
  <2>1. model' \in Models
    BY <1>1 DEF ReaderTypes
  <2> QED BY <2>1, WantedLength DEF Memory!Wanted, Memory!Map
<1> QED BY <1>1, <1>2, AreaBegins DEF ReaderTypes

\* The first load.
LEMMA ReaderInit == Memory!Init => ReaderTypes /\ AreaRead
<1> SUFFICES ASSUME Memory!Init
             PROVE  ReaderTypes /\ AreaRead
  OBVIOUS
<1>1. ReaderTypes
  <2>1. limits \in [DOMAIN limits -> SUBSET Nat]
    <3>1. CASE limits = [type \in {} |-> {}]
      BY <3>1
    <3>2. CASE limits \in {[type \in Memory!Limited |-> l] : l \in Configured}
      <4>1. PICK l \in Configured : limits = [type \in Memory!Limited |-> l]
        BY <3>2
      <4>2. l \in SUBSET Nat
        BY LimitsAssumption
      <4> QED BY <4>1, <4>2
    <3> QED BY <3>1, <3>2 DEF Memory!Init
  <2> QED BY <2>1 DEF Memory!Init, ReaderTypes
<1>2. area \in DOMAIN Memory!Map => Len(Memory!Wanted) \in Nat
  BY <1>1, WantedLength DEF Memory!Wanted, Memory!Map, ReaderTypes
<1> QED BY <1>1, <1>2 DEF AreaRead, Memory!Init

\* Any step, or none.
LEMMA ReaderStep ==
  ReaderTypes /\ AreaRead /\ [Memory!Next]_(Memory!readerVars) => ReaderTypes' /\ AreaRead'
<1> SUFFICES ASSUME ReaderTypes, AreaRead, [Memory!Next]_(Memory!readerVars)
             PROVE  ReaderTypes' /\ AreaRead'
  OBVIOUS
<1>1. CASE Memory!Next
  BY <1>1, ReadBatchKeeps, NextAreaKeeps, LoadAgainKeeps DEF Memory!Next
<1>2. CASE UNCHANGED Memory!readerVars
  <2>1. UNCHANGED <<model, enabled, limits, area, position, yielded, read>>
    BY <1>2 DEF Memory!readerVars
  <2>2. Memory!Map' = Memory!Map
    BY <2>1 DEF Memory!Map
  <2>3. Memory!Wanted' = Memory!Wanted
    BY <2>1, <2>2 DEF Memory!Wanted, Memory!LimitsForType
  <2>4. Addresses' = Addresses
    BY <2>1, <2>2 DEF Addresses
  <2> QED BY <2>1, <2>2, <2>3, <2>4 DEF ReaderTypes, AreaRead
<1> QED BY <1>1, <1>2

\* What has been read so far says that all was read when an area is over.
LEMMA FieldsOfReads == ReaderTypes /\ AreaRead => Memory!FieldsRead
<1> SUFFICES ASSUME ReaderTypes, AreaRead, area \in DOMAIN Memory!Map
             PROVE  /\ \A field \in yielded :
                         /\ Memory!Map[area].addresses[field.number] = field.address
                         /\ field.length <= Memory!MaxResponse(model)
                    /\ position > Len(Memory!Wanted) =>
                         read = {Memory!Wanted[i].number : i \in DOMAIN Memory!Wanted}
  BY DEF Memory!FieldsRead
<1>1. Memory!Wanted \in Seq(FieldsOf(Addresses, Within))
  BY AreaOfMap DEF ReaderTypes
<1>2. DOMAIN Memory!Wanted = 1..Len(Memory!Wanted) /\ Len(Memory!Wanted) \in Nat
  BY <1>1
<1>3. position > Len(Memory!Wanted) => position - 1 = Len(Memory!Wanted)
  BY <1>2 DEF AreaRead
<1> QED BY <1>2, <1>3 DEF AreaRead, Addresses

-----------------------------------------------------------------------------
(* Labels of enabled elements *)

\* A label is read within limits that this load's definitions have shrunk: the map
\* has them before the labels.  A new load forgets the labels, and its limits are of no
\* use until they have been shrunk again.
LEMMA LabelsStep ==
  ASSUME ReaderTypes, AreaRead, LimitsShrunk,
         [Memory!Next]_(Memory!readerVars)
  PROVE  LimitsShrunk'
<1> USE DEF ReaderTypes
<1> SUFFICES ASSUME NEW t \in {"zone", "pgm", "partition"}
             PROVE  /\ \A d \in DOMAIN Memory!Map' :
                         (/\ Memory!Map'[d].kind = "definitions"
                          /\ Memory!Map'[d].type = t /\ d < area')
                         => t \in DOMAIN limits' /\ limits'[t] \subseteq enabled'
                    /\ Defined(t)' => \A label \in labels' : label[1] = t
                                        => label[2] \in enabled'
  BY DEF LimitsShrunk
<1>1. model' = model /\ Memory!Map' = Memory!Map /\ Defined(t)' = Defined(t)
  <2>1. model' = model
    BY DEF Memory!Next, Memory!ReadBatch, Memory!NextArea, Memory!LoadAgain,
           Memory!readerVars
  <2> QED BY <2>1 DEF Memory!Map, Defined
<1>2. CASE Memory!LoadAgain
  <2>1. area' = 1 /\ labels' = {}
    BY <1>2 DEF Memory!LoadAgain
  <2>2. DOMAIN Memory!Map \subseteq Nat \ {0}
    BY MapsAreLists DEF Memory!Map
  <2> QED BY <1>1, <2>1, <2>2
<1>3. CASE UNCHANGED <<enabled, limits, area, labels>>
  BY <1>1, <1>3 DEF LimitsShrunk
<1>4. CASE Memory!NextArea
  <2> DEFINE type == Memory!Map[area].type
  <2>1. /\ area' = area + 1 /\ enabled' = enabled /\ labels' = labels
        /\ limits' = IF Memory!Map[area].kind = "definitions"
                     THEN [u \in DOMAIN limits \cup {type} |->
                             IF u = type THEN Memory!Shrunk(type) ELSE limits[u]]
                     ELSE limits
        /\ area \in DOMAIN Memory!Map
    BY <1>4 DEF Memory!NextArea
  <2>2. t \in Memory!Limited /\ t # "user"
    BY DEF Memory!Limited
  <2>3. ASSUME Memory!Map[area].kind = "definitions", type = t
        PROVE  t \in DOMAIN limits' /\ limits'[t] \subseteq enabled
    <3>1. Memory!EnabledIn(t) \in SUBSET Nat /\ Memory!EnabledIn(t) \subseteq enabled
      BY <2>2 DEF Memory!EnabledIn
    <3>2. Memory!Shrunk(t) \in SUBSET Nat /\ Memory!Shrunk(t) \subseteq enabled
      BY <3>1 DEF Memory!Shrunk
    <3>3. t \in DOMAIN limits' /\ limits'[t] = Memory!Shrunk(t)
      <4> HIDE DEF type
      <4> QED BY <2>1, <2>3
    <3> QED BY <3>2, <3>3
  <2>4. ASSUME ~(Memory!Map[area].kind = "definitions" /\ type = t)
        PROVE  t \in DOMAIN limits => t \in DOMAIN limits' /\ limits'[t] = limits[t]
    BY <2>1, <2>2, <2>4
  <2>5. ASSUME NEW d \in DOMAIN Memory!Map, Memory!Map[d].kind = "definitions",
               Memory!Map[d].type = t, d < area'
        PROVE  t \in DOMAIN limits' /\ limits'[t] \subseteq enabled
    <3>1. d \in Nat
      BY MapsAreLists DEF Memory!Map
    <3>2. d < area \/ d = area
      BY <2>1, <2>5, <3>1
    <3>3. CASE d = area
      BY <2>3, <2>5, <3>3
    <3>4. CASE d < area
      <4>1. t \in DOMAIN limits /\ limits[t] \subseteq enabled
        BY <2>5, <3>4 DEF LimitsShrunk
      <4> QED BY <2>3, <2>4, <4>1
    <3> QED BY <3>2, <3>3, <3>4
  <2>6. Defined(t) => \A label \in labels : label[1] = t => label[2] \in enabled
    BY DEF LimitsShrunk
  <2> QED BY <1>1, <2>1, <2>5, <2>6
<1>5. CASE Memory!ReadBatch
  <2>1. /\ area \in DOMAIN Memory!Map /\ UNCHANGED <<enabled, limits, area>>
        /\ labels' = labels \cup (IF Memory!Map[area].kind = "labels"
                                  THEN {<<Memory!Map[area].type, n>> : n \in read'}
                                  ELSE {})
    BY <1>5 DEF Memory!ReadBatch
  <2>2. ASSUME Defined(t), Memory!Map[area].kind = "labels", Memory!Map[area].type = t
        PROVE  read' \subseteq enabled
    <3>1. PICK d \in DOMAIN Memory!Map : /\ Memory!Map[d].kind = "definitions"
                                         /\ Memory!Map[d].type = t
      BY <2>2 DEF Defined
    <3>2. d < area
      BY <2>1, <2>2, <3>1, MapsAssumption, LimitsAssumption DEF Memory!Map
    <3>3. t \in DOMAIN limits /\ limits[t] \subseteq enabled
      BY <3>1, <3>2 DEF LimitsShrunk
    <3>4. Within = limits[t]
      BY <2>2, <3>3 DEF Within, Memory!Limited, Memory!LimitsForType
    <3>5. Memory!Wanted \in Seq(FieldsOf(Addresses, Within))
      BY <2>1, AreaOfMap
    <3>6. AreaRead' /\ read' = {Memory!Wanted[i].number : i \in 1..position' - 1}
          /\ position' \in 1..Len(Memory!Wanted) + 1
      <4>1. AreaRead'
        BY <1>5, ReadBatchKeeps
      <4>2. Memory!Wanted' = Memory!Wanted
        BY <1>1, <2>1 DEF Memory!Wanted, Memory!LimitsForType
      <4> QED BY <1>1, <2>1, <4>1, <4>2 DEF AreaRead
    <3>7. ASSUME NEW i \in 1..position' - 1
          PROVE  Memory!Wanted[i].number \in Within
      <4>1. i \in 1..Len(Memory!Wanted)
        <5>1. Len(Memory!Wanted) \in Nat
          BY <3>5
        <5>2. ASSUME NEW l \in Nat, NEW p \in 1..l + 1, NEW j \in 1..p - 1
              PROVE  j \in 1..l
          OBVIOUS
        <5> QED BY <3>6, <5>1, <5>2
      <4>2. Memory!Wanted[i] \in FieldsOf(Addresses, Within)
        BY <3>5, <4>1
      <4> QED BY <4>2 DEF FieldsOf
    <3> QED BY <3>3, <3>4, <3>6, <3>7
  <2>3. ASSUME Defined(t), NEW label \in labels', label[1] = t
        PROVE  label[2] \in enabled
    <3>1. CASE label \in labels
      BY <2>3, <3>1 DEF LimitsShrunk
    <3>2. CASE label \notin labels
      <4>1. /\ Memory!Map[area].kind = "labels"
            /\ \E n \in read' : label = <<Memory!Map[area].type, n>>
        BY <2>1, <3>2
      <4> QED BY <2>2, <2>3, <4>1
    <3> QED BY <3>1, <3>2
  <2>4. ASSUME NEW d \in DOMAIN Memory!Map, Memory!Map[d].kind = "definitions",
               Memory!Map[d].type = t, d < area
        PROVE  t \in DOMAIN limits /\ limits[t] \subseteq enabled
    BY <2>4 DEF LimitsShrunk
  <2> QED BY <1>1, <2>1, <2>3, <2>4
<1>6. UNCHANGED Memory!readerVars => UNCHANGED <<enabled, limits, area, labels>>
  BY DEF Memory!readerVars
<1> QED BY <1>2, <1>3, <1>4, <1>5, <1>6 DEF Memory!Next

\* No label has been loaded yet, and no definitions have been read.
LEMMA LabelsInit == Memory!Init => LimitsShrunk
<1> SUFFICES ASSUME Memory!Init
             PROVE  LimitsShrunk
  OBVIOUS
<1>1. area = 1 /\ labels = {} /\ model \in Models
  BY DEF Memory!Init
<1>2. DOMAIN Memory!Map \subseteq Nat \ {0}
  BY <1>1, MapsAreLists DEF Memory!Map
<1> QED BY <1>1, <1>2 DEF LimitsShrunk

\* The invariant says what labels are loaded of.
LEMMA LabelsOfEnabled == LimitsShrunk => Memory!LabelsOnlyEnabled
BY DEF LimitsShrunk, Defined, Memory!LabelsOnlyEnabled

\* In the part of the memory reader.
ReaderInv == part = "memory" => ReaderTypes /\ AreaRead /\ LimitsShrunk

\* The invariant holds for any number of loads, of any program of the panel.
LEMMA ReaderInvariance == SpecOfParts => []ReaderInv
<1>1. InitOfParts => ReaderInv
  BY ReaderInit, LabelsInit DEF InitOfParts, MemoryInit, ReaderInv
<1>2. ReaderInv /\ [NextOfParts]_allVars => ReaderInv'
  <2> SUFFICES ASSUME ReaderInv, [NextOfParts]_allVars, part' = "memory"
               PROVE  ReaderTypes' /\ AreaRead' /\ LimitsShrunk'
    BY DEF ReaderInv
  <2>1. part = "memory"
    BY DEF NextOfParts, allVars
  <2>2. [Memory!Next]_(Memory!readerVars)
    BY <2>1 DEF NextOfParts, allVars, readerVars, Memory!readerVars
  <2>3. ReaderTypes /\ AreaRead /\ LimitsShrunk
    BY <2>1 DEF ReaderInv
  <2> QED BY <2>2, <2>3, ReaderStep, LabelsStep
<1> QED BY <1>1, <1>2, PTL DEF SpecOfParts

\* Every field a read yields is the one at the address of its element, no read is
\* longer than a reply, and an area that is over has been read completely
\* (Panel._eeprom_batch_reader), for every memory map with the properties of
\* MapsAssumption, any limits, and any number of loads.
THEOREM FieldsAreRead == SpecOfParts => []FieldsRead
<1>1. ReaderInv => FieldsRead
  BY FieldsOfReads DEF ReaderInv, FieldsRead
<1> QED BY <1>1, ReaderInvariance, PTL

\* Labels are loaded only of elements that are enabled by the definitions of the same
\* load (Panel.load_definitions, load_labels), whatever LIMITS says or an earlier load
\* has made of it.
THEOREM LabelsEnabled == SpecOfParts => []LabelsOnlyEnabled
<1>1. ReaderInv => LabelsOnlyEnabled
  BY LabelsOfEnabled DEF ReaderInv, LabelsOnlyEnabled
<1> QED BY <1>1, ReaderInvariance, PTL

-----------------------------------------------------------------------------
(* Frames on the serial line *)

\* The sum of bytes is a number.
LEMMA SumIsNatural ==
  ASSUME NEW bytes \in Seq(Nat)
  PROVE  Serial!Sum(bytes) \in Nat
<1> DEFINE
  N == Len(bytes)
  Step == [n \in 1..N |-> [s \in Nat |-> s + bytes[n]]]
  Is(f) == f = [i \in 0..N |-> IF i = 0 THEN 0 ELSE f[i - 1] + bytes[i]]
  Total == CHOOSE f : Is(f)
<1>1. N \in Nat /\ \A n \in 1..N : bytes[n] \in Nat
  OBVIOUS
<1>2. Serial!Sum(bytes) = Total[N]
  BY DEF Serial!Sum
<1>3. PICK f : IsRecursive(f, Nat, N, 0, Step)
  <2>1. Step \in [1..N -> [Nat -> Nat]]
    BY <1>1
  <2> HIDE DEF Step, N
  <2> QED BY <1>1, <2>1, Recursion
<1> HIDE DEF N
<1>4. Is(f)
  <2>1. f \in [0..N -> Nat] /\ f[0] = 0
    BY <1>3 DEF IsRecursive
  <2>2. ASSUME NEW n \in 0..N, n # 0
        PROVE  f[n] = f[n - 1] + bytes[n]
    <3>1. n \in 1..N /\ n - 1 \in 0..N
      BY <1>1, <2>2
    <3>2. f[n] = Step[n][f[n - 1]]
      BY <1>3, <3>1 DEF IsRecursive
    <3>3. f[n - 1] \in Nat
      BY <2>1, <3>1
    <3> QED BY <3>1, <3>2, <3>3
  <2>3. \A n \in 0..N : f[n] = IF n = 0 THEN 0 ELSE f[n - 1] + bytes[n]
    BY <2>1, <2>2
  <2>4. f = [n \in 0..N |-> f[n]]
    BY <2>1
  <2> QED BY <2>3, <2>4
<1>5. Is(Total)
  BY <1>4
<1> HIDE DEF Total, Step
<1>6. \A n \in 0..N : Total[n] \in Nat
  <2> DEFINE Right == {n \in Nat : n <= N => Total[n] \in Nat}
  <2>1. 0 \in Right
    BY <1>1, <1>5
  <2>2. ASSUME NEW n \in Nat, n \in Right
        PROVE  n + 1 \in Right
    <3> SUFFICES ASSUME n + 1 <= N
                 PROVE  Total[n + 1] \in Nat
      OBVIOUS
    <3>1. n + 1 \in 0..N /\ n + 1 # 0 /\ (n + 1) - 1 = n
      BY <1>1
    <3>2. Total[n + 1] = Total[n] + bytes[n + 1]
      BY <1>5, <3>1
    <3>3. Total[n] \in Nat /\ n + 1 \in 1..N
      BY <1>1, <2>2, <3>1
    <3>4. bytes[n + 1] \in Nat
      BY <1>1, <3>3
    <3> QED BY <3>2, <3>3, <3>4
  <2> HIDE DEF Right
  <2>3. Nat \subseteq Right
    BY <2>1, <2>2, NaturalInduction
  <2> QED BY <1>1, <2>3 DEF Right
<1>7. N \in 0..N
  BY <1>1
<1> QED BY <1>2, <1>6, <1>7

\* The part of a buffer from its i-th byte on.
RestOf(bytes, i) == SubSeq(bytes, i, Len(bytes))

\* A frame is handed on before the frames that follow it.
Ahead(frame, frames) == <<frame>> \o frames

\* F[i] is what data_received makes of the part from the i-th byte on, with what it makes
\* of the shorter parts: From of Framed.
IsFraming(F, bytes) ==
  /\ DOMAIN F = 1..Len(bytes) + 1
  /\ \A i \in 1..Len(bytes) + 1 :
       LET b == RestOf(bytes, i)
           length == Serial!PacketLength(b)
       IN F[i] = IF Len(b) < 4 \/ Len(b) < length THEN [frames |-> <<>>, kept |-> b]
                 ELSE LET frame == SubSeq(b, 1, length)
                      IN IF Serial!Valid(frame, 4)
                         THEN [frames |-> Ahead(frame, F[i + length].frames),
                               kept |-> F[i + length].kept]
                         ELSE F[i + 1]

\* Frames of one buffer are handed on in order.
LEMMA FramesInOrder ==
  \A m, n : Ahead(m, <<>>) = <<m>> /\ Ahead(m, <<n>>) = <<m, n>>
<1> SUFFICES ASSUME NEW m, NEW n
             PROVE  Ahead(m, <<>>) = <<m>> /\ Ahead(m, <<n>>) = <<m, n>>
  OBVIOUS
<1> DEFINE S == {m, n}
<1>1. <<m>> \in Seq(S) /\ <<n>> \in Seq(S) /\ <<m, n>> \in Seq(S)
  OBVIOUS
<1> HIDE DEF S
<1>2. <<m>> \o <<>> = <<m>>
  BY <1>1, ConcatEmptySeq
<1>3. <<m>> \o <<n>> = <<m, n>>
  <2>1. <<m>> \o <<n>> \in Seq(S) /\ Len(<<m>> \o <<n>>) = 2
        /\ (<<m>> \o <<n>>)[1] = m /\ (<<m>> \o <<n>>)[2] = n
    BY <1>1, ConcatProperties
  <2>2. Len(<<m, n>>) = 2 /\ <<m, n>>[1] = m /\ <<m, n>>[2] = n
    OBVIOUS
  <2>3. \A i \in 1..2 : i = 1 \/ i = 2
    OBVIOUS
  <2>4. \A i \in 1..2 : (<<m>> \o <<n>>)[i] = <<m, n>>[i]
    BY <2>1, <2>2, <2>3
  <2> QED BY <1>1, <2>1, <2>2, <2>4, SeqEqual
<1> QED BY <1>2, <1>3 DEF Ahead

\* The length of a packet is a number.
LEMMA LengthIsNatural ==
  ASSUME NEW b \in Seq(Nat), Len(b) >= 4
  PROVE  Serial!PacketLength(b) \in Nat
<1>1. \A c : c[2] \in Nat /\ c[2] * 256 + c[3] \in Nat => Serial!PacketLength(c) \in Nat
  BY DEF Serial!PacketLength, Serial!useVariableMessageLength
<1>2. b[2] \in Nat /\ b[2] * 256 + b[3] \in Nat
  <2>1. b[2] \in Nat /\ b[3] \in Nat
    OBVIOUS
  <2> QED BY <2>1
<1> QED BY <1>1, <1>2

\* The recursion of Framed ends: every frame it takes has four bytes at least.
LEMMA FramingExists ==
  ASSUME NEW bytes \in Seq(Nat)
  PROVE  \E F : IsFraming(F, bytes) /\ Serial!Framed(bytes) = F[1]
<1> DEFINE
  N == Len(bytes)
  Frames == [frames : Seq(Seq(Nat)), kept : Seq(Nat)]
  Of(i) == RestOf(bytes, i)
  Size(i) == Serial!PacketLength(Of(i))
  Frame(i) == SubSeq(Of(i), 1, Size(i))
  Short(i) == Len(Of(i)) < 4 \/ Len(Of(i)) < Size(i)
  Step == [n \in 0..N |-> [g \in [0..n - 1 -> Frames] |->
             IF Short(N + 1 - n) THEN [frames |-> <<>>, kept |-> Of(N + 1 - n)]
             ELSE IF Serial!Valid(Frame(N + 1 - n), 4)
                  THEN [frames |-> Ahead(Frame(N + 1 - n), g[n - Size(N + 1 - n)].frames),
                        kept |-> g[n - Size(N + 1 - n)].kept]
                  ELSE g[n - 1]]]
<1>1. N \in Nat
  OBVIOUS
<1>2. ASSUME NEW i \in 1..N + 1
      PROVE  Of(i) \in Seq(Nat) /\ Len(Of(i)) = N + 1 - i
  BY DEF RestOf
<1> HIDE DEF Of
<1>3. ASSUME NEW i \in 1..N + 1, ~Short(i)
      PROVE  /\ Size(i) \in Nat /\ Size(i) <= N + 1 - i /\ N + 1 - i >= 4
             /\ Frame(i) \in Seq(Nat) /\ Len(Frame(i)) = Size(i)
             /\ Serial!Valid(Frame(i), 4) => Size(i) >= 4
  <2>1. Of(i) \in Seq(Nat) /\ Len(Of(i)) = N + 1 - i /\ Len(Of(i)) >= 4
    BY <1>1, <1>2, <1>3
  <2>2. Size(i) \in Nat
    BY <2>1, LengthIsNatural
  <2> HIDE DEF Size
  <2>3. Size(i) <= N + 1 - i
    BY <1>1, <1>3, <2>1, <2>2
  <2>4. Frame(i) \in Seq(Nat) /\ Len(Frame(i)) = Size(i)
    BY <2>1, <2>2, <2>3, FirstElements
  <2>5. Serial!Valid(Frame(i), 4) => Len(Frame(i)) >= 4
    BY DEF Serial!Valid
  <2> QED BY <2>1, <2>2, <2>3, <2>4, <2>5
<1> HIDE DEF Size, Frame, Short
<1>4. ASSUME NEW n \in 0..N, NEW g \in [0..n - 1 -> Frames]
      PROVE  Step[n][g] \in Frames
  <2> DEFINE i == N + 1 - n
  <2>1. i \in 1..N + 1 /\ N + 1 - i = n
    BY <1>1
  <2>2. Step[n][g] = IF Short(i) THEN [frames |-> <<>>, kept |-> Of(i)]
                     ELSE IF Serial!Valid(Frame(i), 4)
                          THEN [frames |-> Ahead(Frame(i), g[n - Size(i)].frames), kept |-> g[n - Size(i)].kept]
                          ELSE g[n - 1]
    OBVIOUS
  <2> HIDE DEF i, Step
  <2>3. CASE Short(i)
    BY <1>2, <2>1, <2>2, <2>3
  <2>4. CASE ~Short(i) /\ Serial!Valid(Frame(i), 4)
    <3>1. n - Size(i) \in 0..n - 1
      <4>1. Size(i) \in Nat /\ Size(i) <= n /\ Size(i) >= 4
        BY <1>3, <2>1, <2>4
      <4>2. ASSUME NEW x \in Nat, x <= n, x >= 4
            PROVE  n - x \in 0..n - 1
        BY <1>1, <4>2
      <4> QED BY <4>1, <4>2
    <3>2. g[n - Size(i)] \in Frames /\ Frame(i) \in Seq(Nat)
      BY <1>3, <2>1, <2>4, <3>1
    <3>3. Ahead(Frame(i), g[n - Size(i)].frames) \in Seq(Seq(Nat))
      BY <3>2 DEF Ahead
    <3> QED BY <2>2, <2>4, <3>2, <3>3
  <2>5. CASE ~Short(i) /\ ~Serial!Valid(Frame(i), 4)
    <3>1. n - 1 \in 0..n - 1
      BY <1>3, <2>1, <2>5
    <3> QED BY <2>2, <2>5, <3>1
  <2> QED BY <2>3, <2>4, <2>5
<1>5. PICK f : IsTraced(f, Frames, N, Step)
  <2> HIDE DEF Step, N, Frames
  <2> QED BY <1>1, <1>4, Tracing
<1> DEFINE F == [i \in 1..N + 1 |-> f[N + 1 - i]]
           Is(G) == G = [i \in 1..N + 1 |->
                           IF Short(i) THEN [frames |-> <<>>, kept |-> Of(i)]
                           ELSE IF Serial!Valid(Frame(i), 4)
                                THEN [frames |-> Ahead(Frame(i), G[i + Size(i)].frames), kept |-> G[i + Size(i)].kept]
                                ELSE G[i + 1]]
<1>6. Is(F)
  <2> SUFFICES ASSUME NEW i \in 1..N + 1
               PROVE  F[i] = IF Short(i) THEN [frames |-> <<>>, kept |-> Of(i)]
                             ELSE IF Serial!Valid(Frame(i), 4)
                                  THEN [frames |-> Ahead(Frame(i), F[i + Size(i)].frames), kept |-> F[i + Size(i)].kept]
                                  ELSE F[i + 1]
    OBVIOUS
  <2> DEFINE n == N + 1 - i
             g == [k \in 0..n - 1 |-> f[k]]
  <2>1. n \in 0..N /\ N + 1 - n = i
    BY <1>1
  <2>2. f \in [0..N -> Frames] /\ f[n] = Step[n][g]
    BY <1>5, <2>1 DEF IsTraced
  <2> HIDE DEF Frames
  <2>3. g \in [0..n - 1 -> Frames]
    BY <2>1, <2>2
  <2> HIDE DEF g
  <2>4. F[i] = IF Short(i) THEN [frames |-> <<>>, kept |-> Of(i)]
               ELSE IF Serial!Valid(Frame(i), 4)
                    THEN [frames |-> Ahead(Frame(i), g[n - Size(i)].frames), kept |-> g[n - Size(i)].kept]
                    ELSE g[n - 1]
    <3>1. F[i] = f[n]
      OBVIOUS
    <3> HIDE DEF n, F
    <3> QED BY <2>1, <2>2, <2>3, <3>1
  <2>5. ASSUME ~Short(i), Serial!Valid(Frame(i), 4)
        PROVE  g[n - Size(i)] = F[i + Size(i)]
    <3>1. i + Size(i) \in 1..N + 1 /\ n - Size(i) \in 0..n - 1
          /\ N + 1 - (i + Size(i)) = n - Size(i)
      <4>1. Size(i) \in Nat /\ Size(i) <= N + 1 - i /\ Size(i) >= 4
        BY <1>3, <2>5
      <4> QED BY <1>1, <4>1
    <3> QED BY <3>1 DEF g
  <2>6. ASSUME ~Short(i)
        PROVE  g[n - 1] = F[i + 1]
    <3>1. i + 1 \in 1..N + 1 /\ n - 1 \in 0..n - 1 /\ N + 1 - (i + 1) = n - 1
      BY <1>1, <1>3, <2>6
    <3> QED BY <3>1 DEF g
  <2> HIDE DEF F, n
  <2> QED BY <2>4, <2>5, <2>6
<1> DEFINE From == CHOOSE G : Is(G)
<1>7. Serial!Framed(bytes) = From[1]
  BY DEF Serial!Framed, Serial!useVariableMessageLength, Ahead, Short, Frame, Size, Of, RestOf
<1> HIDE DEF F
<1>8. Is(From)
  BY <1>6
<1> HIDE DEF From
<1>9. IsFraming(From, bytes)
  BY <1>8 DEF IsFraming, Short, Frame, Size, Of
<1> QED BY <1>7, <1>9

\* Bytes that are framed as one message: their checksum is right, and every buffer that
\* begins like them announces their length.
IsMessage(m) ==
  /\ m \in Seq(Nat) /\ Len(m) >= 4 /\ Serial!Valid(m, 4)
  /\ \A b : (\A i \in 1..3 : b[i] = m[i]) => Serial!PacketLength(b) = Len(m)

\* Every message of a panel is framed as one: what its layout announces is its length.
LEMMA EncodedIsMessage ==
  ASSUME NEW family \in {"evo", "spectra"}, NEW m \in Serial!FromPanel(family)
  PROVE  IsMessage(Serial!Encoded(m))
<1> DEFINE
  head == <<16 * m.command + 2, m.second, m.third>>
  contents == [i \in 1..m.bytes - 4 |-> Content]
  body == head \o contents
  sum == Serial!Sum(body) % 256
  code == Append(body, sum)
<1>1. /\ m.command \in Nat /\ m.second \in Nat /\ m.third \in Nat /\ m.bytes \in Nat
      /\ m.bytes >= 4 /\ Serial!PacketLength(head) = m.bytes /\ Content \in Nat
  BY LayoutsAssumption, PiecesAssumption
<1>2. /\ head \in Seq(Nat) /\ Len(head) = 3
      /\ contents \in Seq(Nat) /\ Len(contents) = m.bytes - 4
  BY <1>1
<1>3. Serial!Encoded(m) = code
  BY DEF Serial!Encoded, Serial!WithChecksum
<1>4. \A b : b[1] = head[1] /\ b[2] = head[2] /\ b[3] = head[3]
            => Serial!PacketLength(b) = Serial!PacketLength(head)
  <2> HIDE DEF head
  <2> QED BY DEF Serial!PacketLength
<1> HIDE DEF head, contents
<1>5. /\ body \in Seq(Nat) /\ Len(body) = m.bytes - 1
      /\ \A i \in 1..3 : body[i] = head[i]
  <2>1. /\ body \in Seq(Nat) /\ Len(body) = Len(head) + Len(contents)
        /\ \A i \in 1..Len(head) + Len(contents) :
             body[i] = IF i <= Len(head) THEN head[i] ELSE contents[i - Len(head)]
    BY <1>2, ConcatProperties
  <2>2. Len(head) + Len(contents) = m.bytes - 1
    BY <1>1, <1>2
  <2>3. \A i \in 1..3 : i \in 1..Len(head) + Len(contents) /\ i <= Len(head)
    BY <1>1, <1>2
  <2> QED BY <2>1, <2>2, <2>3
<1> HIDE DEF body
<1>6. sum \in Nat
  <2>1. Serial!Sum(body) \in Nat
    BY <1>5, SumIsNatural
  <2> QED BY <2>1
<1>7. Serial!Sum(body) % 256 = sum
  OBVIOUS
<1> HIDE DEF sum
<1>8. /\ code \in Seq(Nat) /\ Len(code) = m.bytes /\ code[m.bytes] = sum
      /\ \A i \in 1..m.bytes - 1 : code[i] = body[i]
  BY <1>1, <1>5, <1>6
<1> HIDE DEF code
<1>9. SubSeq(code, 1, m.bytes - 1) = body
  <2>1. /\ SubSeq(code, 1, m.bytes - 1) \in Seq(Nat)
        /\ Len(SubSeq(code, 1, m.bytes - 1)) = m.bytes - 1
        /\ \A i \in 1..m.bytes - 1 : SubSeq(code, 1, m.bytes - 1)[i] = code[i]
    <3>1. m.bytes - 1 \in Nat /\ m.bytes - 1 <= Len(code)
      BY <1>1, <1>8
    <3> QED BY <1>8, <3>1, FirstElements
  <2> QED BY <1>5, <1>8, <2>1, SeqEqual
<1>10. Serial!Valid(code, 4)
  BY <1>1, <1>7, <1>8, <1>9 DEF Serial!Valid, Serial!Front, Serial!Last
<1>11. \A i \in 1..3 : code[i] = head[i]
  <2>1. \A i \in 1..3 : i \in 1..m.bytes - 1
    BY <1>1
  <2> QED BY <1>5, <1>8, <2>1
<1>12. \A b : (\A i \in 1..3 : b[i] = code[i]) => Serial!PacketLength(b) = m.bytes
  <2> SUFFICES ASSUME NEW b, \A i \in 1..3 : b[i] = code[i]
               PROVE  Serial!PacketLength(b) = m.bytes
    OBVIOUS
  <2>1. 1 \in 1..3 /\ 2 \in 1..3 /\ 3 \in 1..3
    OBVIOUS
  <2>2. b[1] = head[1] /\ b[2] = head[2] /\ b[3] = head[3]
    BY <1>11, <2>1
  <2> QED BY <1>1, <1>4, <2>2
<1> QED BY <1>1, <1>3, <1>8, <1>10, <1>12 DEF IsMessage

\* The rest of a buffer.
LEMMA Rests ==
  ASSUME NEW bytes \in Seq(Nat), NEW i \in 1..Len(bytes) + 1
  PROVE  /\ RestOf(bytes, i) \in Seq(Nat) /\ Len(RestOf(bytes, i)) = Len(bytes) + 1 - i
         /\ \A q \in 1..Len(bytes) + 1 - i : RestOf(bytes, i)[q] = bytes[i - 1 + q]
<1>1. /\ i - 1 \in Nat /\ Len(bytes) \in Nat /\ i - 1 <= Len(bytes) /\ (i - 1) + 1 = i
      /\ Len(bytes) - (i - 1) = Len(bytes) + 1 - i
  OBVIOUS
<1> QED BY <1>1, PartOf DEF RestOf

\* What is left of a buffer is a first part of a message and not all of it.
IsPart(b, m) == Len(b) < Len(m) /\ \A q \in 1..Len(b) : b[q] = m[q]

\* It begins with the message.
StartsWith(b, m) == Len(m) <= Len(b) /\ \A q \in 1..Len(m) : b[q] = m[q]

\* Framing stops at the first part of a message and keeps it.
LEMMA StopsAtPart ==
  ASSUME NEW bytes \in Seq(Nat), NEW F, IsFraming(F, bytes), NEW m, IsMessage(m),
         NEW i \in 1..Len(bytes) + 1, NEW b, b = RestOf(bytes, i), IsPart(b, m)
  PROVE  F[i] = [frames |-> <<>>, kept |-> b]
<1>1. b \in Seq(Nat) /\ Len(b) \in Nat /\ Len(m) \in Nat
  BY Rests DEF IsMessage
<1>2. Len(b) >= 4 => Serial!PacketLength(b) = Len(m)
  <2>1. Len(b) >= 4 => \A q \in 1..3 : b[q] = m[q]
    BY <1>1 DEF IsPart
  <2> QED BY <2>1 DEF IsMessage
<1>3. Len(b) < 4 \/ Len(b) < Serial!PacketLength(b)
  BY <1>1, <1>2 DEF IsPart
<1> QED BY <1>3 DEF IsFraming

\* Framing takes a message as one frame and goes on behind it.
LEMMA TakesMessage ==
  ASSUME NEW bytes \in Seq(Nat), NEW F, IsFraming(F, bytes), NEW m, IsMessage(m),
         NEW i \in 1..Len(bytes) + 1, NEW b, b = RestOf(bytes, i), StartsWith(b, m),
         NEW j, j = i + Len(m),
         NEW frames, NEW kept, F[j] = [frames |-> frames, kept |-> kept]
  PROVE  F[i] = [frames |-> Ahead(m, frames), kept |-> kept]
<1>1. /\ b \in Seq(Nat) /\ Len(b) \in Nat
      /\ m \in Seq(Nat) /\ Len(m) \in Nat /\ 4 <= Len(m) /\ Len(m) <= Len(b)
      /\ \A q \in 1..Len(m) : b[q] = m[q]
  BY Rests DEF IsMessage, StartsWith
<1>2. Serial!PacketLength(b) = Len(m)
  <2>1. \A q \in 1..3 : b[q] = m[q]
    BY <1>1
  <2> QED BY <2>1 DEF IsMessage
<1>3. SubSeq(b, 1, Len(m)) = m
  <2>1. /\ SubSeq(b, 1, Len(m)) \in Seq(Nat) /\ Len(SubSeq(b, 1, Len(m))) = Len(m)
        /\ \A q \in 1..Len(m) : SubSeq(b, 1, Len(m))[q] = b[q]
    BY <1>1, FirstElements
  <2> QED BY <1>1, <2>1, SeqEqual
<1>4. ~(Len(b) < 4 \/ Len(b) < Serial!PacketLength(b))
  BY <1>1, <1>2
<1>5. Serial!Valid(m, 4)
  BY DEF IsMessage
<1>6. F[i] = [frames |-> Ahead(m, F[i + Len(m)].frames), kept |-> F[i + Len(m)].kept]
  BY <1>2, <1>3, <1>4, <1>5 DEF IsFraming
<1> QED BY <1>6

\* The last part of a buffer that is nothing, part of a message, or a message.
LEMMA LastOf ==
  ASSUME NEW bytes \in Seq(Nat), NEW F, IsFraming(F, bytes), NEW m, IsMessage(m),
         NEW i \in 1..Len(bytes) + 1, NEW b, b = RestOf(bytes, i), IsPartOrWhole(b, m)
  PROVE  F[i] = IF Len(b) < Len(m) THEN [frames |-> <<>>, kept |-> b]
                ELSE [frames |-> <<m>>, kept |-> <<>>]
<1>1. /\ b \in Seq(Nat) /\ Len(b) \in Nat /\ Len(b) = Len(bytes) + 1 - i
      /\ Len(m) \in Nat /\ 4 <= Len(m)
  <2>1. b \in Seq(Nat) /\ Len(b) = Len(bytes) + 1 - i
    BY Rests
  <2>2. m \in Seq(Nat) /\ 4 <= Len(m)
    BY DEF IsMessage
  <2> QED BY <2>1, <2>2
<1>2. CASE Len(b) < Len(m)
  <2>1. IsPart(b, m)
    BY <1>2 DEF IsPart, IsPartOrWhole
  <2>2. F[i] = [frames |-> <<>>, kept |-> b]
    BY <2>1, StopsAtPart
  <2> QED BY <1>2, <2>2
<1>3. CASE Len(b) = Len(m)
  <2>1. StartsWith(b, m)
    BY <1>1, <1>3 DEF StartsWith, IsPartOrWhole
  <2>2. /\ i + Len(m) \in 1..Len(bytes) + 1
        /\ <<>> = RestOf(bytes, i + Len(m)) /\ IsPart(<<>>, m)
    BY <1>1, <1>3 DEF RestOf, IsPart
  <2>3. F[i + Len(m)] = [frames |-> <<>>, kept |-> <<>>]
    BY <2>2, StopsAtPart
  <2>4. F[i] = [frames |-> Ahead(m, <<>>), kept |-> <<>>]
    BY <2>1, <2>3, TakesMessage
  <2> QED BY <1>1, <1>3, <2>4, FramesInOrder
<1>4. Len(b) < Len(m) \/ Len(b) = Len(m)
  <2>1. \A x, y \in Nat : x <= y => x < y \/ x = y
    OBVIOUS
  <2>2. Len(b) <= Len(m)
    BY DEF IsPartOrWhole
  <2> QED BY <1>1, <2>1, <2>2
<1> QED BY <1>2, <1>3, <1>4

\* A buffer that begins at the last message.
LEMMA FramedOfOne ==
  ASSUME NEW m, IsMessage(m), NEW bytes \in Seq(Nat), IsPartOrWhole(bytes, m)
  PROVE  Serial!Framed(bytes) = IF Len(bytes) < Len(m)
                                THEN [frames |-> <<>>, kept |-> bytes]
                                ELSE [frames |-> <<m>>, kept |-> <<>>]
<1>1. PICK F : IsFraming(F, bytes) /\ Serial!Framed(bytes) = F[1]
  BY FramingExists
<1>2. 1 \in 1..Len(bytes) + 1 /\ bytes = RestOf(bytes, 1)
  BY DEF RestOf
<1> QED BY <1>1, <1>2, LastOf

\* A buffer that begins at the first of two messages.
LEMMA FramedOfTwo ==
  ASSUME NEW m, IsMessage(m), NEW n, IsMessage(n), NEW bytes \in Seq(Nat),
         NEW rest \in Seq(Nat), IsJoined(bytes, m, rest), IsPartOrWhole(rest, n)
  PROVE  Serial!Framed(bytes) = IF Len(rest) < Len(n)
                                THEN [frames |-> <<m>>, kept |-> rest]
                                ELSE [frames |-> <<m, n>>, kept |-> <<>>]
<1>1. PICK F : IsFraming(F, bytes) /\ Serial!Framed(bytes) = F[1]
  BY FramingExists
<1>2. /\ m \in Seq(Nat) /\ Len(m) \in Nat
      /\ Len(bytes) = Len(m) + Len(rest)
      /\ \A q \in 1..Len(m) + Len(rest) :
           bytes[q] = IF q <= Len(m) THEN m[q] ELSE rest[q - Len(m)]
  BY ConcatProperties DEF IsMessage, IsJoined
<1>3. 1 \in 1..Len(bytes) + 1 /\ bytes = RestOf(bytes, 1)
  BY DEF RestOf
<1>4. StartsWith(bytes, m)
  BY <1>2 DEF StartsWith
<1> DEFINE j == 1 + Len(m)
<1>6. j \in 1..Len(bytes) + 1 /\ j = 1 + Len(m)
  BY <1>2
<1>7. rest = RestOf(bytes, j)
  <2>1. /\ RestOf(bytes, j) \in Seq(Nat)
        /\ Len(RestOf(bytes, j)) = Len(bytes) + 1 - j
        /\ \A q \in 1..Len(bytes) + 1 - j : RestOf(bytes, j)[q] = bytes[j - 1 + q]
    BY <1>6, Rests
  <2>2. Len(bytes) + 1 - j = Len(rest)
    BY <1>2
  <2>3. ASSUME NEW q \in 1..Len(rest)
        PROVE  rest[q] = bytes[j - 1 + q]
    <3>1. /\ Len(m) + q \in 1..Len(m) + Len(rest) /\ ~(Len(m) + q <= Len(m))
          /\ (Len(m) + q) - Len(m) = q /\ j - 1 + q = Len(m) + q
      BY <1>2
    <3> QED BY <1>2, <3>1
  <2> HIDE DEF j
  <2>4. \A q \in 1..Len(rest) : rest[q] = RestOf(bytes, j)[q]
    BY <2>1, <2>2, <2>3
  <2> QED BY <2>1, <2>2, <2>4, SeqEqual
<1> HIDE DEF j
<1>8. F[j] = IF Len(rest) < Len(n) THEN [frames |-> <<>>, kept |-> rest]
             ELSE [frames |-> <<n>>, kept |-> <<>>]
  BY <1>1, <1>6, <1>7, LastOf
<1>10. CASE Len(rest) < Len(n)
  <2>1. F[j] = [frames |-> <<>>, kept |-> rest]
    BY <1>8, <1>10
  <2>2. F[1] = [frames |-> Ahead(m, <<>>), kept |-> rest]
    BY <1>1, <1>3, <1>4, <1>6, <2>1, TakesMessage
  <2> QED BY <1>1, <1>10, <2>2, FramesInOrder
<1>11. CASE ~(Len(rest) < Len(n))
  <2> DEFINE one == <<n>>
             none == <<>>
  <2>1. F[j] = [frames |-> one, kept |-> none]
    BY <1>8, <1>11
  <2> HIDE DEF one, none
  <2>2. F[1] = [frames |-> Ahead(m, one), kept |-> none]
    BY <1>1, <1>3, <1>4, <1>6, <2>1, TakesMessage
  <2> USE DEF one, none
  <2> QED BY <1>1, <1>11, <2>2, FramesInOrder
<1> QED BY <1>10, <1>11

-----------------------------------------------------------------------------
(* The two messages, and what has been received of them *)

\* The two messages on the line.
First == Serial!Encoded(sent.messages[1])

\* The other one.
Second == Serial!Encoded(sent.messages[2])

\* What has been received of them is in the frames delivered and in the buffer.
Received(got) ==
  \/ /\ delivered = <<>> /\ buffer = got /\ Len(got) < Len(First)
  \/ /\ delivered = <<First>> /\ buffer \in Seq(Nat) /\ Len(buffer) < Len(Second)
     /\ IsJoined(got, First, buffer)
  \/ delivered = <<First, Second>> /\ buffer = <<>> /\ incoming = <<>>

\* What has been received and what is still under way are the two messages.
StreamInv ==
  /\ IsMessage(First) /\ IsMessage(Second)
  /\ incoming \in Seq(Nat)
  /\ \E got \in Seq(Nat) : /\ IsJoined(First \o Second, got, incoming)
                            /\ Received(got)

\* One call of data_received: whatever comes, and whether it completes no message, one
\* or both, what is delivered and what is kept is again all that was received.
LEMMA DataReceivedKeeps ==
  ASSUME StreamInv, NEW k \in Pieces, Serial!DataReceived(k)
  PROVE  StreamInv'
<1> DEFINE new == SubSeq(incoming, 1, k)
           left == SubSeq(incoming, k + 1, Len(incoming))
           joined == buffer \o new
           framed == Serial!Framed(joined)
           m == First
           n == Second
           all == m \o n
<1>1. /\ k <= Len(incoming) /\ incoming' = left
      /\ buffer' = framed.kept /\ delivered' = delivered \o framed.frames
      /\ First' = m /\ Second' = n
  BY DEF Serial!DataReceived, First, Second
<1>2. /\ IsMessage(m) /\ IsMessage(n) /\ m \in Seq(Nat) /\ n \in Seq(Nat)
      /\ Len(m) \in Nat /\ Len(n) \in Nat /\ 0 < Len(m) /\ 0 < Len(n)
  BY DEF StreamInv, IsMessage
<1>3. PICK got \in Seq(Nat) : IsJoined(all, got, incoming) /\ Received(got)
  BY DEF StreamInv
<1>4. /\ k \in Nat /\ new \in Seq(Nat) /\ left \in Seq(Nat)
      /\ IsJoined(incoming, new, left)
  BY <1>1, PiecesAssumption, TwoPieces DEF StreamInv
<1>5. IsJoined(all, m, n) /\ (First \o Second)' = all /\ IsJoined(joined, buffer, new)
  BY <1>1 DEF IsJoined
<1>6. incoming = <<>> => new = <<>> /\ left = <<>>
  <2> SUFFICES ASSUME incoming = <<>>
               PROVE  new = <<>> /\ left = <<>>
    OBVIOUS
  <2>1. Len(incoming) = 0 /\ k = 0
    BY <1>1, <1>4
  <2> QED BY <2>1
<1> HIDE DEF new, left, framed, joined, m, n, all
<1>7. PICK more \in Seq(Nat) : IsJoined(more, got, new) /\ IsJoined(all, more, left)
  BY <1>3, <1>4, Joins
<1>8. /\ <<>> \o <<>> = <<>> /\ <<>> \o <<m>> = <<m>> /\ <<>> \o <<m, n>> = <<m, n>>
      /\ <<m>> \o <<>> = <<m>> /\ <<m>> \o <<n>> = <<m, n>>
      /\ <<m, n>> \o <<>> = <<m, n>>
  <2>1. <<>> \in Seq({m, n}) /\ <<m>> \in Seq({m, n}) /\ <<m, n>> \in Seq({m, n})
    OBVIOUS
  <2> QED BY <2>1, ConcatEmptySeq, FramesInOrder DEF Ahead
<1>9. ASSUME NEW rest \in Seq(Nat), IsJoined(n, rest, left)
      PROVE  /\ IsPartOrWhole(rest, n)
             /\ ~(Len(rest) < Len(n)) => left = <<>>
  BY <1>2, <1>4, <1>9, PartOfLast
<1>10. SUFFICES \/ delivered' = <<>> /\ buffer' = more /\ Len(more) < Len(m)
                \/ /\ delivered' = <<m>> /\ buffer' \in Seq(Nat)
                   /\ Len(buffer') < Len(n) /\ IsJoined(more, m, buffer')
                \/ delivered' = <<m, n>> /\ buffer' = <<>> /\ left = <<>>
  <2>1. Received(more)' <=> \/ delivered' = <<>> /\ buffer' = more /\ Len(more) < Len(m)
                            \/ /\ delivered' = <<m>> /\ buffer' \in Seq(Nat)
                               /\ Len(buffer') < Len(n) /\ IsJoined(more, m, buffer')
                            \/ delivered' = <<m, n>> /\ buffer' = <<>> /\ left = <<>>
    BY <1>1 DEF Received
  <2> QED BY <1>1, <1>2, <1>4, <1>5, <1>7, <2>1 DEF StreamInv
<1>11. ASSUME NEW frames, NEW kept, framed = [frames |-> frames, kept |-> kept]
       PROVE  delivered' = delivered \o frames /\ buffer' = kept
  BY <1>1, <1>11
<1>12. CASE delivered = <<>> /\ buffer = got /\ Len(got) < Len(m)
  <2>1. framed = Serial!Framed(more)
    BY <1>5, <1>7, <1>12 DEF framed, IsJoined
  <2>2. CASE Len(more) < Len(m)
    <3>1. IsPartOrWhole(more, m)
      BY <1>2, <1>4, <1>5, <1>7, <2>2, PartOfFirst
    <3>2. framed = [frames |-> <<>>, kept |-> more]
      BY <1>2, <2>1, <2>2, <3>1, FramedOfOne
    <3> QED BY <1>8, <1>11, <1>12, <2>2, <3>2
  <2>3. CASE Len(m) <= Len(more)
    <3>1. PICK rest \in Seq(Nat) : IsJoined(more, m, rest) /\ IsJoined(n, rest, left)
      BY <1>2, <1>4, <1>5, <1>7, <2>3, BeyondFirst
    <3>2. IsPartOrWhole(rest, n) /\ (~(Len(rest) < Len(n)) => left = <<>>)
      BY <1>9, <3>1
    <3>3. framed = IF Len(rest) < Len(n) THEN [frames |-> <<m>>, kept |-> rest]
                   ELSE [frames |-> <<m, n>>, kept |-> <<>>]
      BY <1>2, <2>1, <3>1, <3>2, FramedOfTwo
    <3> QED BY <1>8, <1>11, <1>12, <3>1, <3>2, <3>3
  <2>4. Len(more) \in Nat
    OBVIOUS
  <2> QED BY <1>2, <2>2, <2>3, <2>4
<1>13. CASE /\ delivered = <<m>> /\ buffer \in Seq(Nat) /\ Len(buffer) < Len(n)
           /\ IsJoined(got, m, buffer)
  <2>1. PICK rest \in Seq(Nat) : /\ IsJoined(rest, buffer, new) /\ IsJoined(more, m, rest)
                                 /\ IsJoined(n, rest, left)
    BY <1>2, <1>4, <1>5, <1>7, <1>13, JoinsLast
  <2>2. IsPartOrWhole(rest, n) /\ (~(Len(rest) < Len(n)) => left = <<>>)
    BY <1>9, <2>1
  <2>3. framed = IF Len(rest) < Len(n) THEN [frames |-> <<>>, kept |-> rest]
                 ELSE [frames |-> <<n>>, kept |-> <<>>]
    <3>1. framed = Serial!Framed(rest)
      BY <1>5, <2>1 DEF framed, IsJoined
    <3> QED BY <1>2, <2>2, <3>1, FramedOfOne
  <2> QED BY <1>8, <1>11, <1>13, <2>1, <2>2, <2>3
<1>14. CASE delivered = <<m, n>> /\ buffer = <<>> /\ incoming = <<>>
  <2>1. framed = Serial!Framed(<<>>)
    BY <1>5, <1>6, <1>8, <1>14 DEF framed, IsJoined
  <2>2. IsPartOrWhole(<<>>, n) /\ <<>> \in Seq(Nat) /\ Len(<<>>) < Len(n)
    BY <1>2 DEF IsPartOrWhole
  <2>3. framed = [frames |-> <<>>, kept |-> <<>>]
    BY <1>2, <2>1, <2>2, FramedOfOne
  <2> QED BY <1>6, <1>8, <1>11, <1>14, <2>3
<1> QED BY <1>3, <1>12, <1>13, <1>14 DEF Received, m, n

\* Nothing has been received yet.
LEMMA StreamInit ==
  ASSUME Serial!Init, sent.noise = <<>>
  PROVE  StreamInv
<1>1. PICK family \in {"evo", "spectra"}, noise \in Noise :
        \E first \in Serial!FromPanel(family), second \in Serial!Unsolicited(family) :
          /\ sent = [noise |-> noise, messages |-> <<first, second>>]
          /\ incoming = noise \o Serial!Encoded(first) \o Serial!Encoded(second)
          /\ buffer = <<>> /\ delivered = <<>>
  BY DEF Serial!Init
<1>2. PICK first \in Serial!FromPanel(family), second \in Serial!Unsolicited(family) :
        /\ sent = [noise |-> noise, messages |-> <<first, second>>]
        /\ incoming = noise \o Serial!Encoded(first) \o Serial!Encoded(second)
        /\ buffer = <<>> /\ delivered = <<>>
  BY <1>1
<1>3. noise = <<>>
  BY <1>2
<1>4. First = Serial!Encoded(first) /\ Second = Serial!Encoded(second)
  BY <1>2 DEF First, Second
<1>5. second \in Serial!FromPanel(family)
  BY DEF Serial!FromPanel
<1>6. IsMessage(First) /\ IsMessage(Second)
  BY <1>4, <1>5, EncodedIsMessage
<1>7. First \in Seq(Nat) /\ Second \in Seq(Nat) /\ 0 < Len(First)
  BY <1>6 DEF IsMessage
<1>8. incoming = First \o Second /\ incoming \in Seq(Nat)
  <2>1. incoming = (<<>> \o First) \o Second
    BY <1>2, <1>3, <1>4
  <2> QED BY <1>7, <2>1
<1>9. IsJoined(First \o Second, <<>>, incoming) /\ <<>> \in Seq(Nat) /\ Received(<<>>)
  <2>1. <<>> \o incoming = incoming
    BY <1>8
  <2> QED BY <1>2, <1>7, <1>8, <2>1 DEF IsJoined, Received
<1> QED BY <1>6, <1>8, <1>9 DEF StreamInv

\* All has come: both messages have been delivered.
LEMMA StreamEnds ==
  ASSUME StreamInv
  PROVE  Serial!StreamDelivered
<1> SUFFICES ASSUME incoming = <<>>
             PROVE  LET messages == [i \in 1..2 |-> Serial!Encoded(sent.messages[i])]
                    IN delivered = SubSeq(messages, 1, 2)
  BY DEF Serial!StreamDelivered
<1>1. PICK got \in Seq(Nat) : IsJoined(First \o Second, got, incoming) /\ Received(got)
  BY DEF StreamInv
<1>2. First \in Seq(Nat) /\ Second \in Seq(Nat) /\ 0 < Len(First) /\ 0 < Len(Second)
  BY DEF StreamInv, IsMessage
<1>3. got = First \o Second
  BY <1>1 DEF IsJoined
<1>4. Len(got) = Len(First) + Len(Second)
  BY <1>2, <1>3
<1>5. delivered = <<First, Second>>
  <2>1. CASE Len(got) < Len(First)
    BY <1>2, <1>4, <2>1
  <2>2. CASE buffer \in Seq(Nat) /\ Len(buffer) < Len(Second) /\ IsJoined(got, First, buffer)
    <3>1. Len(got) = Len(First) + Len(buffer)
      BY <1>2, <2>2 DEF IsJoined
    <3> QED BY <1>2, <1>4, <2>2, <3>1
  <2> QED BY <1>1, <2>1, <2>2 DEF Received
<1> DEFINE messages == [i \in 1..2 |-> Serial!Encoded(sent.messages[i])]
<1>6. messages = <<First, Second>>
  BY DEF First, Second
<1>7. SubSeq(<<First, Second>>, 1, 2) = <<First, Second>>
  <2>1. ASSUME NEW m \in Seq(Nat), NEW n \in Seq(Nat)
        PROVE  SubSeq(<<m, n>>, 1, 2) = <<m, n>>
    <3>1. <<m, n>> \in Seq(Seq(Nat)) /\ Len(<<m, n>>) = 2
      OBVIOUS
    <3> QED BY <3>1, SubSeqFull
  <2> QED BY <1>2, <2>1
<1> QED BY <1>5, <1>6, <1>7

\* In the part of the serial line.
LineInv == part = "serial" /\ sent.noise = <<>> => StreamInv

\* A stream that starts at the start of a message reaches the handlers as the messages
\* that were sent, however it is cut into pieces (SerialConnectionProtocol.data_received),
\* for every layout of messages that announces their length, any content of their bytes
\* and pieces of any size.
THEOREM CleanStreams ==
  SpecOfParts /\ sent.noise = <<>> => []StreamDelivered
<1>1. InitOfParts => LineInv
  BY StreamInit DEF InitOfParts, SerialInit, LineInv
<1>2. LineInv /\ [NextOfParts]_allVars => LineInv'
  <2> SUFFICES ASSUME LineInv, [NextOfParts]_allVars, part' = "serial", sent'.noise = <<>>
               PROVE  StreamInv'
    BY DEF LineInv
  <2>1. part = "serial"
    BY DEF NextOfParts, allVars
  <2>2. Serial!Next \/ UNCHANGED serialVars
    BY <2>1 DEF NextOfParts, allVars
  <2>3. CASE Serial!Next
    <3>1. PICK k \in Pieces : Serial!DataReceived(k)
      BY <2>3 DEF Serial!Next
    <3>2. sent' = sent
      BY <3>1 DEF Serial!DataReceived
    <3>3. StreamInv
      BY <2>1, <3>2 DEF LineInv
    <3> QED BY <3>1, <3>3, DataReceivedKeeps
  <2>4. CASE UNCHANGED serialVars
    <3>1. UNCHANGED <<sent, incoming, buffer, delivered>>
      BY <2>4 DEF serialVars
    <3> QED BY <2>1, <3>1 DEF LineInv, StreamInv, Received, First, Second
  <2> QED BY <2>2, <2>3, <2>4
<1>3. LineInv /\ sent.noise = <<>> => StreamDelivered
  BY StreamEnds DEF LineInv, StreamDelivered
<1>4. sent.noise = <<>> /\ [NextOfParts]_allVars => (sent.noise = <<>>)'
  <2> SUFFICES ASSUME [NextOfParts]_allVars
               PROVE  sent' = sent
    OBVIOUS
  <2> QED BY DEF NextOfParts, allVars, serialVars, Serial!Next, Serial!DataReceived
<1> QED BY <1>1, <1>2, <1>3, <1>4, PTL DEF SpecOfParts
==============================================================================
