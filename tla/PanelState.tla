------------------------------ MODULE PanelState ----------------------------
(***************************************************************************)
(* What PAI believes of a partition of an EVO panel and of one of its      *)
(* zones.  Two streams write the same stored properties: live events, at   *)
(* once, each with the few flags its row of event_map names, and status    *)
(* polls, with every flag, but published only when all the blocks of the   *)
(* poll have arrived.  current_state is computed from the flags.           *)
(***************************************************************************)
EXTENDS Naturals, Sequences

CONSTANT MaxChanges    \* bound on what happens at the panel

ASSUME MaxChangesAssumption == MaxChanges \in Nat

Modes == {"arm_stay", "arm_away", "arm_no_entry"}

Alarms == {"audible_alarm", "silent_alarm"}

FlagNames == {"arm", "exit_delay", "bypassed"} \cup Modes \cup Alarms

VARIABLES
  panel,       \* the flags as they are at the panel
  version,     \* how often they have changed
  wire,        \* events and status replies on their way, in order
  stored,      \* the flags in MemoryStorage
  state,       \* current_state in MemoryStorage
  poll,        \* how far the running poll is: "none", "asked", "read"
  snapshot,    \* the last status reply: what it said, and of which version
  announcing,  \* events sent to the subscribers, _on_event still to run
  published,   \* the version the last published status had seen
  recent,      \* history: states of the panel since that status was read
  sinceRead    \* history: states of the panel since the running poll was read

vars == <<panel, version, wire, stored, state, poll, snapshot, announcing, published,
          recent, sinceRead>>

\* _update_partition_states, for one partition.
CurrentState(flags) ==
  CASE flags["exit_delay"] -> "arming"
    [] ~flags["exit_delay"] /\ \E a \in Alarms : flags[a] -> "triggered"
    [] ~flags["exit_delay"] /\ (\A a \in Alarms : ~flags[a]) /\ ~flags["arm"] -> "disarmed"
    [] OTHER -> IF flags["arm_stay"] THEN "armed_home"
                ELSE IF flags["arm_no_entry"] THEN "armed_night" ELSE "armed_away"

\* The states that may stand for the flags: no event tells the exit delay, and a
\* status read before an alarm hides it until the next one.
States(flags) ==
  {CurrentState([f \in FlagNames |-> f \notin hidden /\ flags[f]]) :
     hidden \in {{}, {"exit_delay"}, {"exit_delay"} \cup Alarms}}

AllOff == [f \in FlagNames |-> FALSE]

\* update_container_object: the named flags, a callable on the stored value.
Updated(flags, changes) ==
  [f \in FlagNames |->
     IF f \notin DOMAIN changes THEN flags[f]
     ELSE IF changes[f] = "toggle" THEN ~flags[f] ELSE changes[f] = "on"]

-----------------------------------------------------------------------------
(* The panel *)

\* Mutant of ModeChange: the row of "Arm in Away mode" is a copy of the one above it.
ModeChangeAwayAsStay(mode) ==
  [f \in {"arm", IF mode = "arm_away" THEN "arm_stay" ELSE mode} \ {"arm_no_entry"} |-> "on"]

\* Rows 4/2-4 of event_map, arm in a mode; that of arm_no_entry does not name it.
ModeChange(mode) == [f \in {"arm", mode} \ {"arm_no_entry"} |-> "on"]

\* What the other rows change: 9-12 arm, 13-18 disarm, 22 special disarming,
\* 23 bypass; 24, a zone alarm, changes nothing but calls a hook.
ChangeOf(event) ==
  CASE event \in Modes -> ModeChange(event)
    [] event = "code" -> [arm |-> "on"]
    [] event = "disarm" -> [arm |-> "off", audible_alarm |-> "off"]
    [] event = "special_disarm" -> [arm |-> "off"]
    [] event = "bypass" -> [bypassed |-> "toggle"]
    [] OTHER -> <<>>

Reported(event) == <<[kind |-> "event", event |-> event]>>

\* The panel changes to flags and reports the events.
Becomes(flags, events) ==
  /\ version < MaxChanges
  /\ flags # panel
  /\ panel' = flags
  /\ version' = version + 1
  /\ wire' = wire \o events
  /\ recent' = recent \cup States(flags)
  /\ sinceRead' = sinceRead \cup States(flags)
  /\ UNCHANGED <<stored, state, poll, snapshot, announcing, published>>

\* Someone arms with a code or picks a mode; the exit delay begins.
Arm ==
  \E mode \in Modes, event \in Modes \cup {"code"} :
    /\ ~panel["arm"]
    /\ event \in {mode, "code"}
    /\ Becomes([panel EXCEPT !["arm"] = TRUE, ![mode] = TRUE, !["exit_delay"] = TRUE],
               Reported(event))

\* The exit delay or the alarm ends: no event says so.
DelayEnds ==
  \/ Becomes([panel EXCEPT !["exit_delay"] = FALSE], <<>>)
  \/ Becomes([f \in FlagNames |-> f \notin Alarms /\ panel[f]], <<>>)

Disarm ==
  \E event \in {"disarm", "special_disarm"} :
    /\ panel["arm"]
    /\ Becomes([AllOff EXCEPT !["bypassed"] = panel["bypassed"]], Reported(event))

ZoneAlarm ==
  \E a \in Alarms :
    Becomes([panel EXCEPT ![a] = TRUE, !["exit_delay"] = FALSE], Reported("zone_alarm"))

Bypass == Becomes([panel EXCEPT !["bypassed"] = ~@], Reported("bypass"))

-----------------------------------------------------------------------------
(* Paradox *)

\* loop() asks for the block with the partition and the panel answers.
ReadStatus ==
  /\ poll = "none"
  /\ poll' = "asked"
  /\ wire' = Append(wire, [kind |-> "status", flags |-> panel, at |-> version])
  /\ sinceRead' = States(panel)
  /\ UNCHANGED <<panel, version, stored, state, snapshot, announcing, published, recent>>

\* The reply is kept until the other blocks of the poll are there.  The subscribers
\* of the events before it have run: they need fewer turns of the event loop.
ReceiveStatus ==
  /\ wire # <<>> /\ Head(wire).kind = "status"
  /\ announcing = <<>>
  /\ wire' = Tail(wire)
  /\ poll' = "read"
  /\ snapshot' = [flags |-> Head(wire).flags, at |-> Head(wire).at]
  /\ UNCHANGED <<panel, version, stored, state, announcing, published, recent, sinceRead>>

\* Mutant of StatusUpdate: only flags that are set are stored.
StatusUpdateSetOnly(flags) ==
  stored' = [f \in FlagNames |-> stored[f] \/ flags[f]]

\* _on_status_update: every flag the status has.
StatusUpdate(flags) ==
  stored' = Updated(stored, [f \in FlagNames |-> IF flags[f] THEN "on" ELSE "off"])

\* Mutant of Publish: the states of the partitions are left to the events.
PublishWithoutStates ==
  /\ poll = "read"
  /\ poll' = "none"
  /\ StatusUpdate(snapshot.flags)
  /\ published' = snapshot.at
  /\ recent' = sinceRead
  /\ UNCHANGED <<panel, version, wire, state, snapshot, announcing, sinceRead>>

\* gather is done: _process_status, _on_status_update, _update_partition_states.
Publish ==
  /\ poll = "read"
  /\ poll' = "none"
  /\ StatusUpdate(snapshot.flags)
  /\ state' = CurrentState(stored')
  /\ published' = snapshot.at
  /\ recent' = sinceRead
  /\ UNCHANGED <<panel, version, wire, snapshot, announcing, sinceRead>>

\* handle_event_message: the element is changed at once, current_state too where the
\* row says so, and the event is sent to the subscribers.
HandleEvent ==
  /\ wire # <<>> /\ Head(wire).kind = "event"
  /\ wire' = Tail(wire)
  /\ stored' = Updated(stored, ChangeOf(Head(wire).event))
  /\ state' = IF Head(wire).event = "disarm" THEN "disarmed" ELSE state
  /\ announcing' = Append(announcing, Head(wire).event)
  /\ UNCHANGED <<panel, version, poll, snapshot, published, recent, sinceRead>>

\* _zone_generated_alarm, the hook of event 24.  It also stores "triggered", which
\* _update_partition_states computes again right after it.
HookOf(event) ==
  IF event = "zone_alarm" THEN [audible_alarm |-> "on", exit_delay |-> "off"] ELSE <<>>

\* _on_event, a subscriber of PAI's own.
OnEvent ==
  /\ announcing # <<>>
  /\ announcing' = Tail(announcing)
  /\ stored' = Updated(stored, HookOf(Head(announcing)))
  /\ state' = CurrentState(stored')
  /\ UNCHANGED <<panel, version, wire, poll, snapshot, published, recent, sinceRead>>

\* The panel was just read and published.
Init ==
  /\ panel = AllOff
  /\ version = 0
  /\ wire = <<>>
  /\ stored = AllOff
  /\ state = "disarmed"
  /\ poll = "none"
  /\ snapshot = [flags |-> AllOff, at |-> 0]
  /\ announcing = <<>>
  /\ published = 0
  /\ recent = {"disarmed"}
  /\ sinceRead = {"disarmed"}

Environment == Arm \/ DelayEnds \/ Disarm \/ ZoneAlarm \/ Bypass

Next == Environment \/ ReadStatus \/ ReceiveStatus \/ Publish \/ HandleEvent \/ OnEvent

Spec == Init /\ [][Next]_vars

\* The loop polls as long as PAI runs, and the event loop runs what is scheduled.
Fairness ==
  /\ WF_vars(ReadStatus)
  /\ WF_vars(ReceiveStatus)
  /\ WF_vars(Publish)
  /\ WF_vars(HandleEvent)
  /\ WF_vars(OnEvent)

-----------------------------------------------------------------------------

\* A status that was read after the panel's last change leaves nothing wrong in the
\* storage: whatever older events were under way cannot undo it, and flags that no
\* event clears (arm_stay after a disarm, an alarm that ends) are cleared.
PollCorrects ==
  published = version => stored = panel /\ state = CurrentState(panel)

\* current_state is never older than the last status: it was the panel's state at
\* some moment since that status was read, but for an exit delay or an alarm that is
\* hidden.  (A partition armed in a mode no event named yet is called armed_away, and
\* an event can change the flags in the steps before its subscribers have run.)
AnnouncedIsRecent ==
  \/ state \in recent
  \/ state = "armed_away" /\ recent \cap {"armed_home", "armed_night"} # {}
  \/ announcing # <<>>

\* When the panel comes to rest (it changes MaxChanges times at most), PAI's storage
\* ends up saying what the panel is, whatever the last changes were.
StateSettles == <>[](stored = panel /\ state = CurrentState(panel))
==============================================================================
