------------------------------ MODULE MQTTBridge ----------------------------
(***************************************************************************)
(* What stands on the MQTT broker for the run state of PAI and for one     *)
(* property of the panel.  Three threads publish: the main loop, the loop  *)
(* of the interface, which sends and from time to time republishes, and    *)
(* the network thread of the client, whose on_connect reports the status   *)
(* again.  Messages of quality of service 0 are lost without a broker.     *)
(***************************************************************************)
EXTENDS Naturals, Sequences

CONSTANTS
  MaxStates,    \* bound on the changes of the run state
  MaxValues,    \* bound on the changes of the property
  MaxDrops      \* bound on the lost connections to the broker

VARIABLES
  runState,     \* payload of Paradox.run_state
  value,        \* the property in the storage
  states,       \* how often the run state changed
  last,         \* _last_pai_status
  reporting,    \* _report_pai_status in the main and the network thread: what it
                \* reports and the step it is at, 0 when it does not run
  cache,        \* republish_cache[topic]
  publishing,   \* publish() of the main loop: "no", or "cached", its call not queued
  republish,    \* republish_loop: [at |-> "sleep", "read" or "dead", value |-> ...]
  calls,        \* calls of mqtt.publish queued in the interface's loop
  connected,    \* the client has a broker
  drops,        \* how often the connection was lost
  out,          \* messages on their way to the broker
  shown,        \* the retained messages of the broker
  overlap,      \* history: a change was reported during on_connect
  raced         \* history: a value changed while the republisher held an older one

vars == <<runState, value, states, last, reporting, cache, publishing, republish, calls,
          connected, drops, out, shown, overlap, raced>>

statusVars == <<runState, states, last, reporting, overlap>>
valueVars == <<value, cache, publishing, republish, calls, raced>>
linkVars == <<connected, drops, shown>>

Idle == [step |-> 0, status |-> "unknown"]

Init ==
  /\ runState = "unknown" /\ last = "unknown" /\ states = 0
  /\ reporting = [t \in {"main", "network"} |-> Idle]
  /\ value = 0 /\ cache = 0
  /\ publishing = "no"
  /\ republish = [at |-> "sleep", value |-> 0]
  /\ calls = <<>>
  /\ connected = FALSE /\ drops = 0
  /\ out = <<>>
  /\ shown = [status |-> "none", available |-> "none", value |-> 0]
  /\ overlap = FALSE /\ raced = FALSE

-----------------------------------------------------------------------------
(* The client and the broker (outside this program) *)

\* client.publish
Send(topic, payload) ==
  out' = IF connected THEN Append(out, [topic |-> topic, payload |-> payload]) ELSE out

Deliver ==
  /\ out # <<>>
  /\ shown' = [shown EXCEPT ![Head(out).topic] = Head(out).payload]
  /\ out' = Tail(out)
  /\ UNCHANGED <<statusVars, valueVars, connected, drops>>

\* The broker publishes the will; the client connects again by itself.
Drop ==
  /\ connected /\ drops < MaxDrops
  /\ reporting["network"] = Idle
  /\ connected' = FALSE
  /\ drops' = drops + 1
  /\ out' = <<>>
  /\ shown' = [shown EXCEPT !.available = "offline"]
  /\ UNCHANGED <<statusVars, valueVars>>

-----------------------------------------------------------------------------
(* _report_pai_status *)

\* Mutant of OnConnect: the callback reports nothing.
OnConnectSilent ==
  /\ ~connected /\ connected' = TRUE
  /\ UNCHANGED <<statusVars, valueVars, drops, out, shown>>

\* _on_connect_cb: the argument is read before _report_pai_status begins.
OnConnect ==
  /\ ~connected
  /\ connected' = TRUE
  /\ reporting' = [reporting EXCEPT !["network"] = [step |-> 1, status |-> last]]
  /\ overlap' = (overlap \/ reporting["main"] # Idle)
  /\ UNCHANGED <<runState, states, last, valueVars, drops, out, shown>>

\* The run-state message reaches on_run_state_change.
OnRunStateChange(s) ==
  /\ states < MaxStates
  /\ s # runState
  /\ reporting["main"] = Idle
  /\ runState' = s
  /\ states' = states + 1
  /\ reporting' = [reporting EXCEPT !["main"] = [step |-> 1, status |-> s]]
  /\ overlap' = (overlap \/ reporting["network"] # Idle)
  /\ UNCHANGED <<last, valueVars, linkVars, out>>

Available(status) == IF status \in {"online", "paused"} THEN "online" ELSE "offline"

\* Its three statements, in thread t.
Report(t) ==
  LET r == reporting[t] IN
  /\ r.step # 0
  /\ \/ r.step = 1 /\ last' = r.status /\ UNCHANGED out
     \/ r.step = 2 /\ Send("status", r.status) /\ UNCHANGED last
     \/ r.step = 3 /\ Send("available", Available(r.status)) /\ UNCHANGED last
  /\ reporting' = [reporting EXCEPT ![t] = IF r.step = 3 THEN Idle ELSE [@ EXCEPT !.step = @ + 1]]
  /\ UNCHANGED <<runState, states, valueVars, linkVars, overlap>>

-----------------------------------------------------------------------------
(* AbstractMQTTInterface.publish and republish_loop *)

\* publish() of a change, up to the entry in republish_cache.
Change ==
  /\ value < MaxValues
  /\ publishing = "no"
  /\ value' = value + 1
  /\ cache' = value'
  /\ publishing' = "cached"
  /\ raced' = (raced \/ republish.at = "read")
  /\ UNCHANGED <<statusVars, republish, calls, linkVars, out>>

QueueCall ==
  /\ publishing = "cached"
  /\ publishing' = "no"
  /\ calls' = Append(calls, value)
  /\ UNCHANGED <<statusVars, value, cache, republish, raced, linkVars, out>>

\* The loop of the interface runs mqtt.publish.
RunCall ==
  /\ calls # <<>>
  /\ calls' = Tail(calls)
  /\ Send("value", Head(calls))
  /\ UNCHANGED <<statusVars, value, cache, publishing, republish, raced, linkVars>>

\* The interval is over, and long enough for all calls to be done: the iteration
\* takes an entry of the cache.
BeginRepublish ==
  /\ republish.at = "sleep" /\ calls = <<>> /\ out = <<>>
  /\ republish' = [at |-> "read", value |-> cache]
  /\ UNCHANGED <<statusVars, value, cache, publishing, calls, raced, linkVars, out>>

\* Mutant of Republish: publish() is not used, and the call is forgotten.
RepublishNothing ==
  /\ republish.at = "read"
  /\ republish' = [republish EXCEPT !.at = "sleep"]
  /\ UNCHANGED <<statusVars, value, cache, publishing, calls, raced, linkVars, out>>

\* publish() with the value of the entry, as old as it is by now.
Republish ==
  /\ republish.at = "read"
  /\ cache' = republish.value
  /\ calls' = Append(calls, republish.value)
  /\ republish' = [republish EXCEPT !.at = "sleep"]
  /\ UNCHANGED <<statusVars, value, publishing, raced, linkVars, out>>

\* The main loop publishes a topic that is not in the cache: the iteration raises
\* RuntimeError, and nothing starts republish_loop again.
NewTopic ==
  /\ republish.at = "read"
  /\ republish' = [republish EXCEPT !.at = "dead"]
  /\ UNCHANGED <<statusVars, value, cache, publishing, calls, raced, linkVars, out>>

-----------------------------------------------------------------------------

Next ==
  \/ Deliver \/ Drop \/ OnConnect
  \/ \E s \in {"online", "paused", "stopped"} : OnRunStateChange(s)
  \/ \E t \in {"main", "network"} : Report(t)
  \/ Change \/ QueueCall \/ RunCall \/ BeginRepublish \/ Republish \/ NewTopic

Spec == Init /\ [][Next]_vars

\* Threads run, the client connects again, the broker takes what it is sent.
Fairness ==
  /\ WF_vars(Deliver) /\ WF_vars(OnConnect)
  /\ WF_vars(Report("main")) /\ WF_vars(Report("network"))
  /\ WF_vars(QueueCall) /\ WF_vars(RunCall)
  /\ WF_vars(BeginRepublish) /\ WF_vars(Republish)

-----------------------------------------------------------------------------

\* Whatever was lost while there was no broker, it ends up showing the run state and
\* an availability that agrees, unless a change overlapped on_connect, which then may
\* put the older status last, on the broker and in _last_pai_status.
StatusSettles ==
  <>[](\/ overlap
       \/ shown.status = runState /\ shown.available = Available(runState))

\* A change that was lost with the connection reaches the broker when it is
\* republished, unless a new topic ended the republisher; and the value is the last
\* one unless the republisher held an older one when it changed.
ValueReachesBroker ==
  <>[](\/ republish.at = "dead"
       \/ shown.value = cache /\ (raced \/ cache = value))
==============================================================================
