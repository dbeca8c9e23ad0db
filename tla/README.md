# PAI in TLA+

PAI (`src/paradox`) connects a Paradox alarm panel, over a serial line or an IP
module, to MQTT, to text services and to IP clients such as Babyware.  It is one
asyncio program: many tasks share one half-duplex bus to the panel, one
connection object and one `run_state`.  This directory holds TLA+ models of the
parts where the order of events decides whether the program is right, the TLC
runs that check them on small instances, and TLAPS proofs of the results that
hold for every instance.

- [Inventory](#inventory): the parts of the system
- [Modules](#modules): what models what
- [Runs](#runs): what TLC checks, on which bounds
- [Disagreements](#disagreements): where code and documentation differ
- [Proofs](#proofs): what TLAPS proves, and how
- [Limits](#limits): what is only checked, and what is left out
- [Plan](#plan): what comes next

`tlc -config X.cfg M` runs a configuration named in `PROJECT.json`; `tlapm M.tla`
checks the proofs of `Induction` and of the modules whose names end in `Proofs`.

## Inventory

| Part | State it keeps | Operations | Talks to |
|---|---|---|---|
| Request/reply: `paradox.py` `send_wait`, `lib/handlers.py`, `lib/async_message_manager.py` | `request_lock`, the list of handlers, one future per call | `send_wait`, `wait_until_complete`, `handle` | the connection (write), every caller in PAI |
| Poll loop: `paradox.py` `loop` | `busy`, `loop_wait_event`, `replies_missing`, `run_state` | `loop`, `request_status_refresh`, `control_*` | request/reply, storage, `run_loop` |
| Session lifecycle: `main.py`, `paradox.py` | `run_state`, `panel`, the global `alarm`, retry counter | `run_loop`, `exit_handler`, `connect`, `full_connect`, `disconnect`, `pause`, `resume`, `handle_error_message` | connection, panel, interfaces |
| Connections: `connections/` | `_connected`, `_protocol`, per transport `_closed`, buffer, key | `connect`, `close`, `connection_lost`, session commands, STUN | the operating system, the IP module |
| Framing: `connections/protocols.py` | `buffer`, `use_variable_message_length` | `data_received`, `send_message` | the connection |
| IP interface: `interfaces/ip_interface/` | clients, `client_nr`, state of each session, raw handlers | `handle_client`, `handle`, `_handle_passthrough` | poll loop (locks), lifecycle (pause, resume), raw handler registry |
| Panels: `hardware/` | memory map, alive status, event maps | `control_*`, `load_memory`, `_eeprom_batch_reader`, `initialize_communication`, `handle_status` | request/reply, storage |
| Storage: `data/` | element containers, key index | `update_container_object`, `select`, `reindex` | everything that shows or changes a state |
| Events: `event.py`, `lib/ps.py` | none; subscriptions | levels, tags, filters | interfaces |
| MQTT: `interfaces/mqtt/` | connection state, last status, challenge | publish, command topics, on-connect hooks | asyncio loop and the thread of the MQTT client |
| Text interfaces: `interfaces/text/` | modem or service session | `handle_command`, `notify` | external services |

### What is hard, and what must hold

*Request/reply.*  A request is answered by "some message of the right kind", so
only `request_lock` keeps two callers from sharing an answer; a call that times
out gives the lock away and comes back; an answer may arrive late, or the
connection may break, between any two awaits.  It must hold that one call waits
at a time, that a call gets its own answer, that no answer that arrived is
dropped, that every call ends, and that the panel sees at most `retries` copies.

*Poll loop.*  `asyncio.gather` abandons requests that live on, refresh requests
come at any moment, a poll and an IP client need the same two locks.  A refresh
must not be forgotten, a silent panel must be noticed, abandoned requests must
not pile up, and a client must not write into the middle of a poll.

*Lifecycle.*  `full_connect` is run by `run_loop` and by the resume task of each
IP client; `disconnect` is called from four places; awaits in between let each see
the other's half-done state.  A transport must be closed before it is replaced,
RUN must mean that the panel was identified, PAI must not stay paused, a critical
error or a signal must stop it.

*Connections.*  All transports of a connection object call back into the same
object, and a failed try does not close its transport.  No transport must be
left behind, a session must not be ended by the transport of an earlier one,
nor use its key, and connecting must come to an end.

*Tables and messages.*  Event rows, status bits, property names, message layouts,
expected replies and memory maps are written by hand in separate places that the
interpreter never compares.  A flag that an event sets must be cleared by
something, a status block must tell each element's flags once, a change must be
told to somebody, a reply must be parsed as itself, fields must not overlap.

*Framing.*  The serial line has no delimiters and the IP module's messages come in
TCP segments: what is delivered must be what was sent, however it is cut.

*Memory.*  Reads join neighbouring fields and are sliced afterwards, and
`cfg.LIMITS` outlives the session whose definitions shrank it.

*State.*  Live events change a few flags at once; status polls change all of them,
but later, and their age is not compared.  A status that saw the last change must
leave nothing wrong, and the state must settle when the panel rests.

*Commands.*  One command is several requests with `request_lock` free in between
and while a pulse sleeps; each may fail, or be carried out and not answered.  What
is reported must not claim more than was done.

*Fan-out.*  The list of raw handlers is iterated over across awaits while clients
register and leave, and `client_nr`, which names them, wraps.

*MQTT.*  Three threads publish without a lock, and messages are lost without a
broker: what the broker retains must end up being the state of PAI.

`PROJECT.json` lists every hazard at its line.

## Modules

An action of a model is what the event loop runs between two awaits: everything
up to the first `await` that suspends is one step, and the guards of a step are
what the code tests after it resumes.  Names are those of the code where TLA+
allows it.  A definition whose name tells of something the code does *not* do
(`FinishHoldingLock`, `QueueSettles`, ...) and whose comment begins with "Mutant
of" is a deliberate error, used to see that a property can fail; no specification
refers to it.

| Module | Models | Checked by |
|---|---|---|
| `AsyncLock` | `asyncio.Lock` as used for `request_lock` and `busy` (external) | proofs, and through its users |
| `BusTurn` | the promise of `send_wait` (abstract specification) | `SendWait` implements it |
| `SendWait` | `send_wait`, the handler registry, the link and the panel | `MCSendWait*` |
| `PollLoop` | `loop`, the requests it gathers, commands, pass-through messages | `MCPollLoop*` |
| `Lifecycle` | `run_loop`, `exit_handler`, `full_connect`, `pause`, `resume` | `MCLifecycle*`, `MCInterfaces` |
| `IPConnection` | `connect` and `close` of IP connections, their transports and session keys | `MCIPConnection*`, `MCInterfaces` |
| `PanelTables` | what a table row means: `LiveEvent`, `convert_raw_status` | through its users |
| `EvoTables`, `SpectraTables` | `event_map`, status blocks and `property_map` of both families | through `Tables` |
| `Tables` | the three tables against each other | `MCPanel` |
| `Messages` | layouts, `reply_expected` and `parse_message` of both families | `MCPanel` |
| `SerialFraming` | `SerialConnectionProtocol.data_received` over `Messages` | `MCPanel` |
| `IPFraming` | `IPConnectionProtocol.data_received` | `MCInterfaces` |
| `MemoryMaps` | `mem_map` of every panel | `MCPanel` |
| `MemoryReader` | `load_memory` over `MemoryMaps`, with `cfg.LIMITS` | `MCPanel` |
| `PanelState` | live events, status polls and `current_state` of a partition and a zone | `MCPanel` |
| `ControlCommands` | `control_output` and its siblings | `MCPanel` |
| `ClientFanout` | the raw handlers of the IP clients and the loop over them | `MCInterfaces` |
| `MQTTBridge` | run state, availability and one value on the MQTT broker | `MCInterfaces` |
| `AsyncLockProofs` | lemmas about the lock | tlapm |
| `Induction` | induction and recursion over the naturals, and streams that come in pieces, for the proofs about what is computed along a list | tlapm |
| `SendWaitProofs`, `PollLoopProofs`, `LifecycleProofs`, `ControlCommandsProofs` | theorems about the module they are named after | tlapm |
| `PanelProofs` | theorems about `SerialFraming`, `MemoryReader` and `PanelState`, and those of `ControlCommands` for the calls of `MCPanel` | tlapm |
| `InterfacesProofs` | theorems about `IPConnection`, `IPFraming` and `ClientFanout`, and those of `Lifecycle` for the session of `MCInterfaces` | tlapm |

`MCPanel` and `MCInterfaces` run several modules, one after the other: the variable
`part` is chosen at the start and never changes, only the variables of the module
it names move, and each property is that module's, in its part.  This gives every
module its own small instance in one run.  What the modules range over are CONSTANTS
with values in the `.cfg` (`Noise`, `Pieces`, `Models`, `Programs`, ...; the sets
`NoneOrFew` and `AllOrEveryOther` are those values), so that the theorems hold for
others too.  `LayoutsAssumption`, `PiecesAssumption`, `MapsAssumption` and
`LimitsAssumption` say what the proofs expect of the message layouts, the memory maps
and these constants; TLC evaluates them over all layouts and maps.  It is no composition: the modules meet
where the next paragraph says.

The modules cover one another's boundaries: `PollLoop` reduces a `send_wait`
call to what `BusTurn` says of it; `Lifecycle` reduces `loop()` to when it
polls and how it ends, which are the ends of `PollLoop`, and `connection.connect()` to one step,
whose inside is `IPConnection`.  `ControlCommands` and `MemoryReader` reduce
`send_wait` to the end of its last exchange, `PanelState` to the reply; what
`ClientFanout` hands round are the messages `PollLoop` and `SendWait` exchange.
`SerialFraming` extends `Messages`, so that every layout goes over the line, and
`MemoryReader` extends `MemoryMaps`.

**AsyncLock.**  asyncio wakes the first waiter on release and queues every later
`acquire` behind waiting tasks.  The lock is therefore handed over, and the model's
`holder` is the task it was handed to, which may not have run yet.

**SendWait.**  An element of `Calls` is one invocation.  `pc` is the await the
call is suspended at: `acquiring` (`async with self.request_lock`), `waiting`
(`wait_for_message`).  `handlers` and `future` are the registry and the
`FutureHandler`s.  `Accepts` is the check function: all actions of a panel wait
for the same command code, a memory read also compares the address.  `sent`,
`performed`, `delivered` and `late` are history variables; `late` becomes TRUE
when a call times out although its request or an answer is still on the link.

**PollLoop.**  One run of `loop()`, from the `True` of `full_connect` on.  A poll
is a *generation* of `Blocks` requests; `gathered` is what `asyncio.gather` makes
of them, the first failure winning.  A generation is reused once its requests
are over.  `sentNow` records that the tasks of one `gather` start in the same turn
of the event loop, before any answer can be looked at.  A command is one request
followed by `request_status_refresh`; `ControlCommands` has commands for several
elements.  `EarlyClients` are IP clients that connected before
`run_state` was RUN, so that `pause()` did nothing for them.

**Lifecycle.**  `step[p]` is where task `p` is inside `full_connect`, for
`run_loop` (`Main`) and for the resume task each client leaves behind.  `exitPc`
and `errorPc` are the disconnects started by a signal and by a
"panel_not_connected" message.  `orphaned` records that an open transport was
replaced.  The messages of the handshake are one step, because only whether it
succeeds, times out, is refused or finds `self.panel` reset matters here.
`loop()` begins a poll only in RUN, and is in it (`polling`) until the poll ends, fails
for good or finds the connection closed, whatever `run_state` has become by then.

**IPConnection.**  `protocol` is `Connection._protocol`, `tcp[t]` the life of
transport `t` (`shut`: closed by PAI, `connection_lost` not yet called),
`pending[t]` the session commands under way on it, and `key[t]` names the
transport on which the module gave the key.  `Commands = 0` is a bare
connection, `4` a session with an IP module.  `_closed` is done exactly when
`tcp[t]` is `gone` or the wait for it was given up, so `is_active` is
`tcp[t] = "open"`.

**PanelTables, EvoTables, SpectraTables, Tables.**  A `Row` is a row of `event_map`
after its `"sub"` entry is merged in: the majors and minors it stands for, the
element type, the changes.  `IdOf` is `LiveEvent.id`: the partition, the minor code of
a row without `"sub"`, or none; the `"id"` that Spectra `"sub"` entries hold is not
among them, since nothing reads it.  `Stored` are the numbered elements in the
storage, of status blocks and of loaded labels (`MemoryMaps`), and `Targets` those
that `handle_event_message` finds for a row.  The hook of the EVO row 24 is a second
row of that major, about the partition.  A status block is the list of
its parts in the order the parser reads them, so that its size and the element of
every bit are computed.  Levels, wording and tags no property needs are left out.

**Messages.**  A layout is the list of the widths of its fields; of the contents
only the bytes that framing and `parse_message` test are kept.  `EvoExchanges` and
its Spectra counterpart pair each request with what `reply_expected` names and with
the reply.

**SerialFraming.**  `Framed` is the loop of `data_received` as a recursive function
over the buffer; the only action is the arrival of a piece.

**IPFraming.**  Bytes are counted, not kept.  `start` is where the buffer begins,
and the four alternatives of `Next` are the branches of `data_received`: dangling
data, the `IndexError` of a buffer of one byte, waiting, and processing.

**MemoryMaps, MemoryReader.**  An area is the list of addresses of its elements.
`ReadBatch` is one turn of `_eeprom_batch_reader` with what the labels make of it,
`NextArea` the end of an area (after definitions, `cfg.LIMITS` shrinks), `LoadAgain`
the next session, after a complete load or one that a timeout ended.

**PanelState.**  `panel` is what the panel is, `stored` and `state` what PAI
believes.  `wire` keeps events and status replies in the order the panel sent them.
A reply is kept in `snapshot` until the poll is complete (`Publish`); an event
changes the flags at once (`HandleEvent`), and its subscribers run a step later
(`OnEvent`).  `version`, `published`, `recent` and `sinceRead` are history.

**ControlCommands.**  `pc` is where a call is: at a request (`act`, `off` for the
second half of a pulse) or asleep.  `Unanswered` is a timeout after which the panel
may or may not have acted.

**ClientFanout.**  `handlers` is the list of the registry, PAI's handler first;
`index[m]` is how far the task that hands message `m` round has come in it.
`RemoveByName` skips the handler after one it removed, as the filter over the list
under change does.

**MQTTBridge.**  `reporting` has the two threads in `_report_pai_status` at one of
its three statements, `republish` the republishing loop, `calls` the publications
queued for the loop of the interface, `shown` what the broker retains.

## Runs

Every run finishes; `CHECK_DEADLOCK FALSE` is set everywhere because each model
may stop: calls are finite in number, `loop()` returns, PAI exits, and a bounded
supply of transports is used up.

| Run | Instance | Shows |
|---|---|---|
| `sendwait` | two actions with look-alike replies and a read, 2 attempts, 1 link failure, answers may be late | `SingleWaiter`, `OwnReply`, `NoAnswerLost`, `CallTerminates`, `TakesTurns` (refinement of `BusTurn`) |
| `poll_loop` | polls of 2 blocks, 1 command, 2 attempts, the code's limit of 3 missing replies | `RefreshNotForgotten`, `RefreshServed`, `CommandsFinish`, `LossNoticed` |
| `poll_loop_clients` | the same with two clients, one of them early, limit 2 | `OrphansBounded`, `ClientWritesAlone` |
| `lifecycle_clients` | two clients, `close()` may time out, password errors | `PausedForClient`, `HarmTakesTwo` |
| `ip_connect` | 3 tries, 4 session commands, 2 transports, answers may be late | `KeyOfSession`, `ConnectEnds` |
| `panel` | *tables*: all rows, blocks, maps and exchanges of both families | `FlagsCanClear`, `StatusCoversElements`, `ChangesTold`, `RepliesRecognised`, `FieldsDisjoint` |
| | *serial*: every pair of a message from the panel and an unsolicited one, four kinds of noise, pieces of 1, 36 and 80 bytes | `StreamDelivered` |
| | *memory*: EVO48 and Spectra, all or every other element enabled, `LIMITS` automatic or a list, 2 loads | `FieldsRead`, `LabelsOnlyEnabled` |
| | *state*: three changes at the panel | `PollCorrects`, `AnnouncedIsRecent`, `StateSettles` |
| | *control*: two pulses and an "off" on the same outputs, an "on", an unknown command | `TrueMeansAll`, `PulseDoesNotStay` |
| `interfaces` | *framing*: two messages of two or four blocks, segments that end on and inside blocks | `OnlyWholeMessages` |
| | *bare*: a connection without session commands, 3 tries, 6 transports | `NoTransportLeft`, `LossIsOwn` |
| | *alone*: `run_loop` is the only task that connects | `RunMeansIdentified`, `CriticalStops`, `SignalStops` |
| | *fanout*: three clients, two client numbers, one message | `MissedOnlyByLeaving` |
| | *status*, *values*: two changes of the run state, or of the value; one loss of the broker | `StatusSettles`, `ValueReachesBroker` |

Why these bounds are enough.  Three calls are the least with two waiters behind a
holder, so that the order of the queue and a retry that overtakes nobody show;
two of them accept each other's reply and one does not, which is every relation
between calls.  Two attempts are the least with a retry.  A poll of two blocks
has one request that can fail while the other lives on; three generations are
one more than `OrphansBounded` allows, so the model could break it.  Two clients
are the least that can leave in either order, and the resume tasks they leave behind
are two callers of `full_connect` beside `run_loop`.  Two transports are the current one
and one left open by an earlier try, which is what can be confused; a third would
repeat the second.  The run that looks for transports left behind has three, one
for each try, and six let a bare connection reconnect after earlier sessions.  `MaxMessages = 1` is one message passed through per client: a second
one starts from the same states.  `MaxDrops` bounds how often the link fails.

In `panel`, the tables are whole, so there is no bound.  Noise is nothing, a byte
of no message, one that begins like a reply, and two that begin like an
event; a piece of one byte tries every cut, 36 is one less than
the fixed length, and 80 exceeds every message.  EVO48 has fields of 1, 2, 10, 16,
32 and 107 bytes apart and Spectra the smaller reads, gaps come with the list
`{1, 2, 3, 4, 40}`, and two loads show what a first one leaves in `LIMITS`.  Three changes
are the least for a change before, while and after a status is read.  Two pulses
meet in opposite orders, which is the least for each to end inside the other.

In `interfaces`, messages of two and four blocks differ in which branch a cut takes;
the cuts 0, 5, 16, 31, 32 and 63 are the end, inside and at the end of a block,
and after the first byte.  Three clients are the least
with one to skip after one that left, and two numbers make the third client wrap.
Two changes of a value or state are the least for an old one to come last; one loss
of the broker makes one reconnect race with them.

**Fairness.**  Only weak fairness of steps that asyncio itself runs: a task whose
await is over is scheduled, a timer fires, what is on a wire arrives or is lost,
a transport that was closed gets `connection_lost`.  Nothing is assumed of
commands, clients, signals, the panel's good will or the link coming back.  A
single weak fairness for all the steps of `loop()` and one per `send_wait` task
suffice, because each task has at most one enabled way on and stays enabled until
it takes it; in particular the model does not assume that a request is ever
answered.  `Lifecycle` assumes that a poll ends: `CallTerminates` says so of each of
its requests, and its liveness is checked without IP clients, the only ones that
could hold the two locks for ever (`poll_loop_stuck`).

`PanelState` assumes that polls go on, that the panel answers them and that the
event loop runs what is scheduled: `loop()` is a `while` loop, and its silence is
`PollLoop`'s matter.  `MQTTBridge` assumes that threads run, that the client of the
MQTT library connects again, and that `republish_loop` wakes up as long as it lives.
Neither assumes that anything happens at the panel or in the run state.

**What the conditions hide.**  `OwnReply`, `NoAnswerLost` and `KeyOfSession` speak of
the behaviours in which no answer has come after its timeout yet; after a late
answer `OwnReply` fails just as `AcceptedMeansPerformed` does, since the next call
may be given it.  The models have the late answers; only these three stop
looking after the first.  `SignalStops` is checked for `run_loop` as
the only connector and with `close()` in time.  Otherwise `exit_handler` may be
left by a `TimeoutError` before `alarm = None`, and a resume task can bring the
session back to RUN after the handler set STOP, so that `loop()` goes on although
`alarm` is gone.  `NoTransportLeft` and `LossIsOwn` are checked for bare
connections whose `close()` is in time; the disagreements below show the rest.
`HarmTakesTwo` speaks of the behaviours in which no two calls of `full_connect` were
under way together; `lifecycle_twice` shows what happens in the others.
`Lifecycle` assumes that opening a connection takes longer than the rest of a
close that is under way.

The properties of the tables name their exceptions; each is a row of the code that
a maintainer may want to look at:

- EVO: nothing clears `fire_loop_trouble` and `shutdown` of a zone (the status says
  `shutted_down`), and neither is announced.  A partition's `fire_alarm` is told by
  block 1 and by its own status.
- Spectra: fire alarms of zones and the buttons of remotes are not announced; five
  rows about "system" change no element, because the storage keeps the system's flags
  under a name; the rows 53 to 55 about wireless modules change none either
  (`LiveEvent` never reads the `id` of a `"sub"` entry, `event.py:187`), while row 56, which ends what 55 begins, has no
  `"sub"` and changes the module whose number is the minor code.  No flag stays on.
  The definitions of zones are read up to a number 38, which lies in those of the
  outputs.

The exceptions of the other new properties are behaviours the models have:

- `StreamDelivered`: after noise, an incomplete frame that was announced by chance
  may hold messages back.
- `OnlyWholeMessages`: a message cut between two of its blocks is handed on as far as
  it came; a message merged behind another is dropped; one byte alone raises
  `IndexError`.
- `AnnouncedIsRecent`: no event tells the exit delay, and a status read before an
  alarm hides it until the next one; a mode no event named is called `armed_away`
  (row 4/2 names no mode); `announcing` is the step between an event and its
  subscribers.
- `LabelsOnlyEnabled`: what is read, not what is missed.  The first load leaves its
  own list of enabled elements in `cfg.LIMITS` (`hardware/panel.py:173`), so that a
  zone enabled before the next session, for instance by the client for which PAI was
  paused, is not loaded then, although `config.py:59` says that by default all are.
- `PulseDoesNotStay`: a pulse whose second request fails leaves the output on; its
  caller was told False.  `TrueMeansAll` has no converse: False is returned also when
  a part, or everything, was done.
- `MissedOnlyByLeaving`: a client that leaves during the loop makes it skip the next,
  a write that fails ends it for the rest, and of two clients with the same number
  the first to leave takes the other's handler away (`shared`).  The
  end of a client's stream is not noticed as long as the panel is connected: the
  client stays registered and PAI stays paused.
- `StatusSettles`: a change during `on_connect` (`overlap`) may leave the older status
  on the broker and in `_last_pai_status`.
- `ValueReachesBroker`: a new topic during the iteration ends `republish_loop` for good
  (`dead`), and a value that changes between its read and its publication is
  overwritten by the older one (`raced`).

## Disagreements

Five runs look for what a comment or a docstring promises and find a
counterexample.  They check the models above, without changes.

| Run | Source | Promise | What happens |
|---|---|---|---|
| `sendwait_late` | `paradox.py:406` | `control_zones`: "True if we have at least one success" | the answer to an action that timed out is returned to the next one, whose request the panel never saw |
| `poll_loop_stuck` | `client_connection.py:170` | "Trigger status update" | a pass-through takes `request_lock` then `busy`, the poll `busy` then `request_lock`; both wait for ever |
| `lifecycle_twice` | `paradox.py:668` | "socket needs to be also closed" | the resume task and `run_loop` connect together; the second transport replaces the first |
| `lifecycle_critical` | `paradox.py:642` | "CRITICAL Exceptions below that will stop PAI." | the exception ends in the message handler's task |
| `ip_left` | `ip/connection.py:28` | "socket needs to be also closed" | a session command times out; the next try dials again and forgets the open transport |

## Proofs

All of them hold for every value of the constants that satisfies the named
assumptions in the modules; where a theorem has a hypothesis of its own, it is
named below.  TLC has checked every inductive invariant on the instance of a run
(`StreamInv` with what was received computed instead of quantified over).

**`AsyncLockProofs`** states what `Enter`, `Leave` and `EnterAll` do to the tasks in
a lock: nobody is lost or entered twice, the holder is never a waiter (`InOrder`),
and the lock is first come first served: entering puts a task behind all others,
leaving changes the order of nobody else (`Before`).

**`SendWaitProofs`**, for any set of calls, retries and link behaviour:

- `TypeCorrect`, `OneWaiterAtATime`, `ImplementsBusTurn` follow from `BusInv`.
  `SingleWaiter` is not inductive: it says nothing of the queue, so a release could
  hand the lock to anybody.  `BusInv` adds that the lock contains exactly the calls
  that are acquiring or waiting, each once, that the registered futures are those
  of the waiting calls, and that each wrote its request once per attempt.
- `RepliesMatchCalls` and `AnswersReachCallers` follow from `~late => PromptInv`: at
  most one message is on the link, it belongs to the waiting call,
  and a future that is done has nothing more under way.

Each lemma `...Bus` or `...Prompt` treats one of the three ways a step of a call
can end (`Finish`, `Exchange`, `Queue`), so that the proof for an action cites the
lemma of its branch.

**`PollLoopProofs`**, for any number of requests in a poll, attempts, clients,
commands and messages (`TasksAssumption` says that tasks have different names,
`GenerationsAssumption` that there are names for two polls):

- `ClientsWriteAlone`, an action property, needs `LocksKept`: which tasks are in each
  of the two locks is read off the places where they are suspended.  It is what
  makes "holds both locks" mean "no poll and no request".
- `RefreshRemembered` needs `RefreshKept`: a refresh that was not served keeps
  `loop_wait_event` set not only while `loop()` waits but at every other place too,
  until the round that serves it begins.
- `OrphansAreBounded` needs `OrphansKept`, the order of the queue of `request_lock`
  against the attempts: a request left over from an earlier poll never has made
  fewer attempts than one of the current poll, and has made more than those it
  waits behind.  So when a request of the current poll gives up, no older one is
  left, and the next poll can begin with one generation alive.  The model checker
  does not need this argument; no bound on `Retries` or `Blocks` would replace it.
- `TypeCorrect`.

**`LifecycleProofs`**, for any set of clients and whatever fails:

- `PauseEnds`: the invariant is inductive with the types, among which is that
  `run_loop` is in `full_connect` exactly when `mainPc` says so.
- `HarmNeedsTwo`, an implication between two temporal formulas: as long as no two
  calls of `full_connect` are under way together, neither a transport is replaced nor
  is `run_state` RUN or PAUSE with another panel object than the handshake found.
  `OpensOnce` says that a connector about to open has no transport up, `Identified`
  which panel object each step of `full_connect` leaves.  Both speak of all
  connectors; a step of one keeps them because the others are idle.
- `AloneOneTransport` and `AloneIdentified`, for `Clients = {}`, follow, since
  `run_loop` is then the only connector.

**`ControlCommandsProofs`**, for any calls whose selections are sequences of
outputs (`Selections`, the hypothesis of its theorems):

- `TrueIsAll` needs `WorkKept`: the outputs before `at` are done.
- `PulsesEnd` needs `PulsesKept`, which speaks of every moment and not only of the
  end: each output that is on has a call that answers for it, one that wants it on,
  a pulse that failed, or a pulse that still has to switch off this very output.
  What others do to the output does not matter: a call can only light the output it
  is at.

**`PanelProofs`**, for any number of changes at the panel:

- `PollsCorrect`: `StatusKept`, `ReadKept` and `PublishedKept` follow a status from the
  wire to the storage.  If it has seen the last change, it says what the panel is
  and nothing is behind it; when it is taken off the wire nothing is before it
  either, the subscribers of earlier events included.
- `StatesAreRecent`: `current_state` may be computed from flags the panel never had
  together, because an event changes some and leaves the others.  `Evidence` takes
  them one by one: each flag was the panel's in some state since the last status.
  `Explains`, `EventKeepsEvidence`, `HookKeepsEvidence` and `StatusCopies` say that a
  status brings evidence for all flags and that no row of `event_map` or hook
  changes a flag without it; `EvidenceOfState` that this is enough for
  `current_state`.  For events on the wire while a status is read, evidence is kept
  for both histories, `recent` and `sinceRead`.
- `TrueIsAll` and `PulsesEnd` carry the theorems of `ControlCommands` over to
  `MCPanel`: its specification implies that of the module.

- `FieldsAreRead`, with nothing known of the memory maps but
  `MapsAssumption`, for any limits, any programming of the panel and any number of loads.
  `AreaRead` says that `read` holds exactly the first fields of the area, up to
  `position`, and that every field came from the address of its element.  A batch
  joins neighbouring fields, and the slice for the next field is one width further.
  `SelectedFields` says what the limits of a type leave of a list of addresses, by
  induction along the list, and `BatchFits` that a batch fits into a reply.
- `LabelsEnabled`: `LimitsShrunk` says that the limits of a type whose definitions
  have been read *in this load* are enabled elements, whatever `cfg.LIMITS` said or an
  earlier load, of a panel programmed otherwise, has made of them.  Without the order
  in `MapsAssumption` it would not hold.
- `CleanStreams`, for streams without noise, any content of the messages, and pieces
  of any sizes: `StreamInv` says that what was received is the frames delivered
  followed by the buffer, and that the buffer is less than one message.  A buffer that
  begins like a message announces its length (`EncodedIsMessage`, from
  `LayoutsAssumption`), so `FramedOfOne` and `FramedOfTwo` tell what one call of
  `data_received` makes of every first part of the stream.  `FramingExists` shows that
  its loop is a recursion that ends: a frame it accepts has four bytes at least.

**`InterfacesProofs`**, for any number of transports, session commands and tries, any
messages, segments and clients:

- `TypesKept`: in particular `connect()` makes at most `MaxTries` tries.
- `BareLeavesNoTransport`, `BareLossIsOwn`: on a connection without session
  commands whose `close()` is in time.  `BareInv` strengthens `NoTransportLeft` with
  what is up when the flag is set and what is closing.
- `SessionKeyIsOwn` follows from `~late => KeyInv`, which says that at most one
  command or answer is under way over all transports, those left open by earlier
  tries included.
- `WholeMessages` and `MessagesWhole`: `FramingInv` compares `start` with the messages.
  The buffer begins behind the beginning of every message that was delivered, so the
  next to be delivered is a later one; and a message is given to the handler before
  its end only when a segment ended between two of its blocks.  That messages begin
  one behind the other is shown along the stream.
- `MissedOnly` and `MissedByLeaving`: `FanoutInv`, up to the first number given twice,
  says that the list holds PAI's handler and then exactly the clients that read, each
  under its own number; and for every message under way that nobody disturbed, that
  the clients up to `index[m]` have got it.  `RemovesOne` says that the filter over
  the changing list removes one handler, which is only so while numbers differ.
- `RunIsIdentified` carries `AloneIdentified` over to `MCInterfaces`.

**`Induction`** has what those proofs need to follow a list: every set of naturals
has a least element, a bounded one has a greatest, induction over a set of naturals,
and that a function given by recursion exists, from the value before (`Recursion`) or
from all before (`Tracing`).  Its lemmas take sets and functions where the
library's induction theorems take operators.
Its last part is about a stream in two pieces: `BeyondFirst` and
`JoinsLast` say what of it belongs to the first and to the last message.

## Limits

Only model-checked: the liveness properties (`CallTerminates`, `RefreshServed`,
`CommandsFinish`, `LossNoticed`, `CriticalStops`, `SignalStops`, `ConnectEnds`,
`StateSettles`, `StatusSettles`, `ValueReachesBroker`), because fairness and ENABLED
are out of the prover's reach; and `StreamDelivered` for streams with noise, where
what is delivered depends on the checksums of frames that span two messages: it is
checked for the noise and the content of the run only.  `FlagsCanClear`,
`StatusCoversElements`, `ChangesTold`, `RepliesRecognised` and `FieldsDisjoint` are
about constant tables, messages and maps, which TLC evaluates completely: there is no
other instance to prove them for.  The five disagreements are counterexamples.

Abstracted: message contents other than who asked, which key was given and what
framing tests; the lengths of timers and sleeps; the task switch between a received
frame and `HandlerRegistry.handle` (the link may delay a message as long); in
`PanelState`, trouble flags and the other elements, which are written the same way;
in `ControlCommands`, EVO panels, which take all elements of a command in one
request and are the case of one element.

Not modelled:

- MQTT topics and payloads, the Home Assistant discovery, and the text interfaces:
  conversions of names and adapters to external services, whose commands end in
  `control_*`;
- element containers and event filters: string matching without state of its own
  that other tasks race for;
- the STUN session, a client of an external service;
- the open timeout of the serial port and authentication of IP clients, not yet done;
- configuration (read once at start) and console scripts (sequential tools).

Seen while modelling, and outside of any property: the subscription
to `definitons_loaded` (`paradox.py:50`) does not match the topic `load_memory` sends;
the waits of `run_loop` are `2 ^ retry`, an exclusive or; the branch for a wrong
password in the Spectra `initialize_communication` cannot be reached by the messages
its layouts describe; `use_variable_message_length` is never switched off for Spectra.

## Plan

What is left, the most valuable first.

1. The open timeout of the serial connection, inside `Lifecycle`'s single step, and
   the authentication of IP clients before they may pass messages through.
2. An action for each kind of element in `PanelState`, so that trouble flags and
   `_on_property_change` are covered by the same evidence argument.
3. For `SerialFraming`, which noise `StreamDelivered` tolerates for every content: no
   first byte that announces a frame longer than itself.
