------------------------------- MODULE MCPanel ------------------------------
(* What PAI makes of the bytes, the tables and the memory of a panel, on    *)
(* small instances for TLC: one module after the other.  Only the variables *)
(* of the module that "part" names change.  PanelState is extended, the     *)
(* others are instances.                                                    *)
EXTENDS PanelState

CONSTANTS
  Noise, Pieces, Content,                 \* of SerialFraming
  Models, Programs, Configured, MaxLoads  \* of MemoryReader

VARIABLES part,
  sent, incoming, buffer, delivered,
  model, enabled, limits, area, position, yielded, read, labels, loads,
  on, pc, at, result, connected, done

T == INSTANCE Tables

Serial == INSTANCE SerialFraming

\* What SerialFraming expects of every message a panel sends: its first bytes tell its
\* length.
ASSUME LayoutsAssumption ==
  \A family \in {"evo", "spectra"} : \A m \in Serial!FromPanel(family) :
    /\ m.command \in Nat /\ m.second \in Nat /\ m.third \in Nat /\ m.bytes \in Nat
    /\ m.bytes >= 4
    /\ Serial!PacketLength(<<16 * m.command + 2, m.second, m.third>>) = m.bytes

ASSUME PiecesAssumption == Pieces \subseteq Nat /\ Content \in Nat

\* For the cfg: no noise, a byte of no message, one like a reply, two like an event.
NoneOrFew == {<<>>, <<0>>, <<66>>, <<226, 1>>}

Memory == INSTANCE MemoryReader WITH panel <- model

\* What MemoryReader expects of every memory map: a field fits into a reply, and the
\* definitions of a type come before its labels.
ASSUME MapsAssumption ==
  \A m \in Memory!Panels :
    LET map == Memory!MemMap(m)
    IN /\ DOMAIN map \subseteq Nat \ {0}
       /\ \A i \in DOMAIN map : /\ map[i].width \in 1..Memory!MaxResponse(m)
                                /\ map[i].addresses \in Seq(Nat)
       /\ \A d, i \in DOMAIN map :
            (/\ map[d].kind = "definitions" /\ map[i].kind = "labels"
             /\ map[d].type = map[i].type) => d < i

ASSUME LimitsAssumption ==
  Models \subseteq Memory!Panels /\ Configured \subseteq SUBSET Nat

\* For the cfg: everything or every other element is enabled.
AllOrEveryOther == {1..999, {n \in 1..999 : n % 2 = 1}}

\* Two pulses and an "off" that meet on the same outputs, an "on" of others, and a
\* command no output has.
Wanted ==
  [pulse1 |-> [selected |-> <<1, 2>>, command |-> "pulse"],
   pulse2 |-> [selected |-> <<2, 1>>, command |-> "pulse"],
   off |-> [selected |-> <<1>>, command |-> "off"],
   on |-> [selected |-> <<3, 2>>, command |-> "on"],
   bad |-> [selected |-> <<1>>, command |-> "arm"]]

Control == INSTANCE ControlCommands

serialVars == <<sent, incoming, buffer, delivered>>
readerVars == <<model, enabled, limits, area, position, yielded, read, labels, loads>>
controlVars == <<on, pc, at, result, connected, done>>

allVars == <<part, vars, serialVars, readerVars, controlVars>>

\* Modules that can start in several states do so only in their own part.
SerialInit ==
  IF part = "serial" THEN Serial!Init
  ELSE sent = <<>> /\ incoming = <<>> /\ buffer = <<>> /\ delivered = <<>>

MemoryInit ==
  IF part = "memory" THEN Memory!Init
  ELSE /\ model = "none" /\ enabled = {} /\ limits = {} /\ area = 0 /\ position = 0
       /\ yielded = {} /\ read = {} /\ labels = {} /\ loads = 0

InitOfParts ==
  /\ part \in {"tables", "serial", "memory", "state", "control"}
  /\ SerialInit
  /\ MemoryInit
  /\ Init
  /\ Control!Init

NextOfParts ==
  /\ UNCHANGED part
  /\ \/ /\ part = "serial" /\ Serial!Next
        /\ UNCHANGED <<readerVars, vars, controlVars>>
     \/ /\ part = "memory" /\ Memory!Next
        /\ UNCHANGED <<serialVars, vars, controlVars>>
     \/ /\ part = "state" /\ Next
        /\ UNCHANGED <<serialVars, readerVars, controlVars>>
     \/ /\ part = "control" /\ Control!Next
        /\ UNCHANGED <<serialVars, readerVars, vars>>

\* Fairness of PanelState, in its part.
StateFairness ==
  /\ WF_vars(part = "state" /\ ReadStatus)
  /\ WF_vars(part = "state" /\ ReceiveStatus)
  /\ WF_vars(part = "state" /\ Publish)
  /\ WF_vars(part = "state" /\ HandleEvent)
  /\ WF_vars(part = "state" /\ OnEvent)

SpecOfParts == InitOfParts /\ [][NextOfParts]_allVars /\ StateFairness

-----------------------------------------------------------------------------
(* The properties of the modules, each in its part; PollCorrects,           *)
(* AnnouncedIsRecent and StateSettles are those of PanelState.              *)

\* Tables: a flag set by an event of event_map is cleared by another event or by a
\* status block, but for the ones listed.
FlagsCanClear == part = "tables" => T!FlagsCanClear

\* Tables: status blocks tell every element's flags, in no two places.
StatusCoversElements == part = "tables" => T!StatusCoversElements

\* Tables: what events change is told by a message of property_map, but for the
\* ones listed.
ChangesTold == part = "tables" => T!ChangesTold

\* Messages: the waits of the exchanges get their replies, and events go elsewhere.
RepliesRecognised == part = "tables" => Serial!RepliesRecognised

\* MemoryMaps: no field of a memory map lies in another.
FieldsDisjoint == part = "tables" => Memory!FieldsDisjoint

\* SerialFraming: data_received delivers what was sent, however it is cut.
StreamDelivered == part = "serial" => Serial!StreamDelivered

\* MemoryReader: joined reads yield the fields single reads would.
FieldsRead == part = "memory" => Memory!FieldsRead

\* MemoryReader: labels are loaded of enabled elements only.
LabelsOnlyEnabled == part = "memory" => Memory!LabelsOnlyEnabled

\* ControlCommands: True means that every output was brought where it was wanted.
TrueMeansAll == part = "control" => Control!TrueMeansAll

\* ControlCommands: a pulse does not leave its output on.
PulseDoesNotStay == part = "control" => Control!PulseDoesNotStay
==============================================================================
