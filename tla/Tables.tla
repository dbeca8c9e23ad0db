-------------------------------- MODULE Tables ------------------------------
(***************************************************************************)
(* The three tables of a panel driver against each other.  They are        *)
(* written by hand, hundreds of rows each, and the interpreter never       *)
(* compares them: a flag that one of them misspells is simply never        *)
(* cleared, or never told to anybody.                                      *)
(***************************************************************************)
EXTENDS PanelTables

Evo == INSTANCE EvoTables
Spectra == INSTANCE SpectraTables
Maps == INSTANCE MemoryMaps

AllReports(blocks) == UNION {Reports(blocks[n]) : n \in DOMAIN blocks}

\* The numbered elements in the storage, with everything enabled: those a status tells
\* of and those whose labels were loaded.  What belongs to the "system" is stored under
\* names, which no event has as its id.
Stored(blocks, map) ==
  {<<r[1], r[2]>> : r \in {r \in AllReports(blocks) : r[1] # "system"}}
    \cup UNION {{<<map[i].type, n>> : n \in DOMAIN map[i].addresses} :
                  i \in {i \in DOMAIN map : map[i].kind = "labels"}}

EvoElements == Stored(Evo!Blocks, Maps!EVO192)

SpectraElements == Stored(Spectra!Blocks, Maps!Spectra)

\* The flags of elements that an event gives one of these values.
Changed(events, stored, values) ==
  UNION {{<<row.type, n, change[1]>> : n \in Targets(row, stored),
                                       change \in {c \in row.change : c[2] \in values}} :
           row \in {r \in events : r.change # {}}}

\* Flags of an element that an event sets and neither an event nor a status block
\* ever clears.
Stuck(events, blocks, stored) ==
  Changed(events, stored, {"on"})
    \ (Changed(events, stored, {"off"}) \cup AllReports(blocks))

-----------------------------------------------------------------------------

\* A flag of an element that an event sets is cleared by some other event, or by the
\* next status block: nothing stays on for ever.  Two flags of EVO zones do: nothing
\* ends a fire loop trouble, and the status reports "shutted_down" where the event
\* says "shutdown".
FlagsCanClear ==
  /\ \A s \in Stuck(Evo!Events, Evo!Blocks, EvoElements) :
       s[1] = "zone" /\ s[3] \in {"fire_loop_trouble", "shutdown"}
  /\ Stuck(Spectra!Events, Spectra!Blocks, SpectraElements) = {}

\* The blocks a poll reads are of the size the panel answers with, and tell every
\* element of its flags once: no bit of one element is read as another's, none is
\* read in two blocks, except the fire alarm of an EVO partition, which block 1 and
\* the partition's own status both tell: the one read last wins.
StatusCoversElements ==
  /\ \A n \in DOMAIN Evo!Blocks : Bits(Evo!Blocks[n]) = 8 * 64
  /\ \A n \in DOMAIN Spectra!Blocks : Bits(Spectra!Blocks[n]) = 8 * 32
  /\ \A blocks \in {Evo!Blocks, Spectra!Blocks} :
       \A n, m \in DOMAIN blocks :
         n # m => \A r \in Reports(blocks[n]) \cap Reports(blocks[m]) :
                    r[1] = "partition" /\ r[3] = "fire_alarm"
  /\ LET reports == AllReports(Evo!Blocks)
         About(type, name) == {r[2] : r \in {r \in reports : r[1] = type /\ r[3] = name}}
     IN /\ \A name \in {"open", "tamper", "low_battery", "bypassed", "presently_in_alarm"} :
             About("zone", name) = 1..192
        /\ \A name \in {"arm", "entry_delay", "zone_supervision_trouble", "stay_instant_ready"} :
             About("partition", name) = 1..8
        /\ About("pgm", "on") = 1..32
        /\ About("module", "tlm_trouble") = 1..254

\* The changes of events that nobody is told of, because the event is about no stored
\* element or because property_map has no message for the property.
Untold(events, announced, stored) ==
  UNION {{<<row, change>> :
            change \in {c \in row.change : Targets(row, stored) = {} \/ c[1] \notin announced}} :
           row \in {r \in events : r.change # {}}}

\* Whatever an event changes is changed on some element and announced, with these
\* exceptions: zones that EVO shuts down or has a fire loop trouble of, fire alarms of
\* Spectra zones and its remote buttons are not announced; the Spectra rows about the
\* "system", and those about wireless modules (53 to 55), change no element.
ChangesTold ==
  /\ \A u \in Untold(Evo!Events, Evo!Announced, EvoElements) :
       u[1].type = "zone" /\ u[2][1] \in {"fire_loop_trouble", "shutdown"}
  /\ \A u \in Untold(Spectra!Events, Spectra!Announced, SpectraElements) :
       \/ u[1].type = "zone" /\ u[2][1] = "fire_alarm"
       \/ u[1].type = "user" /\ u[2][2] = "now"
       \/ u[1].type = "system" /\ u[2][1] \in {"bell_activated", "timer_loss_trouble",
            "fire_loop_trouble", "computer_fail_to_communicate_trouble"}
       \/ u[1].majors \subseteq 53..55
==============================================================================
