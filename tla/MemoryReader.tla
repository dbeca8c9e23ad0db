----------------------------- MODULE MemoryReader ---------------------------
(***************************************************************************)
(* Panel.load_memory (hardware/panel.py): the definitions of every type of *)
(* element are read first and shrink cfg.LIMITS to the elements the panel  *)
(* has enabled; then the labels of the elements within the limits.  Both   *)
(* go through _eeprom_batch_reader, which joins neighbouring fields to one *)
(* read.  cfg is global: what a load makes of LIMITS is what the load of   *)
(* the next session starts from.                                           *)
(***************************************************************************)
EXTENDS MemoryMaps

CONSTANTS Models,      \* panels to try
          Programs,    \* what may be enabled: sets of element numbers
          Configured,  \* what LIMITS may say of a type: sets of element numbers
          MaxLoads     \* bound on the number of sessions

VARIABLES panel,    \* the panel model
          enabled,  \* elements that are not "disabled" in the panel
          limits,   \* cfg.LIMITS; a type without an entry, or with "auto", has none here
          area,     \* the area being read, as an index of the map
          position, \* the next address of the area
          yielded,  \* the fields of the last read
          read,     \* elements of this area read so far
          labels,   \* labels loaded in this session: type and number
          loads     \* sessions so far

readerVars == <<panel, enabled, limits, area, position, yielded, read, labels, loads>>

Map == MemMap(panel)

\* The types that a configuration here may limit: those with definitions.
Limited == {"zone", "partition", "pgm", "user"}

\* get_limits_for_type
LimitsForType(type, default) == IF type \in DOMAIN limits THEN limits[type] ELSE default

\* The addresses of a list whose numbers are within a set, with their numbers.
Selected(all, within) ==
  LET Taken[i \in 0..Len(all)] ==
        IF i = 0 THEN <<>>
        ELSE IF i \in within THEN Append(Taken[i - 1], [number |-> i, address |-> all[i]])
        ELSE Taken[i - 1]
  IN Taken[Len(all)]

\* The fields an area is read for: all definitions, the labels within the limits.
Wanted ==
  LET all == Map[area].addresses
      type == Map[area].type
  IN Selected(all, IF Map[area].kind = "labels"
                   THEN LimitsForType(type, DOMAIN all) ELSE DOMAIN all)

\* Mutant of BatchSize: one field more than fits.
BatchSizeOneMore(wanted, width) ==
  Max({n \in 1..Min({Len(wanted) - position + 1, MaxResponse(panel) \div width + 1}) :
         \A k \in 1..n - 1 : wanted[position + k].address
                               = wanted[position].address + k * width})

\* _eeprom_batch_reader: how many fields, from the next one on, one read joins: the
\* first, and others as long as they are sequential and one more fits.
BatchSize(wanted, width) ==
  Max({n \in 1..Min({Len(wanted) - position + 1, MaxResponse(panel)}) :
         \A k \in 1..n - 1 :
           /\ wanted[position + k].address = wanted[position].address + k * width
           /\ (k + 1) * width <= MaxResponse(panel)})

Init ==
  /\ panel \in Models
  /\ enabled \in Programs
  /\ limits \in {[type \in {} |-> {}]} \cup {[type \in Limited |-> l] : l \in Configured}
  /\ area = 1 /\ position = 1 /\ yielded = {} /\ read = {} /\ labels = {} /\ loads = 1

\* The elements whose definition, among those read, is not "disabled": all
\* partitions are in one byte (bit_encoded), and users have no such entry.
EnabledIn(type) ==
  CASE type = "partition" -> 1..8 \cap enabled
    [] type = "user" -> read
    [] OTHER -> read \cap enabled

\* One read, and what _load_labels keeps of it.
ReadBatch ==
  LET wanted == Wanted
      width == Map[area].width
      batch == SubSeq(wanted, position, position + BatchSize(wanted, width) - 1)
      fields == {[number |-> batch[i].number,
                  address |-> batch[1].address + (i - 1) * width,
                  length |-> Len(batch) * width] : i \in DOMAIN batch}
  IN /\ area \in DOMAIN Map /\ position <= Len(wanted)
     /\ yielded' = fields
     /\ read' = read \cup {field.number : field \in fields}
     /\ position' = position + Len(batch)
     /\ labels' = labels \cup (IF Map[area].kind = "labels"
                               THEN {<<Map[area].type, n>> : n \in read'} ELSE {})
     /\ UNCHANGED <<panel, enabled, limits, area, loads>>

\* Mutant of Shrunk: a configured list is taken as it is.
ShrunkToConfigured(type) == LimitsForType(type, EnabledIn(type))

\* cfg.LIMITS[elem_type] after the definitions of that type.
Shrunk(type) == LimitsForType(type, EnabledIn(type)) \cap EnabledIn(type)

\* No field is left: the next type is begun.
NextArea ==
  LET type == Map[area].type
  IN /\ area \in DOMAIN Map /\ position > Len(Wanted)
     /\ limits' = IF Map[area].kind = "definitions"
                  THEN [t \in DOMAIN limits \cup {type} |->
                        IF t = type THEN Shrunk(type) ELSE limits[t]]
                  ELSE limits
     /\ area' = area + 1 /\ position' = 1 /\ yielded' = {} /\ read' = {}
     /\ UNCHANGED <<panel, enabled, labels, loads>>

\* A new session, after a load that was complete or that a read without an answer
\* ended: send_wait raised TimeoutError.  The panel may have been programmed anew.
LoadAgain ==
  /\ loads < MaxLoads
  /\ area \in DOMAIN Map => position <= Len(Wanted)
  /\ enabled' \in Programs
  /\ loads' = loads + 1
  /\ area' = 1 /\ position' = 1 /\ yielded' = {} /\ read' = {} /\ labels' = {}
  /\ UNCHANGED <<panel, limits>>

Next == ReadBatch \/ NextArea \/ LoadAgain

Spec == Init /\ [][Next]_readerVars

-----------------------------------------------------------------------------

\* Every field a read yields is the one at the address of its element, no read is
\* longer than the panel answers, and when an area is over all its fields have been
\* read: what _eeprom_batch_reader slices out of joined reads is what single reads
\* would give, for every map and whatever elements the limits leave out.
FieldsRead ==
  area \in DOMAIN Map =>
    /\ \A field \in yielded :
         /\ Map[area].addresses[field.number] = field.address
         /\ field.length <= MaxResponse(panel)
    /\ position > Len(Wanted) =>
         read = {Wanted[i].number : i \in DOMAIN Wanted}

\* A label is loaded only of an element that its definition, read in the same
\* session, says is enabled, also when LIMITS names others, or holds what an earlier
\* session made of it for a panel that was programmed differently.
LabelsOnlyEnabled ==
  \A t \in {"zone", "pgm", "partition"} :
    (\E i \in DOMAIN Map : Map[i].kind = "definitions" /\ Map[i].type = t) =>
      \A n \in {label[2] : label \in {label \in labels : label[1] = t}} : n \in enabled
==============================================================================
