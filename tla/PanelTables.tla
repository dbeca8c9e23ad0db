------------------------------ MODULE PanelTables ----------------------------
(***************************************************************************)
(* The vocabulary of the tables a panel driver consists of: the events it  *)
(* knows (event_map), the flags its status blocks report (parsers.py and   *)
(* adapters.py) and the properties whose changes are announced             *)
(* (property_map); and what LiveEvent (event.py) and convert_raw_status    *)
(* (parsers/status.py) make of them.                                       *)
(***************************************************************************)
EXTENDS Integers, SequencesExt

\* A row of event_map: the majors it stands for, the minors of its "sub" entry,
\* the element type, the changes and the tags after both are merged.  A row
\* without "sub" has every minor as element number.
Each == {}

Row(majors, minors, type, change, tags) ==
  [majors |-> majors, minors |-> minors, type |-> type, change |-> change,
   tags |-> tags]

On(p) == <<p, "on">>
Off(p) == <<p, "off">>
Toggle(p) == <<p, "toggle">>

\* Mutant of IdOf: "self.id = self.partition" is forgotten.
IdOfMinorOnly(row, minor, partition) == IF row.minors = Each THEN minor ELSE 0

\* LiveEvent.id: the partition of an event about a partition; else the minor if the
\* row has no "sub" entry, and None (0, which is no element's number) if it has one:
\* the "id" that a "sub" entry may hold is merged into the row and never read.
IdOf(row, minor, partition) ==
  IF row.type = "partition" THEN partition
  ELSE IF row.minors = Each THEN minor
  ELSE 0

\* The numbers of the elements that handle_event_message changes: of those stored,
\* the ones an event of the row may be about.
Targets(row, stored) ==
  {n \in {IdOf(row, minor, partition) : minor \in 0..255, partition \in 0..8} :
     <<row.type, n>> \in stored}

\* Part of a status block: flags in the order they are read, "_" for a bit that is
\* skipped, once for each of the elements from first to last.
Flags(type, names, first, last) ==
  [type |-> type, names |-> names, first |-> first, last |-> last, bits |-> Len(names)]

\* A part read as a number, an adapter's value or padding: no flag.
Plain(bytes) ==
  [type |-> "", names |-> <<>>, first |-> 1, last |-> 1, bits |-> 8 * bytes]

\* An adapter that takes one byte for each element and reports these flags.
PerByte(type, names, first, last) ==
  [type |-> type, names |-> names, first |-> first, last |-> last, bits |-> 8]

PartBits(part) == part.bits * (part.last - part.first + 1)

Bits(parts) == FoldLeft(LAMBDA sum, part : sum + PartBits(part), 0, parts)

\* convert_raw_status: what a block reports, as (element type, element, property).
Reports(parts) ==
  UNION {{<<parts[i].type, n, parts[i].names[k]>> :
            n \in parts[i].first..parts[i].last,
            k \in {k \in DOMAIN parts[i].names : parts[i].names[k] # "_"}} :
          i \in DOMAIN parts}
==============================================================================
