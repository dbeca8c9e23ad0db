------------------------------ MODULE MemoryMaps ----------------------------
(***************************************************************************)
(* Where the panels keep the definitions and labels of their elements: the *)
(* mem_map of each panel class.  An area is the list of addresses of its   *)
(* elements, in the order of their numbers, and the width of a field.      *)
(***************************************************************************)
EXTENDS Integers, SequencesExt

\* range(first, past, step)
Addresses(first, past, step) ==
  [i \in 1..(past - first + step - 1) \div step |-> first + (i - 1) * step]

Area(kind, type, width, addresses) ==
  [kind |-> kind, type |-> type, width |-> width, addresses |-> addresses]

Labels(type, addresses) == Area("labels", type, 16, addresses)

\* Panel_EVO48.mem_map
EVO48 == <<
  Area("definitions", "zone", 2, Addresses(\h1F0, \h250, 2)),
  Area("definitions", "partition", 1, <<\h39D8>>),
  Area("definitions", "user", 10, Addresses(\hBF0, \hFB0, 10)),
  Labels("zone", Addresses(\h430, \h730, 16)),
  Labels("pgm", Addresses(\h7082, \h7482, 32)),
  Labels("partition", Addresses(\h3A6B, \h3C17, 107)),
  Labels("user", Addresses(\h3E47, \h4447, 16)),
  Labels("module", Addresses(\h4E47, \h5637, 16)),
  Labels("door", Addresses(\h345C, \h365C, 16)) >>

\* Panel_EVO96.mem_map
EVO96 == <<
  Area("definitions", "zone", 2, Addresses(\h1F0, \h2B0, 2)),
  Area("definitions", "partition", 1, <<\h39D8>>),
  Area("definitions", "user", 10, Addresses(\hBF0, \h32F6, 10)),
  Labels("zone", Addresses(\h430, \h730, 16) \o Addresses(\h730, \hA30, 16)),
  Labels("pgm", Addresses(\h7082, \h7482, 32)),
  Labels("partition", Addresses(\h3A6B, \h3C17, 107) \o Addresses(\h3C17, \h3DC3, 107)),
  Labels("user", Addresses(\h3E47, \h4E47, 16)),
  Labels("module", Addresses(\h4E47, \h5637, 16) \o Addresses(\h5637, \h5E27, 16)),
  Labels("door", Addresses(\h345C, \h365C, 16)) >>

\* Panel_EVO192.mem_map
EVO192 == <<
  Area("definitions", "zone", 2, Addresses(\h1F0, \h2B0, 2) \o Addresses(\h60B7, \h6177, 2)),
  Area("definitions", "partition", 1, <<\h39D8>>),
  Area("definitions", "user", 10, Addresses(\hBF0, \h32F6, 10)),
  Labels("zone", Addresses(\h430, \h730, 16) \o Addresses(\h730, \hA30, 16)
                   \o Addresses(\h62F7, \h68F7, 16)),
  Labels("pgm", Addresses(\h7082, \h7482, 32)),
  Labels("partition", Addresses(\h3A6B, \h3C17, 107) \o Addresses(\h3C17, \h3DC3, 107)),
  Labels("user", Addresses(\h3E47, \h4E47, 16)),
  Labels("module", Addresses(\h4E47, \h5637, 16) \o Addresses(\h5637, \h5E27, 16)),
  Labels("door", Addresses(\h345C, \h365C, 16)) >>

\* Panel_EVOHD.mem_map: the labels of 31 outputs, and all else as in Panel_EVO192.
EVOHD == [EVO192 EXCEPT ![5] = Labels("pgm", Addresses(\h70A6, \h7486, 32))]

\* Mutant of Spectra: labels of zones twice as wide as they are.
SpectraWide == <<
  Area("definitions", "zone", 3, Addresses(\h730, \h790, 3)),
  Area("definitions", "pgm", 6, Addresses(\h7A0, \h800, 6)),
  Area("labels", "zone", 32, Addresses(\h10, \h210, 16)),
  Labels("pgm", Addresses(\h210, \h310, 16)) >>

\* Panel.mem_map of spectra_magellan
Spectra == <<
  Area("definitions", "zone", 3, Addresses(\h730, \h7A0, 3)),
  Area("definitions", "pgm", 6, Addresses(\h7A0, \h800, 6)),
  Labels("zone", Addresses(\h10, \h210, 16)),
  Labels("pgm", Addresses(\h210, \h310, 16)),
  Labels("partition", Addresses(\h310, \h330, 16)),
  Labels("user", Addresses(\h330, \h530, 16)),
  Labels("module", Addresses(\h530, \h620, 16)),
  Labels("repeater", Addresses(\h620, \h640, 16)),
  Labels("keypad", Addresses(\h640, \h6C0, 16)),
  Labels("site", Addresses(\h6C0, \h6D0, 16)),
  Labels("siren", Addresses(\h6D0, \h700, 16)) >>

Panels == {"evo48", "evo96", "evo192", "evohd", "spectra"}

MemMap(panel) ==
  CASE panel = "evo48" -> EVO48
    [] panel = "evo96" -> EVO96
    [] panel = "evo192" -> EVO192
    [] panel = "evohd" -> EVOHD
    [] panel = "spectra" -> Spectra

\* max_eeprom_response_data_length
MaxResponse(panel) == IF panel = "spectra" THEN 32 ELSE 64

-----------------------------------------------------------------------------

\* No byte of a panel's memory belongs to two fields, except that the definitions of
\* Spectra zones are read up to a number 38, whose three bytes reach into the first
\* output.  The maps are written by hand from ranges with three numbers each.
FieldsDisjoint ==
  \A panel \in Panels :
    LET map == MemMap(panel)
    IN \A i, j \in DOMAIN map : i < j =>
         \A n \in DOMAIN map[i].addresses, m \in DOMAIN map[j].addresses :
           \/ map[i].addresses[n] + map[i].width <= map[j].addresses[m]
           \/ map[j].addresses[m] + map[j].width <= map[i].addresses[n]
           \/ panel = "spectra" /\ map[i].type = "zone" /\ n = 38 /\ m = 1
==============================================================================
