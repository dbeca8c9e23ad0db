------------------------------- MODULE Messages -----------------------------
(***************************************************************************)
(* The messages PAI exchanges with a panel: their layouts                  *)
(* (hardware/parsers.py, hardware/evo/parsers.py and                       *)
(* hardware/spectra_magellan/parsers.py), which reply send_wait expects to *)
(* which request, and how parse_message of each panel picks the layout of  *)
(* a message it got.  A layout is the list of the widths of its fields in  *)
(* bytes, checksum included; of the contents only the bytes that framing   *)
(* and parse_message look at are kept.                                     *)
(***************************************************************************)
EXTENDS Integers, SequencesExt

Size(fields) == FoldLeft(LAMBDA sum, width : sum + width, 0, fields)

\* A message with its command (the high half of the first byte) and the second
\* byte, of which some layouts keep the size.
Message(name, command, second, fields) ==
  [name |-> name, command |-> command, second |-> second, third |-> 0,
   bytes |-> Size(fields)]

\* PacketLength
Sized(name, command, fields) == Message(name, command, Size(fields), fields)

\* hardware/parsers.py
InitiateCommunication == Message("InitiateCommunication", 7, 0, <<1, 35, 1>>)
InitiateCommunicationResponse ==
  Message("InitiateCommunicationResponse", 7, 255,
          <<1, 1, 1, 3, 1, 1, 1, 3, 4, 2, 6, 1, 1, 2, 8, 1>>)
StartCommunication == Message("StartCommunication", 5, 32, <<1, 1, 31, 1, 2, 1>>)
StartCommunicationResponse ==
  Message("StartCommunicationResponse", 0, 0, <<1, 3, 1, 3, 2, 5, 7, 14, 1>>)

-----------------------------------------------------------------------------
(* hardware/evo/parsers.py *)

EvoLogin == Message("InitializeCommunication", 0, 0,
                    <<1, 1, 2, 1, 3, 2, 2, 1, 1, 3, 4, 9, 4, 1, 1, 1>>)
EvoLoginResponse == Sized("LoginConfirmationResponse", 1, <<1, 1, 1, 2, 1>>)
EvoLiveEvent == Message("LiveEvent", 14, 255, <<1, 1, 2, 6, 4, 4, 1, 16, 1, 1>>)
EvoErrorMessage == Sized("ErrorMessage", 7, <<1, 1, 1, 1>>)
EvoReadEEPROM == Sized("ReadEEPROM", 5, <<1, 1, 1, 1, 2, 1, 1>>)
EvoReadEEPROMResponse(length) ==
  Sized("ReadEEPROMResponse", 5, <<1, 1, 1, 1, 2, length, 1>>)
EvoSetTimeDate == Sized("SetTimeDate", 3, <<1, 1, 4, 6, 1>>)
EvoSetTimeDateResponse == Sized("SetTimeDateResponse", 3, <<1, 1, 4, 1>>)
EvoPartitionAction == Sized("PerformPartitionAction", 4, <<1, 1, 4, 4, 1, 3, 1>>)
EvoActionResponse == Sized("PerformActionResponse", 4, <<1, 1, 4, 1>>)
EvoZoneAction == Sized("PerformZoneAction", 13, <<1, 1, 1, 1, 2, 24, 1>>)
EvoZoneActionResponse == Sized("PerformZoneActionResponse", 13, <<1, 1, 1, 1, 2, 1>>)
EvoPGMAction == Sized("PerformPGMAction", 4, <<1, 1, 1, 3, 4, 4, 1, 3, 1>>)
EvoPanic == Sized("SendPanicAction", 4, <<1, 1, 1, 3, 2, 1, 1, 1>>)
EvoDoorAction == Sized("PerformDoorAction", 4, <<1, 1, 1, 3, 4, 1, 2, 1, 2, 1>>)

\* What PAI asks an EVO panel (evo/panel.py): the request, the commands that
\* reply_expected names, and the reply.
EvoExchanges ==
  LET Asked(request, expected, reply) ==
        [request |-> request, expected |-> expected, reply |-> reply]
  IN {Asked(EvoLogin, {1, 0}, EvoLoginResponse),
      Asked(EvoSetTimeDate, {3}, EvoSetTimeDateResponse),
      Asked(EvoPartitionAction, {4}, EvoActionResponse),
      Asked(EvoZoneAction, {13}, EvoZoneActionResponse),
      Asked(EvoPGMAction, {4}, EvoActionResponse),
      Asked(EvoDoorAction, {4}, EvoActionResponse),
      Asked(EvoPanic, {4}, EvoActionResponse)}
     \cup {Asked(EvoReadEEPROM, {5}, EvoReadEEPROMResponse(length)) :
             length \in {1, 10, 16, 30, 31, 32, 64}}

\* Panel_EVOBase.parse_message of a message from the panel.
EvoParsed(m) ==
  CASE m.command = 7 -> "ErrorMessage"
    [] m.command = 1 -> "LoginConfirmationResponse"
    [] m.command = 3 -> "SetTimeDateResponse"
    [] m.command = 4 -> "PerformActionResponse"
    [] m.command = 13 -> "PerformZoneActionResponse"
    [] m.command = 5 -> "ReadEEPROMResponse"
    [] m.command = 14 -> IF m.second = 255 THEN "LiveEvent" ELSE "RequestedEvent"
    [] OTHER -> "none"

-----------------------------------------------------------------------------
(* hardware/spectra_magellan/parsers.py *)

SpectraLogin ==
  Message("InitializeCommunication", 0, 0, <<1, 3, 1, 3, 2, 2, 1, 1, 4, 15, 1, 2, 1>>)
SpectraLoginResponse ==
  Message("InitializeCommunicationResponse", 1, 0, <<1, 2, 1, 1, 31, 1>>)
\* The second byte of a live event is the century of its time.
SpectraLiveEvent == Message("LiveEvent", 14, 20, <<1, 6, 2, 1, 4, 1, 16, 1, 4, 1>>)
SpectraErrorMessage == Message("ErrorMessage", 7, 0, <<1, 1, 1, 33, 1>>)
SpectraReadEEPROM == Message("ReadEEPROM", 5, 0, <<1, 1, 2, 29, 1, 2, 1>>)
SpectraReadEEPROMResponse == Message("ReadEEPROMResponse", 5, 0, <<1, 1, 2, 32, 1>>)
SpectraReadStatusResponse ==
  [Message("ReadStatusResponse", 5, 0, <<1, 1, 1, 1, 32, 1>>) EXCEPT !.third = 128]
SpectraSetTimeDate == Message("SetTimeDate", 3, 0, <<1, 3, 6, 23, 1, 2, 1>>)
SpectraSetTimeDateResponse == Message("SetTimeDateResponse", 3, 0, <<1, 35, 1>>)
SpectraAction == Message("PerformAction", 4, 0, <<1, 1, 1, 1, 1, 28, 1, 2, 1>>)
SpectraActionResponse == Message("PerformActionResponse", 4, 0, <<1, 1, 1, 33, 1>>)
SpectraPanic == Message("SendPanicAction", 4, 37, <<1, 1, 1, 1, 1, 1, 26, 1, 1, 2, 1>>)

\* What PAI asks a Spectra or Magellan panel (spectra_magellan/panel.py).  The
\* expected 0x10 and 0x70 are whole bytes; only the layout of the login reply has
\* its command there as a whole byte, written 1 here like its high half.
SpectraExchanges ==
  LET Asked(request, expected, reply) ==
        [request |-> request, expected |-> expected, reply |-> reply]
  IN {Asked(SpectraLogin, {1, 0}, SpectraLoginResponse),
      Asked(SpectraSetTimeDate, {3}, SpectraSetTimeDateResponse),
      Asked(SpectraReadEEPROM, {5}, SpectraReadEEPROMResponse),
      Asked(SpectraReadEEPROM, {5}, SpectraReadStatusResponse),
      Asked(SpectraAction, {4}, SpectraActionResponse),
      Asked(SpectraPanic, {4}, SpectraActionResponse)}

\* Mutant of SpectraParsed: a status block is taken for a memory read.
SpectraParsedByCommand(m) ==
  CASE m.command = 1 -> "InitializeCommunicationResponse"
    [] m.command = 7 -> "ErrorMessage"
    [] m.command = 3 -> "SetTimeDateResponse"
    [] m.command = 4 -> "PerformActionResponse"
    [] m.command = 5 -> "ReadEEPROMResponse"
    [] m.command = 14 -> "LiveEvent"
    [] OTHER -> "none"

\* parse_message of the Spectra panel, of a message from the panel.
SpectraParsed(m) ==
  CASE m.command = 1 -> "InitializeCommunicationResponse"
    [] m.command = 7 -> "ErrorMessage"
    [] m.command = 3 -> "SetTimeDateResponse"
    [] m.command = 4 -> "PerformActionResponse"
    [] m.command = 5 /\ m.third = 128 -> "ReadStatusResponse"
    [] m.command = 5 /\ m.third < 128 -> "ReadEEPROMResponse"
    [] m.command = 14 -> "LiveEvent"
    [] OTHER -> "none"

-----------------------------------------------------------------------------
(* Both panels *)

\* Paradox.connect: the first two exchanges, before the panel is known.
FirstExchanges ==
  {[request |-> InitiateCommunication, expected |-> {7},
    reply |-> InitiateCommunicationResponse],
   [request |-> StartCommunication, expected |-> {0},
    reply |-> StartCommunicationResponse]}

Exchanges(family) ==
  FirstExchanges \cup IF family = "evo" THEN EvoExchanges ELSE SpectraExchanges

\* What a panel sends without being asked.
Unsolicited(family) ==
  IF family = "evo" THEN {EvoLiveEvent, EvoErrorMessage}
                    ELSE {SpectraLiveEvent, SpectraErrorMessage}

\* Everything a panel of this family sends to PAI.
FromPanel(family) == {x.reply : x \in Exchanges(family)} \cup Unsolicited(family)

\* Panel.parse_message knows the first two replies; the panels ask it first.
Parsed(family, m) ==
  CASE m.command = 7 /\ m.second = 255 -> "InitiateCommunicationResponse"
    [] m.command = 0 -> "StartCommunicationResponse"
    [] OTHER -> CASE family = "evo" -> EvoParsed(m)
                  [] family = "spectra" -> SpectraParsed(m)
                  [] OTHER -> "none"

\* Every request is of the 37 bytes panels take it to have, or says its length;
\* its reply is parsed as what it is and has a command that is expected; and no
\* message that comes by itself is taken for the reply, also not before the panel
\* is known, when an error message has the command InitiateCommunication expects.
\* The request layouts, reply_expected and parse_message are written in three
\* places of the code; no test sends one through the other.
RepliesRecognised ==
  \A family \in {"evo", "spectra"} : \A x \in Exchanges(family) :
    LET known == IF x \in FirstExchanges THEN "unknown" ELSE family
    IN /\ x.request.bytes = 37 \/ x.request.second = x.request.bytes
       /\ Parsed(known, x.reply) = x.reply.name
       /\ x.reply.command \in x.expected
       /\ \A m \in Unsolicited(family) :
            Parsed(known, m) = "none" \/ m.command \notin x.expected
==============================================================================
