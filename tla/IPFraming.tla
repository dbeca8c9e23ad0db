------------------------------ MODULE IPFraming -----------------------------
(***************************************************************************)
(* IPConnectionProtocol.data_received (connections/protocols.py): messages *)
(* of the IP module come in TCP segments, merged or cut.  Each message is  *)
(* a header and an encrypted payload, both padded to blocks of 16 bytes    *)
(* (connections/ip/parsers.py).  Bytes are counted, not kept; only the     *)
(* first byte of a message is taken to be 0xAA where a buffer can begin.   *)
(***************************************************************************)
EXTENDS Integers, Sequences

CONSTANTS Lengths,     \* payload lengths
          MaxMessages, \* messages on the line
          Cuts         \* how many bytes before the end of a message a segment may end

VARIABLES lengths,     \* the payload lengths of the messages (never changes)
          received,    \* bytes received
          start,       \* where the buffer begins
          ends,        \* where segments ended
          delivered,   \* messages given to the handler, and whether whole
          failed       \* data_received raised, and asyncio closed the transport

ipVars == <<lengths, received, start, ends, delivered, failed>>

\* IPMessageResponse: header and payload, each Aligned(16).
MessageSize(length) == 16 + 16 * ((length + 15) \div 16)

\* Where message i begins; one more than the last is the end of the line.
Begin(i) ==
  LET Sum[n \in 0..MaxMessages] ==
        IF n = 0 THEN 0 ELSE Sum[n - 1] + MessageSize(lengths[n])
  IN Sum[i - 1]

Init ==
  /\ lengths \in [1..MaxMessages -> Lengths]
  /\ received = 0 /\ start = 0 /\ ends = {0}
  /\ delivered = <<>>
  /\ failed = FALSE

\* A new segment ends at byte "to".
Segment(to) ==
  /\ ~failed
  /\ to > received
  /\ received' = to
  /\ ends' = ends \cup {to}
  /\ UNCHANGED lengths

Starts == {Begin(i) : i \in 1..MaxMessages}

\* The message at the front of the buffer.
Current == CHOOSE i \in 1..MaxMessages : Begin(i) = start

\* What the handler gets of the buffer: its first message, as much as has come.
Processed(to) ==
  Append(delivered, [message |-> Current, whole |-> to >= Begin(Current + 1)])

\* "Dangling data": the buffer does not begin with a message.
Dangling(to) ==
  /\ Segment(to) /\ start \notin Starts
  /\ start' = to
  /\ UNCHANGED <<delivered, failed>>

\* buffer[1] of a buffer of one byte.
IndexError(to) ==
  /\ Segment(to) /\ start \in Starts /\ to - start = 1
  /\ failed' = TRUE
  /\ UNCHANGED <<start, delivered>>

\* Mutant of Incomplete: the second test is missing.
IncompleteByLength(to) == to - received + 16 < lengths[Current]

\* The tests that make data_received wait: the length of the last segment, not of
\* the buffer, against that of the payload, and whole blocks.
Incomplete(to) ==
  \/ to - received + 16 < lengths[Current]
  \/ (to - start) % 16 # 0

Wait(to) ==
  /\ Segment(to) /\ start \in Starts /\ to - start > 1
  /\ Incomplete(to)
  /\ UNCHANGED <<start, delivered, failed>>

\* The first message is decrypted with everything behind it, and all of it dropped.
Process(to) ==
  /\ Segment(to) /\ start \in Starts /\ to - start > 1
  /\ ~Incomplete(to)
  /\ start' = to
  /\ delivered' = Processed(to)
  /\ UNCHANGED failed

Next ==
  \E i \in 1..MaxMessages : \E n \in {n \in Cuts : n < MessageSize(lengths[i])} :
    LET to == Begin(i + 1) - n
    IN Dangling(to) \/ IndexError(to) \/ Wait(to) \/ Process(to)

Spec == Init /\ [][Next]_ipVars

-----------------------------------------------------------------------------

\* The handler gets messages in the order they were sent, none twice, and none cut
\* off, unless a segment ended inside it between two of its blocks: with such a cut
\* the tests of data_received pass on what has come so far.  This is what is left
\* of "one message at a time" although data_received compares the last segment with
\* the length and throws away what follows a message.
OnlyWholeMessages ==
  \A k \in DOMAIN delivered :
    LET i == delivered[k].message
    IN /\ \A l \in 1..k - 1 : delivered[l].message < i
       /\ \/ delivered[k].whole
          \/ \E to \in ends : /\ Begin(i) < to /\ to < Begin(i + 1)
                              /\ (to - Begin(i)) % 16 = 0
==============================================================================
