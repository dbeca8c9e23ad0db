---------------------------- MODULE SerialFraming ---------------------------
(***************************************************************************)
(* SerialConnectionProtocol.data_received (connections/protocols.py): the  *)
(* bytes of the serial line come in pieces of any length, possibly after   *)
(* bytes that belong to no message, and frames are cut from them by the    *)
(* length their first bytes announce and by their checksum.                *)
(*                                                                         *)
(* connect() sets the mode from the panel object it makes before the panel *)
(* is known; the object of a Spectra panel, made later, asks for frames of *)
(* 37 bytes, but nobody tells the protocol: use_variable_message_length    *)
(* stays TRUE for every panel.                                             *)
(***************************************************************************)
EXTENDS Messages

CONSTANTS Noise,    \* sequences of bytes that may precede the first message
          Pieces,   \* lengths in which the bytes may arrive
          Content   \* the byte all contents consist of

VARIABLES sent,       \* what is on the line: noise, then two messages
          incoming,   \* bytes not yet received
          buffer,     \* bytes received and not yet framed
          delivered   \* frames passed to the handler

serialVars == <<sent, incoming, buffer, delivered>>

useVariableMessageLength == TRUE

Sum(bytes) ==
  LET Total[i \in 0..Len(bytes)] == IF i = 0 THEN 0 ELSE Total[i - 1] + bytes[i]
  IN Total[Len(bytes)]

\* calculate_checksum, over everything before it.
WithChecksum(bytes) == Append(bytes, Sum(bytes) % 256)

\* A message as it is on the line: its first three bytes, then contents.
Encoded(m) ==
  LET head == <<16 * m.command + 2, m.second, m.third>>
  IN WithChecksum(head \o [i \in 1..m.bytes - 4 |-> Content])

\* checksum
Valid(frame, minLength) ==
  /\ Len(frame) >= minLength
  /\ Sum(Front(frame)) % 256 = Last(frame)

\* potential_packet_length
PacketLength(b) ==
  CASE ~useVariableMessageLength -> 37
    [] b[1] \div 16 \in {1} \cup 3..9 -> IF b[2] \in 1..71 THEN b[2] ELSE 37
    [] b[1] \div 16 \in {10, 11, 13} -> b[2]
    [] b[1] \div 16 = 12 -> b[2] * 256 + b[3]
    [] b[1] \div 16 = 14 -> IF b[2] < 37 \/ b[2] = 255 THEN 37 ELSE b[2]
    [] OTHER -> 37

\* Mutant of Framed: no loop, one frame at most is cut from what was received.
FramedOnce(bytes) ==
  LET length == PacketLength(bytes)
      frame == SubSeq(bytes, 1, length)
  IN IF Len(bytes) < 4 \/ Len(bytes) < length THEN [frames |-> <<>>, kept |-> bytes]
     ELSE IF Valid(frame, 4)
          THEN [frames |-> <<frame>>, kept |-> SubSeq(bytes, length + 1, Len(bytes))]
          ELSE [frames |-> <<>>, kept |-> Tail(bytes)]

\* The loop of data_received over a buffer: the frames it delivers and the bytes
\* it keeps.  It stops at a frame that is not complete, and drops one byte where
\* the checksum is wrong.
Framed(bytes) ==
  LET minLength == IF useVariableMessageLength THEN 4 ELSE 37
      From[i \in 1..Len(bytes) + 1] ==
        LET b == SubSeq(bytes, i, Len(bytes))
        IN IF Len(b) < minLength THEN [frames |-> <<>>, kept |-> b]
           ELSE LET length == PacketLength(b)
                IN IF Len(b) < length THEN [frames |-> <<>>, kept |-> b]
                   ELSE LET frame == SubSeq(b, 1, length)
                        IN IF Valid(frame, minLength)
                           THEN LET rest == From[i + length]
                                IN [frames |-> <<frame>> \o rest.frames, kept |-> rest.kept]
                           ELSE From[i + 1]
  IN From[1]

Init ==
  \E family \in {"evo", "spectra"}, noise \in Noise :
    \E first \in FromPanel(family), second \in Unsolicited(family) :
      /\ sent = [noise |-> noise, messages |-> <<first, second>>]
      /\ incoming = noise \o Encoded(first) \o Encoded(second)
      /\ buffer = <<>>
      /\ delivered = <<>>

DataReceived(n) ==
  LET framed == Framed(buffer \o SubSeq(incoming, 1, n))
  IN /\ n <= Len(incoming)
     /\ incoming' = SubSeq(incoming, n + 1, Len(incoming))
     /\ buffer' = framed.kept
     /\ delivered' = delivered \o framed.frames
     /\ UNCHANGED sent

Next == \E n \in Pieces : DataReceived(n)

Spec == Init /\ [][Next]_serialVars

-----------------------------------------------------------------------------

\* However the bytes are cut, each message is delivered as it was sent.  After bytes
\* that belong to no message, nothing is lost either: a frame that is not complete
\* may hold messages back, but then they are all in the buffer, in order.
\* This is about the loop of data_received, the lengths it derives from the first
\* bytes, and the sizes of all layouts of both families.
StreamDelivered ==
  incoming = <<>> =>
    LET messages == [i \in 1..2 |-> Encoded(sent.messages[i])]
    IN \E k \in 0..2 :
         /\ delivered = SubSeq(messages, 1, k)
         /\ k < 2 => /\ sent.noise # <<>>
                     /\ IsSuffix(FlattenSeq(SubSeq(messages, k + 1, 2)), buffer)
==============================================================================
