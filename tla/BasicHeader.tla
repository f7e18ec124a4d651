------------------------------ MODULE BasicHeader ------------------------------
(***************************************************************************)
(* The basic header of a chunk: a two-bit header type and the chunk        *)
(* channel in one to three bytes.  A relayed message keeps the channel its *)
(* publisher chose, so a channel makes two trips: from the publisher's     *)
(* bytes (any legal ones) into RtmpHeader, and from there through          *)
(* encodeHeaderTypeAndChannel to a subscriber, once as a whole header and  *)
(* once as the tiny header of a later chunk.                               *)
(***************************************************************************)
EXTENDS Integers, Sequences

CONSTANTS
  FirstBytes, SecondBytes, ThirdBytes   \* the bytes a publisher may send

Byte == 0..255

ASSUME ByteAssumption ==
  /\ FirstBytes \subseteq Byte /\ SecondBytes \subseteq Byte /\ ThirdBytes \subseteq Byte

Tiny == 3

VARIABLES
  bytes,    \* the publisher's basic header
  relayed,  \* the header type and channel the server read from it
  whole,    \* what a subscriber reads from the first chunk the server sends
  tiny      \* what it reads from the next chunk

headerVars == <<bytes, relayed, whole, tiny>>

NotYet == [type |-> 0, channel |-> 0]

\* Mutant of ReadBasicHeader: the three-byte form read big-endian.
ReadBigEndian(b) ==
  [type    |-> b[1] \div 64,
   channel |-> CASE b[1] % 64 = 0 -> 64 + b[2]
                 [] b[1] % 64 = 1 -> 64 + 256 * b[2] + b[3]
                 [] OTHER         -> b[1] % 64]

\* The first lines of RtmpHeader(in, incompleteHeaders).
ReadBasicHeader(b) ==
  [type    |-> b[1] \div 64,
   channel |-> CASE b[1] % 64 = 0 -> 64 + b[2]
                 [] b[1] % 64 = 1 -> 64 + b[2] + 256 * b[3]
                 [] OTHER         -> b[1] % 64]

\* encodeHeaderTypeAndChannel; the casts to byte keep the low eight bits.
WriteBasicHeader(type, channel) ==
  CASE channel <= 63 -> <<64 * type + channel>>
    [] channel \in 64..320 -> <<64 * type, (channel - 64) % 256>>
    [] OTHER -> <<64 * type + 1, (channel - 64) % 256, ((channel - 64) \div 256) % 256>>

HeaderInit ==
  /\ bytes = <<>>
  /\ relayed = NotYet /\ whole = NotYet /\ tiny = NotYet

\* A publisher's header arrives: one, two or three bytes by its first.
Receive ==
  /\ relayed = NotYet
  /\ \E b1 \in FirstBytes, b2 \in SecondBytes, b3 \in ThirdBytes :
       bytes' = CASE b1 % 64 = 0 -> <<b1, b2>>
                  [] b1 % 64 = 1 -> <<b1, b2, b3>>
                  [] OTHER       -> <<b1>>
  /\ relayed' = ReadBasicHeader(bytes')
  /\ UNCHANGED <<whole, tiny>>

\* The server sends the message on; the header type of the first chunk is the
\* encoder's choice, the later chunks are TINY.
Relay ==
  /\ relayed # NotYet /\ tiny = NotYet
  /\ \E type \in 0..2 :
       whole' = ReadBasicHeader(WriteBasicHeader(type, relayed.channel))
  /\ tiny' = ReadBasicHeader(WriteBasicHeader(Tiny, relayed.channel))
  /\ UNCHANGED <<bytes, relayed>>

HeaderNext == Receive \/ Relay

HeaderSpec == HeaderInit /\ [][HeaderNext]_headerVars

\* Every channel a publisher can name comes through the server unchanged, in
\* whole and in tiny headers, except channel 320, whose offset does not fit the
\* one byte it is given and which comes out as 64.
\* (RtmpHeader, encodeHeaderTypeAndChannel)
ChannelKept ==
  tiny # NotYet =>
    /\ whole.channel = IF relayed.channel = 320 THEN 64 ELSE relayed.channel
    /\ tiny = [type |-> Tiny, channel |-> whole.channel]
    /\ whole.type # Tiny
=============================================================================
