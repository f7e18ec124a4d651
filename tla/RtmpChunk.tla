------------------------------- MODULE RtmpChunk -------------------------------
(***************************************************************************)
(* One direction of an RTMP connection: RtmpEncoder cuts messages into     *)
(* chunks whose headers are compressed against the previous header of the  *)
(* same chunk channel, RtmpDecoder puts them together again.  Both ends    *)
(* keep one header per channel, and nothing tells one end what the other   *)
(* keeps.  A chunk is a record of the fields its header carries and the    *)
(* number of payload bytes; bytes themselves are not modelled.             *)
(*                                                                         *)
(* The 24-bit time field is scaled: values below Half stand for 0..2^23-1, *)
(* 2 * Half - 1 for MAX_NORMAL_HEADER_TIME.                                *)
(***************************************************************************)
EXTENDS Integers, Sequences, FiniteSetsExt

CONSTANTS
  Channels,     \* chunk channels that carry media
  MediaTypes,   \* message types of media: audio, video, ...
  Times,        \* timestamps of media messages
  Sizes,        \* payload sizes of media messages
  StreamIds,    \* message stream ids of media messages, all positive
  FirstChunk,   \* the chunk size both ends start with (128 in the code)
  ChunkSizes,   \* the chunk sizes a ChunkSize message may set
  Half,         \* the sign bit of the time field
  MaxMessages,  \* bound on the messages sent
  None

ControlChannel == 2

\* What the decoder keeps of a header.
Headers ==
  [fmt: {"large", "medium", "small"}, time: Int, delta: Int, size: Sizes \cup {1},
   type: MediaTypes \cup {"chunkSize", "begin"}, stream: StreamIds \cup {0}]

\* Channels, chunk sizes and stream ids are positive, media are not control
\* messages, and a null is no value.
ASSUME ChunkAssumption ==
  /\ ControlChannel \notin Channels
  /\ {FirstChunk, Half} \cup ChunkSizes \cup StreamIds \subseteq Nat \ {0}
  /\ Times \cup Sizes \subseteq Nat
  /\ MediaTypes \cap {"chunkSize", "begin"} = {}
  /\ None \notin Int /\ None \notin Headers

MaxNormalHeaderTime == 2 * Half - 1

\* Messages.  ChunkSize and Control go on channel 2 of stream 0 at time 0 (their
\* bodies count as one byte); "begin" is Control.streamBegin.
Message(ch, t, time, size, stream, value) ==
  [channel |-> ch, type |-> t, time |-> time, size |-> size, stream |-> stream, value |-> value]
Media ==
  {Message(ch, t, time, size, i, None) :
     ch \in Channels, t \in MediaTypes, time \in Times, size \in Sizes, i \in StreamIds}
Control ==
  {Message(ControlChannel, "chunkSize", 0, 1, 0, n) : n \in ChunkSizes}
    \cup {Message(ControlChannel, "begin", 0, 1, 0, None)}

AllChannels == Channels \cup {ControlChannel}

VARIABLES
  chunkSize,   \* RtmpEncoder.chunkSize
  prevHeaders, \* RtmpEncoder.channelPrevHeaders
  sent,        \* the messages given to the encoder, in order
  due,         \* those of them that leave a trace on the wire
  wire,        \* the chunks between the two ends
  decoderChunk,\* RtmpDecoder.chunkSize
  incomplete,  \* RtmpDecoder.incompleteHeaders
  missing,     \* bytes each incompletePayload still lacks, None without one
  clock,       \* the time of RtmpDecoder.completedHeaders
  received,    \* the messages the decoder put out, in order
  broken       \* the decoder threw

vars == <<chunkSize, prevHeaders, sent, due, wire, decoderChunk, incomplete, missing,
          clock, received, broken>>
encoderVars == <<chunkSize, prevHeaders, sent, due>>
decoderVars == <<decoderChunk, incomplete, missing, clock, received, broken>>

Init ==
  /\ chunkSize = FirstChunk
  /\ prevHeaders = [ch \in AllChannels |-> None]
  /\ sent = <<>> /\ due = <<>>
  /\ wire = <<>>
  /\ decoderChunk = FirstChunk
  /\ incomplete = [ch \in AllChannels |-> None]
  /\ missing = [ch \in AllChannels |-> None]
  /\ clock = [ch \in AllChannels |-> None]
  /\ received = <<>>
  /\ broken = FALSE

-----------------------------------------------------------------------------
(* RtmpEncoder.encode.                                                     *)

\* The header type chosen against the previous header of the channel.
HeaderType(m, prev) ==
  IF prev # None /\ m.stream > 0 /\ m.time > 0
  THEN IF m.size = prev.size THEN "small" ELSE "medium"
  ELSE "large"

\* Mutant of DeltaTime: the operands swapped.
DeltaTimeSwapped(m, prev) == Max({0, prev.time - m.time})

\* A negative difference is sent as zero.
DeltaTime(m, prev) == Max({0, m.time - prev.time})

\* RtmpHeader.encode: the fields each header type carries.
Header(m, prev) ==
  LET h == HeaderType(m, prev) IN
  [fmt     |-> h,
   channel |-> m.channel,
   stamp   |-> IF h = "large" THEN m.time ELSE DeltaTime(m, prev),
   size    |-> IF h = "small" THEN None ELSE m.size,
   type    |-> IF h = "small" THEN None ELSE m.type,
   stream  |-> IF h = "large" THEN m.stream ELSE None]
TinyHeader(ch) ==
  [fmt |-> "tiny", channel |-> ch, stamp |-> None, size |-> None, type |-> None,
   stream |-> None]

\* Mutant of Chunks: a last, partial chunk is dropped.
ChunksWholeOnly(m, prev, n) ==
  [i \in 1..(m.size \div n) |->
    [header  |-> IF i = 1 THEN Header(m, prev) ELSE TinyHeader(m.channel),
     payload |-> n,
     value   |-> m.value]]

\* The loop over the payload: nothing at all for an empty one.
Chunks(m, prev, n) ==
  [i \in 1..((m.size + n - 1) \div n) |->
    [header  |-> IF i = 1 THEN Header(m, prev) ELSE TinyHeader(m.channel),
     payload |-> Min({n, m.size - (i - 1) * n}),
     value   |-> m.value]]

\* Mutant of Encode: the chunk size message itself goes out, the size stays.
EncodeKeepsChunkSize(m) ==
  LET prevs == IF m.type = "begin" THEN [ch \in AllChannels |-> None] ELSE prevHeaders
  IN
  /\ Len(sent) < MaxMessages
  /\ prevHeaders' = [prevs EXCEPT ![m.channel] = [time |-> m.time, size |-> m.size]]
  /\ wire' = wire \o Chunks(m, prevs[m.channel], chunkSize)
  /\ sent' = Append(sent, m)
  /\ due' = IF m.size > 0 THEN Append(due, m) ELSE due
  /\ UNCHANGED <<chunkSize, decoderVars>>

\* The header is remembered even when nothing of the message is put out.
Encode(m) ==
  LET n     == IF m.type = "chunkSize" THEN m.value ELSE chunkSize
      prevs == IF m.type = "begin" THEN [ch \in AllChannels |-> None] ELSE prevHeaders
  IN
  /\ Len(sent) < MaxMessages
  /\ chunkSize' = n
  /\ prevHeaders' = [prevs EXCEPT ![m.channel] = [time |-> m.time, size |-> m.size]]
  /\ wire' = wire \o Chunks(m, prevs[m.channel], n)
  /\ sent' = Append(sent, m)
  /\ due' = IF m.size > 0 THEN Append(due, m) ELSE due
  /\ UNCHANGED decoderVars

-----------------------------------------------------------------------------
(* RtmpDecoder.decode, one chunk at a time.                                *)

\* readMedium is signed.
SignedMedium(v) == IF v >= Half THEN v - 2 * Half ELSE v

\* The constructor RtmpHeader(in, incompleteHeaders).
DecodedHeader(h, prev) ==
  CASE h.fmt = "large" ->
         [fmt |-> "large", time |-> SignedMedium(h.stamp), delta |-> 0,
          size |-> h.size, type |-> h.type, stream |-> h.stream]
    [] h.fmt = "medium" ->
         [fmt |-> "medium", time |-> 0, delta |-> SignedMedium(h.stamp),
          size |-> h.size, type |-> h.type, stream |-> prev.stream]
    [] h.fmt = "small" ->
         [prev EXCEPT !.fmt = "small", !.time = 0, !.delta = SignedMedium(h.stamp)]
    [] h.fmt = "tiny" -> prev

\* A header that leans on one the decoder never got is a null reference.  A
\* 24-bit field of all ones reads as -1, not MAX_NORMAL_HEADER_TIME: the four
\* bytes of the extended time stay in the input and are taken for a payload.
Undecodable(h) ==
  \/ h.fmt # "large" /\ incomplete[h.channel] = None
  \/ h.fmt # "tiny" /\ h.stamp >= MaxNormalHeaderTime

DecodeFails ==
  /\ wire # <<>> /\ ~broken
  /\ Undecodable(Head(wire).header)
  /\ broken' = TRUE
  /\ UNCHANGED <<encoderVars, wire, decoderChunk, incomplete, missing, clock, received>>

\* How many bytes the decoder takes after the header hdr.
Wanted(ch, hdr) ==
  Min({IF missing[ch] = None THEN hdr.size ELSE missing[ch], decoderChunk})

\* Mutant of KeepHeader: only a whole header is kept.
KeepLargeHeader(ch, hdr) ==
  incomplete' = [incomplete EXCEPT ![ch] =
    IF missing[ch] = None /\ hdr.fmt = "large" THEN hdr ELSE @]

\* incompleteHeaders[channelId] = header, on the first chunk of a message.
KeepHeader(ch, hdr) ==
  incomplete' = [incomplete EXCEPT ![ch] = IF missing[ch] = None THEN hdr ELSE @]

\* The payload is complete: the time is worked out and the message handed on.
Complete(ch, hdr, value) ==
  LET time == IF hdr.fmt = "large" THEN hdr.time ELSE clock[ch] + hdr.delta
      set  == hdr.type = "chunkSize"
  IN
  /\ missing' = [missing EXCEPT ![ch] = None]
  /\ clock' = [clock EXCEPT ![ch] = time]
  /\ received' = Append(received, Message(ch, hdr.type, time, hdr.size, hdr.stream, value))
  /\ decoderChunk' = IF set THEN value ELSE decoderChunk

Decode ==
  /\ wire # <<>> /\ ~broken
  /\ ~Undecodable(Head(wire).header)
  /\ LET ch   == Head(wire).header.channel
         hdr  == DecodedHeader(Head(wire).header, incomplete[ch])
         left == IF missing[ch] = None THEN hdr.size ELSE missing[ch]
         n    == Wanted(ch, hdr)
     IN
     /\ n = Head(wire).payload      \* InStep: this always holds
     /\ KeepHeader(ch, hdr)
     /\ \/ /\ n < left              \* more chunks remain
           /\ missing' = [missing EXCEPT ![ch] = left - n]
           /\ UNCHANGED <<clock, received, decoderChunk>>
        \/ /\ n = left
           /\ Complete(ch, hdr, Head(wire).value)
  /\ wire' = Tail(wire)
  /\ UNCHANGED <<encoderVars, broken>>

Next == (\E m \in Media \cup Control : Encode(m)) \/ Decode \/ DecodeFails

Spec == Init /\ [][Next]_vars

-----------------------------------------------------------------------------
(* Properties.                                                             *)

\* m may follow p on its channel: a message whose header is compressed must
\* keep the stream and not go back in time, and have p's type if it has p's size.
Follows(p, m) ==
  m.time > 0 =>
    /\ m.time >= p.time
    /\ m.stream = p.stream
    /\ m.size = p.size => m.type = p.type

\* The p-th of them is the last on ch among the first n.
LastOn(p, ch, n) ==
  /\ p \in 1 .. n /\ due[p].channel = ch
  /\ \A q \in p + 1 .. n : due[q].channel # ch

\* The messages sent on ch are among those the compression can carry.
Clean(ch) ==
  /\ \A i \in DOMAIN sent : sent[i].channel = ch => sent[i].size > 0 /\ sent[i].time < Half
  /\ \A i \in DOMAIN due : \A p \in 1 .. i - 1 :
       due[i].channel = ch /\ LastOn(p, ch, i - 1) => Follows(due[p], due[i])

\* What the decoder puts out on a clean channel is what was given to the
\* encoder, message by message, whatever happens on the other channels, at
\* chunk size changes and at the clearing of the encoder's headers.
\* (RtmpEncoder.encode, RtmpHeader, RtmpDecoder.decode)
RoundTrip ==
  /\ Len(received) <= Len(due)
  /\ \A i \in DOMAIN received : Clean(due[i].channel) => received[i] = due[i]

\* If every channel is clean the decoder never fails, and once the wire is
\* empty it has put out everything. (RtmpEncoder.encode, RtmpDecoder.decode)
NothingLost ==
  (\A ch \in AllChannels : Clean(ch)) =>
    ~broken /\ (wire = <<>> => Len(received) = Len(due))

\* As long as it can decode, the decoder takes from the input exactly the bytes
\* the encoder put behind each header: the two ends agree on sizes and on the
\* chunk size at every chunk, though the encoder changes them ahead of the
\* wire. (RtmpEncoder.encode, RtmpDecoder.decode)
InStep ==
  wire # <<>> /\ ~broken /\ ~Undecodable(Head(wire).header) =>
    LET h == Head(wire).header
    IN Wanted(h.channel, DecodedHeader(h, incomplete[h.channel])) = Head(wire).payload

\* Times that go back cost accuracy in one direction only: with all times in
\* the positive half of the field, no message arrives with a time before its
\* own. (RtmpEncoder.encode's "negative time" branch, RtmpDecoder.decode)
NeverEarly ==
  (\A i \in DOMAIN sent : sent[i].time < Half /\ sent[i].size > 0) =>
    \A i \in DOMAIN received : received[i].time >= due[i].time
=============================================================================
