---------------------------- MODULE RtmpChunkProofs ----------------------------
(***************************************************************************)
(* What the two ends of the chunk codec agree on, proved for any channels, *)
(* message types, times, sizes and chunk sizes, and any number of messages *)
(* and chunks on their way.                                                *)
(***************************************************************************)
EXTENDS RtmpChunk, BasicHeader, SequenceTheorems, TLAPS

Types == MediaTypes \cup {"chunkSize", "begin"}
Messages == Media \cup Control
Whole == {m \in Messages : m.size > 0}

Decoded ==
  [channel: AllChannels, type: Types, time: Int, size: Nat, stream: Nat,
   value: ChunkSizes \cup {None}]

ChunkHeaders ==
  [fmt: {"large", "medium", "small", "tiny"}, channel: AllChannels, stamp: Nat \cup {None},
   size: Nat \cup {None}, type: Types \cup {None}, stream: Nat \cup {None}]

ChunksOnWire == [header: ChunkHeaders, payload: Nat, value: ChunkSizes \cup {None}]

\* The types.  What is due was sent, and is not empty.
TypeInv ==
  /\ chunkSize \in Nat \ {0} /\ decoderChunk \in Nat \ {0} /\ broken \in BOOLEAN
  /\ prevHeaders \in [AllChannels -> [time: Nat, size: Nat] \cup {None}]
  /\ incomplete \in [AllChannels -> Headers \cup {None}]
  /\ missing \in [AllChannels -> Nat \cup {None}]
  /\ clock \in [AllChannels -> Int \cup {None}]
  /\ sent \in Seq(Messages) /\ wire \in Seq(ChunksOnWire) /\ received \in Seq(Decoded)
  /\ due \in Seq(Whole)
  /\ \A i \in DOMAIN due : \E j \in DOMAIN sent : sent[j] = due[i]

\* No message sent on ch was empty; nor did it have a time that reads as negative.
Solid(ch) == \A i \in DOMAIN sent : sent[i].channel = ch => sent[i].size > 0
Sound(ch) == \A i \in DOMAIN sent : sent[i].channel = ch => sent[i].size > 0 /\ sent[i].time < Half

\* The encoder's previous header is that of the last message on the channel,
\* which is due unless it was empty.
EncoderInv ==
  \A ch \in AllChannels : prevHeaders[ch] # None =>
    /\ prevHeaders[ch].size > 0 =>
         \E p \in DOMAIN due : /\ LastOn(p, ch, Len(due))
                               /\ due[p].size = prevHeaders[ch].size
                               /\ due[p].time = prevHeaders[ch].time
    /\ prevHeaders[ch].size = 0 => ~Solid(ch)

\* A header compressed against the message before, and a true header of the
\* i-th message.
Compressed(h, i) ==
  /\ due[i].stream > 0 /\ due[i].time > 0 /\ h.stamp \in Nat
  /\ Solid(due[i].channel) =>
       \E p \in 1 .. i - 1 : /\ LastOn(p, due[i].channel, i - 1)
                             /\ h.stamp = DeltaTime(due[i], due[p])

TrueHeader(h, i) ==
  LET m == due[i] IN
  /\ h.channel = m.channel
  /\ \/ /\ h.fmt = "large" /\ h.stamp = m.time
        /\ h.size = m.size /\ h.type = m.type /\ h.stream = m.stream
     \/ /\ h.fmt = "medium" /\ Compressed(h, i)
        /\ h.size = m.size /\ h.type = m.type
     \/ /\ h.fmt = "small" /\ Compressed(h, i)
        /\ \E p \in 1 .. i - 1 : LastOn(p, m.channel, i - 1) /\ due[p].size = m.size

\* A place in the stream of chunks: the message it is of, whether it is its
\* first, the bytes that are left of it from there, and the chunk size the
\* decoder will have when it comes to it.
Places == [of: Nat \ {0}, first: BOOLEAN, left: Nat, size: Nat \ {0}]

\* The chunk c lies at the place e, and f is the place behind it.
Link(e, c, f) ==
  LET m == due[e.of] IN
  /\ e.of \in DOMAIN due
  /\ 0 < e.left /\ e.left <= m.size /\ (e.first => e.left = m.size)
  /\ c.value = m.value
  /\ c.payload = IF e.left <= e.size THEN e.left ELSE e.size
  /\ e.first => TrueHeader(c.header, e.of)
  /\ ~e.first => c.header = TinyHeader(m.channel)
  /\ e.left <= e.size => /\ f.of = e.of + 1 /\ f.first
                         /\ f.size = IF m.type = "chunkSize" THEN m.value ELSE e.size
  /\ ~(e.left <= e.size) => /\ f.of = e.of /\ ~f.first
                            /\ f.left = e.left - e.size /\ f.size = e.size

\* A book of the places of all chunks on the wire and of the one behind them,
\* which is where the encoder is.
Book(b) ==
  /\ b \in [1 .. Len(wire) + 1 -> Places]
  /\ \A j \in 1 .. Len(wire) : Link(b[j], wire[j], b[j + 1])
  /\ LET end == b[Len(wire) + 1]
     IN  end.of = Len(due) + 1 /\ end.first /\ end.size = chunkSize

\* The last message the decoder has begun at e.
Begun(e) == IF e.first THEN e.of - 1 ELSE e.of

\* The time a header kept for a channel will give.
TimeOf(hdr, ch) == IF hdr.fmt = "large" THEN hdr.time ELSE clock[ch] + hdr.delta

\* What the decoder keeps of the last message it began on a channel; on a clean
\* one, its type and stream too.
Keeps(e) ==
  \A ch \in AllChannels : \A q \in 1 .. Begun(e) : LastOn(q, ch, Begun(e)) =>
    /\ incomplete[ch] \in Headers /\ incomplete[ch].size = due[q].size
    /\ ch \in Channels => incomplete[ch].type \in MediaTypes
    /\ ch = ControlChannel \/ Clean(ch) => /\ incomplete[ch].type = due[q].type
                                           /\ incomplete[ch].stream = due[q].stream

\* A channel whose header counts from the last time has a last time.
Clocked ==
  \A ch \in AllChannels :
    incomplete[ch] # None /\ (missing[ch] = None \/ incomplete[ch].fmt # "large")
      => clock[ch] \in Int

\* The times of the channel: that of the last message completed, that of the
\* one begun, and those of all put out.
TimesKept(e) ==
  \A ch \in AllChannels :
    /\ Sound(ch) =>
         /\ \A q \in 1 .. e.of - 1 : LastOn(q, ch, e.of - 1) => clock[ch] >= due[q].time
         /\ ~e.first /\ ch = due[e.of].channel
              => TimeOf(incomplete[ch], ch) >= due[e.of].time
         /\ \A i \in DOMAIN received :
              due[i].channel = ch => received[i].time >= due[i].time
    /\ Clean(ch) =>
         /\ \A q \in 1 .. e.of - 1 : LastOn(q, ch, e.of - 1) => clock[ch] = due[q].time
         /\ ~e.first /\ ch = due[e.of].channel
              => TimeOf(incomplete[ch], ch) = due[e.of].time
         /\ \A i \in DOMAIN received : due[i].channel = ch => received[i] = due[i]

\* The decoder is at e.
DecoderAt(e) ==
  /\ Len(received) = e.of - 1 /\ e.of - 1 <= Len(due) /\ decoderChunk = e.size
  /\ ~e.first => e.of \in DOMAIN due /\ 0 < e.left
  /\ missing = [ch \in AllChannels |->
       IF ~e.first /\ ch = due[e.of].channel THEN e.left ELSE None]
  /\ Keeps(e) /\ TimesKept(e)

\* It stops only at a channel that is not sound.
BrokenInv == broken => \E ch \in AllChannels : ~Sound(ch)

IInv ==
  /\ TypeInv /\ EncoderInv /\ Clocked /\ BrokenInv
  /\ \E b \in [1 .. Len(wire) + 1 -> Places] : Book(b) /\ DecoderAt(b[1])

-----------------------------------------------------------------------------
(* Numbers. *)

\* The smaller of two integers.
LEMMA MinOfTwo ==
  ASSUME NEW a \in Int, NEW b \in Int
  PROVE  Min({a, b}) = IF a <= b THEN a ELSE b
<1>1. \E x \in {a, b} : \A y \in {a, b} : x <= y
  OBVIOUS
<1>2. Min({a, b}) \in {a, b} /\ \A y \in {a, b} : Min({a, b}) <= y
  BY <1>1, Zenon DEF Min
<1>3. QED
  BY <1>2

\* An integer, or zero when it is negative.
LEMMA MaxWithZero ==
  ASSUME NEW a \in Int
  PROVE  Max({0, a}) = IF a <= 0 THEN 0 ELSE a
<1>1. \E x \in {0, a} : \A y \in {0, a} : x >= y
  OBVIOUS
<1>2. Max({0, a}) \in {0, a} /\ \A y \in {0, a} : Max({0, a}) >= y
  BY <1>1, Zenon DEF Max
<1>3. QED
  BY <1>2

\* The chunks of a message of this size, and what is left of it at the k-th.
Count(size, n) == (size + n - 1) \div n
Left(size, n, k) == size - (k - 1) * n

\* An empty payload is cut into nothing.
LEMMA NoChunks ==
  ASSUME NEW n \in Nat \ {0}
  PROVE  Count(0, n) = 0
BY DEF Count

\* Otherwise there is a chunk, and the last one is neither empty nor too large.
LEMMA CountBounds ==
  ASSUME NEW size \in Nat \ {0}, NEW n \in Nat \ {0}
  PROVE  /\ Count(size, n) \in Nat \ {0}
         /\ Left(size, n, Count(size, n)) \in 1 .. n
<1> DEFINE a == size + n - 1
           q == a \div n
           r == a % n
<1>1. a \in Nat /\ a >= n
  OBVIOUS
<1>2. q \in Int /\ r \in 0 .. n - 1 /\ a = n * q + r
  BY <1>1
<1> HIDE DEF q, r
<1>3. q > 0
  <2>1. SUFFICES ASSUME q <= 0 PROVE FALSE
    BY <1>2
  <2>2. n * q <= 0
    BY <2>1, <1>2
  <2>3. QED
    BY <2>2, <1>1, <1>2
<1>4. (q - 1) * n = n * q - n
  BY <1>2
<1>5. size - (q - 1) * n = r + 1
  BY <1>2, <1>4
<1>6. QED
  BY <1>2, <1>3, <1>5 DEF Count, Left, q

\* The last chunk takes what is left, the others a whole chunk size.
LEMMA LeftAt ==
  ASSUME NEW size \in Nat \ {0}, NEW n \in Nat \ {0}, NEW k \in 1 .. Count(size, n)
  PROVE  /\ Left(size, n, k) \in Nat \ {0} /\ Left(size, n, k) <= size
         /\ k = 1 => Left(size, n, k) = size
         /\ Left(size, n, k) <= n <=> k = Count(size, n)
         /\ Left(size, n, k + 1) = Left(size, n, k) - n
<1> DEFINE K == Count(size, n)
           last == Left(size, n, K)
<1>1. K \in Nat \ {0} /\ last \in 1 .. n
  BY CountBounds
<1> HIDE DEF K, last
<1>2. k \in Nat \ {0} /\ k <= K
  BY <1>1 DEF K
<1>3. PICK x \in Nat : x = (K - k) * n
  <2>1. K - k \in Nat
    BY <1>1, <1>2
  <2>2. QED
    BY <2>1
<1>4. PICK y \in Nat : y = (k - 1) * n
  <2>1. k - 1 \in Nat
    BY <1>2
  <2>2. QED
    BY <2>1
<1>5. (K - 1) * n = x + y
  <2>1. (K - 1) * n = (K - k) * n + (k - 1) * n
    BY <1>1, <1>2
  <2>2. QED
    BY <2>1, <1>3, <1>4
<1>6. last = size - (x + y)
  BY <1>5 DEF last, Left
<1>7. Left(size, n, k) = size - y /\ Left(size, n, k) = last + x
  BY <1>1, <1>4, <1>6 DEF Left
<1>8. k = K => x = 0
  BY <1>1, <1>3
<1>9. k # K => x >= n
  <2>1. SUFFICES ASSUME k # K PROVE x >= n
    OBVIOUS
  <2>2. PICK d \in Nat : d = K - k - 1
    BY <2>1, <1>1, <1>2
  <2>3. K - k = d + 1
    BY <2>2, <1>1, <1>2
  <2>4. x = d * n + n
    BY <2>2, <2>3, <1>3
  <2>5. d * n \in Nat
    BY <2>2
  <2>6. QED
    BY <2>4, <2>5
<1>10. k = 1 => y = 0
  BY <1>4
<1>11. Left(size, n, k + 1) = Left(size, n, k) - n
  <2>1. ((k + 1) - 1) * n = (k - 1) * n + n
    BY <1>2
  <2>2. QED
    BY <2>1, <1>4, <1>7 DEF Left
<1>12. QED
  BY <1>1, <1>7, <1>8, <1>9, <1>10, <1>11 DEF K

-----------------------------------------------------------------------------
(* Messages and the last of them on a channel. *)

\* What the messages of either kind are made of.
LEMMA MessageType ==
  ASSUME NEW m \in Messages
  PROVE  /\ m = Message(m.channel, m.type, m.time, m.size, m.stream, m.value)
         /\ m.channel \in AllChannels /\ m.type \in Types /\ m.time \in Nat
         /\ m.size \in Nat /\ m.size \in Sizes \cup {1}
         /\ m.stream \in Nat /\ m.stream \in StreamIds \cup {0}
         /\ m.value \in ChunkSizes \cup {None}
         /\ m.channel = ControlChannel => m.size = 1 /\ m.time = 0 /\ m.stream = 0
         /\ m.channel \in Channels => m.type \in MediaTypes
         /\ m.type = "chunkSize" => m.value \in ChunkSizes /\ m.size = 1
         /\ m.type = "begin" => m.size = 1
<1>1. CASE m \in Media
  <2>1. PICK ch \in Channels, t \in MediaTypes, time \in Times, size \in Sizes, i \in StreamIds :
          m = Message(ch, t, time, size, i, None)
    BY <1>1 DEF Media
  <2>2. QED
    BY <2>1, ChunkAssumption DEF Message, AllChannels, Types
<1>2. CASE m \in Control
  <2>1. CASE \E n \in ChunkSizes : m = Message(ControlChannel, "chunkSize", 0, 1, 0, n)
    BY <2>1, ChunkAssumption DEF Message, AllChannels, Types, ControlChannel
  <2>2. CASE m = Message(ControlChannel, "begin", 0, 1, 0, None)
    BY <2>2, ChunkAssumption DEF Message, AllChannels, Types, ControlChannel
  <2>3. QED
    BY <1>2, <2>1, <2>2 DEF Control
<1>3. QED
  BY <1>1, <1>2 DEF Messages

\* There is one last message on a channel.
LEMMA LastUnique ==
  ASSUME NEW ch, NEW n \in Nat, NEW p, NEW q, LastOn(p, ch, n), LastOn(q, ch, n)
  PROVE  p = q
<1>1. p \in 1 .. n /\ q \in 1 .. n /\ ~(q \in p + 1 .. n) /\ ~(p \in q + 1 .. n)
  BY DEF LastOn
<1>2. QED
  BY <1>1

\* The last of n + 1 is the newest, or that of n when the newest is elsewhere.
LEMMA LastOfMore ==
  ASSUME NEW ch, NEW n \in Nat, NEW q
  PROVE  /\ LastOn(q, ch, n + 1) => IF due[n + 1].channel = ch THEN q = n + 1 ELSE LastOn(q, ch, n)
         /\ due[n + 1].channel # ch /\ LastOn(q, ch, n) => LastOn(q, ch, n + 1)
         /\ due[n + 1].channel = ch => LastOn(n + 1, ch, n + 1)
<1>1. ASSUME LastOn(q, ch, n + 1), due[n + 1].channel = ch PROVE q = n + 1
  <2>1. q \in 1 .. n + 1 /\ ~(n + 1 \in q + 1 .. n + 1)
    BY <1>1 DEF LastOn
  <2>2. QED
    BY <2>1
<1>2. ASSUME LastOn(q, ch, n + 1), due[n + 1].channel # ch PROVE LastOn(q, ch, n)
  <2>1. q \in 1 .. n + 1 /\ q # n + 1
    BY <1>2 DEF LastOn
  <2>2. QED
    BY <2>1, <1>2 DEF LastOn
<1>3. ASSUME due[n + 1].channel # ch, LastOn(q, ch, n) PROVE LastOn(q, ch, n + 1)
  <2>1. q \in 1 .. n /\ q \in 1 .. n + 1
    BY <1>3 DEF LastOn
  <2>2. \A i \in q + 1 .. n + 1 : i \in q + 1 .. n \/ i = n + 1
    BY <2>1
  <2>3. QED
    BY <1>3, <2>1, <2>2 DEF LastOn
<1>4. ASSUME due[n + 1].channel = ch PROVE LastOn(n + 1, ch, n + 1)
  <2>1. n + 1 \in 1 .. n + 1 /\ n + 1 + 1 .. n + 1 = {}
    OBVIOUS
  <2>2. QED
    BY <1>4, <2>1 DEF LastOn
<1>5. QED
  BY <1>1, <1>2, <1>3, <1>4

\* A channel that is clean is sound, and one that is sound solid.
LEMMA CleanSound ==
  ASSUME NEW ch
  PROVE  (Clean(ch) => Sound(ch)) /\ (Sound(ch) => Solid(ch))
BY DEF Clean, Sound, Solid

\* A message that is due is one that was sent, and not empty.
LEMMA DueTypes ==
  ASSUME TypeInv, NEW i \in DOMAIN due
  PROVE  /\ due[i] \in Messages /\ due[i].size > 0
         /\ i \in Nat \ {0} /\ i <= Len(due)
         /\ Sound(due[i].channel) => due[i].time < Half
<1>1. due \in Seq(Whole) /\ due[i] \in Whole
  BY DEF TypeInv
<1>2. PICK j \in DOMAIN sent : sent[j] = due[i]
  BY DEF TypeInv
<1>3. QED
  BY <1>1, <1>2 DEF Whole, Sound

-----------------------------------------------------------------------------
(* What the decoder makes of the chunk at the head of the wire. *)

HeadChannel == Head(wire).header.channel
HeadHeader == DecodedHeader(Head(wire).header, incomplete[HeadChannel])

\* hdr tells what the decoder needs of the message at e, and on a clean channel
\* all there is to tell.
Tells(hdr, e) ==
  LET m == due[e.of] IN
  /\ hdr \in Headers /\ hdr.size = m.size
  /\ m.channel \in Channels => hdr.type \in MediaTypes
  /\ m.channel = ControlChannel \/ Clean(m.channel) => hdr.type = m.type /\ hdr.stream = m.stream
  /\ hdr.fmt # "large" => clock[m.channel] \in Int
  /\ Sound(m.channel) => TimeOf(hdr, m.channel) >= m.time
  /\ Clean(m.channel) => TimeOf(hdr, m.channel) = m.time

\* The chunk at the head of the wire is of the channel of the message at its place.
LEMMA HeadAt ==
  ASSUME TypeInv, NEW e \in Places, NEW f \in Places, Link(e, Head(wire), f)
  PROVE  /\ e.of \in DOMAIN due /\ HeadChannel = due[e.of].channel
         /\ HeadChannel \in AllChannels
         /\ e.first => TrueHeader(Head(wire).header, e.of)
         /\ ~e.first => Head(wire).header.fmt = "tiny"
<1>1. e.of \in DOMAIN due /\ due[e.of] \in Messages
  BY DueTypes DEF Link
<1>2. due[e.of].channel \in AllChannels
  BY <1>1, MessageType
<1>3. CASE e.first
  <2>1. TrueHeader(Head(wire).header, e.of)
    BY <1>3 DEF Link
  <2>2. QED
    BY <1>1, <1>2, <1>3, <2>1 DEF TrueHeader, HeadChannel
<1>4. CASE ~e.first
  <2>1. Head(wire).header = TinyHeader(due[e.of].channel)
    BY <1>4 DEF Link
  <2>2. QED
    BY <1>1, <1>2, <1>4, <2>1 DEF TinyHeader, HeadChannel
<1>5. e.first \in BOOLEAN
  BY DEF Places
<1>6. QED
  BY <1>3, <1>4, <1>5

\* A difference of two times below the sign bit is read as it was written.
LEMMA ReadDelta ==
  ASSUME NEW m \in Messages, NEW p \in Messages, m.time < Half
  PROVE  /\ DeltaTime(m, p) \in Nat /\ DeltaTime(m, p) < Half
         /\ SignedMedium(DeltaTime(m, p)) = DeltaTime(m, p)
         /\ p.time + DeltaTime(m, p) >= m.time
         /\ m.time >= p.time => p.time + DeltaTime(m, p) = m.time
<1>1. m.time \in Nat /\ p.time \in Nat /\ Half \in Nat \ {0}
  BY MessageType, ChunkAssumption
<1>2. PICK d \in Int : d = m.time - p.time
  BY <1>1
<1>3. DeltaTime(m, p) = IF d <= 0 THEN 0 ELSE d
  BY <1>2, MaxWithZero DEF DeltaTime
<1>4. QED
  BY <1>1, <1>2, <1>3 DEF SignedMedium

\* A compressed header on a solid channel leans on the header the decoder keeps.
LEMMA LeansOn ==
  ASSUME TypeInv, NEW e \in Places, DecoderAt(e), e.first, e.of \in DOMAIN due,
         NEW h, Compressed(h, e.of), NEW ch, ch = due[e.of].channel, Sound(ch)
  PROVE  \E p \in DOMAIN due :
           /\ LastOn(p, ch, e.of - 1) /\ incomplete[ch] \in Headers
           /\ h.stamp = DeltaTime(due[e.of], due[p])
           /\ h.stamp < Half /\ SignedMedium(h.stamp) = h.stamp
           /\ clock[ch] >= due[p].time
           /\ clock[ch] \in Int => clock[ch] + h.stamp >= due[e.of].time
           /\ Clean(ch) => /\ clock[ch] + h.stamp = due[e.of].time
                           /\ incomplete[ch].stream = due[e.of].stream
                           /\ incomplete[ch].type = due[p].type
                           /\ due[p].size = due[e.of].size => due[p].type = due[e.of].type
<1> DEFINE i == e.of
           m == due[i]
<1>1. i \in Nat \ {0} /\ i <= Len(due) /\ m \in Messages /\ m.time < Half /\ m.time > 0
  BY DueTypes DEF Compressed
<1>2. PICK p \in 1 .. i - 1 : LastOn(p, ch, i - 1) /\ h.stamp = DeltaTime(m, due[p])
  BY CleanSound DEF Compressed
<1>3. p \in DOMAIN due /\ due[p] \in Messages
  <2>1. p \in DOMAIN due
    BY <1>1 DEF TypeInv
  <2>2. QED
    BY <2>1, DueTypes
<1>4. ch \in AllChannels
  BY <1>1, MessageType
<1>5. /\ incomplete[ch] \in Headers
      /\ Clean(ch) => incomplete[ch].type = due[p].type /\ incomplete[ch].stream = due[p].stream
  <2>1. LastOn(p, ch, Begun(e)) /\ p \in 1 .. Begun(e)
    BY <1>2 DEF Begun
  <2>2. Keeps(e)
    BY DEF DecoderAt
  <2>3. QED
    BY <1>4, <2>1, <2>2 DEF Keeps
<1>6. clock[ch] >= due[p].time /\ (Clean(ch) => clock[ch] = due[p].time)
  <2>1. TimesKept(e)
    BY DEF DecoderAt
  <2>2. QED
    BY <1>2, <1>4, <2>1 DEF TimesKept
<1>7. /\ h.stamp \in Nat /\ h.stamp < Half /\ SignedMedium(h.stamp) = h.stamp
      /\ due[p].time + h.stamp >= m.time
      /\ m.time >= due[p].time => due[p].time + h.stamp = m.time
  BY <1>1, <1>2, <1>3, ReadDelta
<1>8. due[p].time \in Nat /\ m.time \in Nat
  BY <1>1, <1>3, MessageType
<1>9. Clean(ch) => Follows(due[p], m)
  BY <1>1, <1>2 DEF Clean
<1>10. Clean(ch) => /\ m.time >= due[p].time /\ m.stream = due[p].stream
                    /\ m.size = due[p].size => m.type = due[p].type
  BY <1>1, <1>9 DEF Follows
<1>11. clock[ch] \in Int => clock[ch] + h.stamp >= m.time
  BY <1>6, <1>7, <1>8
<1>12. Clean(ch) => clock[ch] + h.stamp = m.time
  BY <1>6, <1>7, <1>10
<1>13. QED
  BY <1>2, <1>3, <1>5, <1>6, <1>7, <1>10, <1>11, <1>12

\* A whole header tells everything.
LEMMA LargeTells ==
  ASSUME TypeInv, NEW e \in Places, e.of \in DOMAIN due, NEW h,
         h.fmt = "large", h.stamp = due[e.of].time, h.size = due[e.of].size,
         h.type = due[e.of].type, h.stream = due[e.of].stream, NEW prev
  PROVE  Tells(DecodedHeader(h, prev), e)
<1> DEFINE m == due[e.of]
           hdr == DecodedHeader(h, prev)
<1>1. m \in Messages /\ (Sound(m.channel) => m.time < Half)
  BY DueTypes
<1>2. /\ m.time \in Nat /\ m.size \in Sizes \cup {1} /\ m.type \in Types
      /\ m.stream \in StreamIds \cup {0} /\ (m.channel \in Channels => m.type \in MediaTypes)
  BY <1>1, MessageType
<1>3. hdr = [fmt |-> "large", time |-> SignedMedium(m.time), delta |-> 0, size |-> m.size,
             type |-> m.type, stream |-> m.stream]
  BY DEF DecodedHeader
<1>4. SignedMedium(m.time) \in Int /\ (m.time < Half => SignedMedium(m.time) = m.time)
  BY <1>2, ChunkAssumption DEF SignedMedium
<1> HIDE DEF hdr, m
<1>5. hdr \in Headers
  BY <1>2, <1>3, <1>4 DEF Headers, Types
<1>6. TimeOf(hdr, m.channel) = SignedMedium(m.time)
  BY <1>3 DEF TimeOf
<1>7. Sound(m.channel) => TimeOf(hdr, m.channel) = m.time
  BY <1>1, <1>4, <1>6 DEF m
<1>8. Tells(hdr, e)
  <2>1. hdr.fmt = "large" /\ hdr.size = m.size /\ hdr.type = m.type /\ hdr.stream = m.stream
    BY <1>3
  <2>2. Clean(m.channel) => Sound(m.channel)
    BY CleanSound
  <2>3. QED
    BY <1>2, <1>5, <1>7, <2>1, <2>2 DEF Tells, m
<1>9. QED
  BY <1>8 DEF hdr

\* A compressed one does with what the decoder keeps.
LEMMA CompressedTells ==
  ASSUME TypeInv, Clocked, NEW e \in Places, DecoderAt(e), e.first, e.of \in DOMAIN due,
         NEW h, Compressed(h, e.of), NEW ch, ch = due[e.of].channel, incomplete[ch] # None,
         \/ h.fmt = "medium" /\ h.size = due[e.of].size /\ h.type = due[e.of].type
         \/ /\ h.fmt = "small"
            /\ \E p \in 1 .. e.of - 1 : LastOn(p, ch, e.of - 1) /\ due[p].size = due[e.of].size
  PROVE  Tells(DecodedHeader(h, incomplete[ch]), e)
<1> DEFINE m == due[e.of]
           prev == incomplete[ch]
           hdr == DecodedHeader(h, prev)
<1>1. m \in Messages /\ e.of \in Nat \ {0} /\ e.of <= Len(due) /\ m.stream > 0 /\ h.stamp \in Nat
  BY DueTypes DEF Compressed
<1>2. /\ m.time \in Nat /\ m.size \in Sizes \cup {1} /\ m.type \in Types
      /\ m.stream \in StreamIds \cup {0} /\ (m.channel \in Channels => m.type \in MediaTypes)
      /\ ch \in Channels /\ ch \in AllChannels /\ ch # ControlChannel
  BY <1>1, MessageType DEF AllChannels
<1>3. prev \in Headers
  BY <1>2 DEF TypeInv
<1>4. clock[ch] \in Int
  <2>1. missing[ch] = None
    BY <1>2 DEF DecoderAt
  <2>2. QED
    BY <1>2, <2>1 DEF Clocked
<1>5. SignedMedium(h.stamp) \in Int
  <2>1. Half \in Nat
    BY ChunkAssumption
  <2>2. h.stamp \in Nat
    BY <1>1
  <2>3. QED
    BY <2>1, <2>2 DEF SignedMedium
<1>6. /\ hdr \in Headers /\ hdr.fmt # "large" /\ hdr.delta = SignedMedium(h.stamp)
      /\ hdr.stream = prev.stream
      /\ h.fmt = "medium" => hdr.size = m.size /\ hdr.type = m.type
      /\ h.fmt = "small" => hdr.size = prev.size /\ hdr.type = prev.type
  <2>1. CASE h.fmt = "medium"
    <3>1. hdr = [fmt |-> "medium", time |-> 0, delta |-> SignedMedium(h.stamp),
                 size |-> m.size, type |-> m.type, stream |-> prev.stream]
      BY <2>1 DEF DecodedHeader
    <3> HIDE DEF hdr
    <3>2. QED
      BY <2>1, <3>1, <1>2, <1>3, <1>5 DEF Headers, Types
  <2>2. CASE h.fmt = "small"
    <3>1. hdr = [prev EXCEPT !.fmt = "small", !.time = 0, !.delta = SignedMedium(h.stamp)]
      BY <2>2 DEF DecodedHeader
    <3>2. PICK d \in Int : d = SignedMedium(h.stamp)
      BY <1>5
    <3> HIDE DEF hdr, prev
    <3>3. hdr = [prev EXCEPT !.fmt = "small", !.time = 0, !.delta = d]
      BY <3>1, <3>2
    <3>4. prev = [fmt |-> prev.fmt, time |-> prev.time, delta |-> prev.delta,
                  size |-> prev.size, type |-> prev.type, stream |-> prev.stream]
      BY <1>3 DEF Headers
    <3>5. hdr = [fmt |-> "small", time |-> 0, delta |-> d,
                 size |-> prev.size, type |-> prev.type, stream |-> prev.stream]
      BY <3>3, <3>4
    <3>6. QED
      BY <2>2, <3>2, <3>5, <1>3 DEF Headers
  <2>3. QED
    BY <2>1, <2>2
<1> HIDE DEF hdr
<1>7. /\ h.fmt = "small" => prev.size = m.size
      /\ prev.type \in MediaTypes \/ h.fmt = "medium"
  <2>1. SUFFICES ASSUME h.fmt = "small" PROVE prev.size = m.size /\ prev.type \in MediaTypes
    OBVIOUS
  <2>2. PICK p \in 1 .. e.of - 1 : LastOn(p, ch, e.of - 1) /\ due[p].size = m.size
    BY <2>1
  <2>3. p \in 1 .. Begun(e) /\ LastOn(p, ch, Begun(e)) /\ Keeps(e)
    BY <2>2 DEF Begun, DecoderAt
  <2>4. QED
    BY <1>2, <2>2, <2>3 DEF Keeps
<1>8. TimeOf(hdr, ch) = clock[ch] + SignedMedium(h.stamp)
  BY <1>6 DEF TimeOf
<1>9. Sound(ch) => TimeOf(hdr, ch) >= m.time
  <2>1. SUFFICES ASSUME Sound(ch) PROVE TimeOf(hdr, ch) >= m.time
    OBVIOUS
  <2>2. SignedMedium(h.stamp) = h.stamp /\ clock[ch] + h.stamp >= m.time
    BY <2>1, <1>4, LeansOn
  <2>3. QED
    BY <2>2, <1>8
<1>10. Clean(ch) => TimeOf(hdr, ch) = m.time /\ hdr.type = m.type /\ hdr.stream = m.stream
  <2>1. SUFFICES ASSUME Clean(ch)
        PROVE TimeOf(hdr, ch) = m.time /\ hdr.type = m.type /\ hdr.stream = m.stream
    OBVIOUS
  <2>2. PICK p \in DOMAIN due :
           /\ LastOn(p, ch, e.of - 1)
           /\ SignedMedium(h.stamp) = h.stamp
           /\ clock[ch] + h.stamp = m.time
           /\ prev.stream = m.stream /\ prev.type = due[p].type
           /\ due[p].size = m.size => due[p].type = m.type
    BY <2>1, CleanSound, LeansOn
  <2>3. h.fmt = "small" => due[p].size = m.size
    <3>1. SUFFICES ASSUME h.fmt = "small" PROVE due[p].size = m.size
      OBVIOUS
    <3>2. PICK q \in 1 .. e.of - 1 : LastOn(q, ch, e.of - 1) /\ due[q].size = m.size
      BY <3>1
    <3>3. e.of - 1 \in Nat
      BY <1>1
    <3>4. p = q
      BY <2>2, <3>2, <3>3, LastUnique
    <3>5. QED
      BY <3>2, <3>4
  <2>4. QED
    BY <2>2, <2>3, <1>6, <1>8
<1>11. Tells(hdr, e)
  BY <1>2, <1>4, <1>6, <1>7, <1>9, <1>10 DEF Tells
<1>12. QED
  BY <1>11 DEF hdr

\* The header put together for the head of the wire tells what is needed.
LEMMA HeadTells ==
  ASSUME TypeInv, Clocked, NEW e \in Places, NEW f \in Places, Link(e, Head(wire), f),
         DecoderAt(e), ~Undecodable(Head(wire).header)
  PROVE  Tells(HeadHeader, e) /\ (~e.first => HeadHeader = incomplete[HeadChannel])
<1> DEFINE h == Head(wire).header
           ch == HeadChannel
<1>1. e.of \in DOMAIN due /\ ch = due[e.of].channel /\ ch \in AllChannels
  BY HeadAt
<1>2. CASE e.first
  <2>1. TrueHeader(h, e.of)
    BY <1>2, HeadAt
  <2>2. CASE h.fmt = "large"
    <3>1. Tells(DecodedHeader(h, incomplete[ch]), e)
      BY <1>1, <2>1, <2>2, LargeTells DEF TrueHeader
    <3>2. QED
      BY <1>2, <3>1 DEF HeadHeader
  <2>3. CASE h.fmt # "large"
    <3>1. incomplete[ch] # None
      BY <2>3 DEF Undecodable, HeadChannel
    <3>2. /\ Compressed(h, e.of)
          /\ \/ h.fmt = "medium" /\ h.size = due[e.of].size /\ h.type = due[e.of].type
             \/ /\ h.fmt = "small"
                /\ \E p \in 1 .. e.of - 1 : LastOn(p, ch, e.of - 1) /\ due[p].size = due[e.of].size
      BY <1>1, <2>1, <2>3 DEF TrueHeader
    <3> HIDE DEF h, ch
    <3>3. Tells(DecodedHeader(h, incomplete[ch]), e)
      BY <1>1, <1>2, <3>1, <3>2, CompressedTells
    <3>4. QED
      BY <1>2, <3>3 DEF HeadHeader, h, ch
  <2>4. QED
    BY <2>2, <2>3
<1>3. CASE ~e.first
  <2>1. h.fmt = "tiny"
    BY <1>3, HeadAt
  <2>2. HeadHeader = incomplete[ch]
    BY <2>1 DEF HeadHeader, DecodedHeader
  <2>3. e.of \in Nat \ {0} /\ Begun(e) = e.of
    BY <1>1, <1>3, DueTypes DEF Begun
  <2>4. LastOn(e.of, ch, Begun(e)) /\ e.of \in 1 .. Begun(e)
    <3>1. e.of \in 1 .. e.of /\ e.of + 1 .. e.of = {}
      BY <2>3
    <3>2. QED
      BY <1>1, <2>3, <3>1 DEF LastOn
  <2>5. Keeps(e) /\ TimesKept(e)
    BY DEF DecoderAt
  <2>6. /\ incomplete[ch] \in Headers /\ incomplete[ch].size = due[e.of].size
        /\ ch \in Channels => incomplete[ch].type \in MediaTypes
        /\ ch = ControlChannel \/ Clean(ch) => /\ incomplete[ch].type = due[e.of].type
                                               /\ incomplete[ch].stream = due[e.of].stream
    BY <1>1, <2>4, <2>5 DEF Keeps
  <2>7. /\ Sound(ch) => TimeOf(incomplete[ch], ch) >= due[e.of].time
        /\ Clean(ch) => TimeOf(incomplete[ch], ch) = due[e.of].time
    BY <1>1, <1>3, <2>5 DEF TimesKept
  <2>8. incomplete[ch].fmt # "large" => clock[ch] \in Int
    BY <1>1, <2>6, ChunkAssumption DEF Clocked
  <2>9. QED
    BY <1>1, <2>2, <2>6, <2>7, <2>8 DEF Tells
<1>4. QED
  BY <1>2, <1>3

\* The decoder takes what is left of the message, or as much of it as a chunk holds.
LEMMA Taken ==
  ASSUME TypeInv, Clocked, NEW e \in Places, NEW f \in Places, Link(e, Head(wire), f),
         DecoderAt(e), ~Undecodable(Head(wire).header)
  PROVE  /\ e.left = IF missing[HeadChannel] = None THEN HeadHeader.size ELSE missing[HeadChannel]
         /\ Wanted(HeadChannel, HeadHeader) = Head(wire).payload
         /\ Wanted(HeadChannel, HeadHeader) = IF e.left <= e.size THEN e.left ELSE e.size
         /\ missing[HeadChannel] = None <=> e.first
<1> DEFINE left == IF missing[HeadChannel] = None THEN HeadHeader.size ELSE missing[HeadChannel]
<1>1. e.of \in DOMAIN due /\ HeadChannel = due[e.of].channel /\ HeadChannel \in AllChannels
  BY HeadAt
<1>2. HeadHeader.size = due[e.of].size
  BY HeadTells DEF Tells
<1>3. e.left \in Nat /\ e.size \in Nat /\ e.first \in BOOLEAN
  BY DEF Places
<1>4. missing[HeadChannel] = IF e.first THEN None ELSE e.left
  BY <1>1, <1>3 DEF DecoderAt
<1>5. missing[HeadChannel] = None <=> e.first
  BY <1>3, <1>4, ChunkAssumption
<1>6. e.first => e.left = due[e.of].size
  BY DEF Link
<1>7. left = e.left
  BY <1>2, <1>4, <1>5, <1>6
<1>8. decoderChunk = e.size
  BY DEF DecoderAt
<1> HIDE DEF left
<1>9. Wanted(HeadChannel, HeadHeader) = Min({e.left, e.size})
  BY <1>7, <1>8 DEF Wanted, left
<1>10. Min({e.left, e.size}) = IF e.left <= e.size THEN e.left ELSE e.size
  BY <1>3, MinOfTwo
<1>11. Head(wire).payload = IF e.left <= e.size THEN e.left ELSE e.size
  BY DEF Link
<1>12. QED
  BY <1>5, <1>7, <1>9, <1>10, <1>11 DEF left

-----------------------------------------------------------------------------
(* What was sent and due only grows. *)

Grows ==
  /\ sent \in Seq(Messages) /\ due \in Seq(Whole) /\ sent' \in Seq(Messages) /\ due' \in Seq(Whole)
  /\ Len(sent) <= Len(sent') /\ Len(due) <= Len(due')
  /\ \A i \in 1 .. Len(sent) : sent'[i] = sent[i]
  /\ \A i \in 1 .. Len(due) : due'[i] = due[i]

\* Nothing sent is a way to grow.
LEMMA UnchangedGrows ==
  ASSUME TypeInv, UNCHANGED <<sent, due>>
  PROVE  Grows
BY DEF TypeInv, Grows

\* What is last among the first n stays so.
LEMMA LastOnGrows ==
  ASSUME Grows, NEW n \in Nat, n <= Len(due), NEW q, NEW ch
  PROVE  LastOn(q, ch, n)' <=> LastOn(q, ch, n)
<1>1. \A i \in 1 .. n : due'[i] = due[i]
  BY DEF Grows
<1>2. q \in 1 .. n => \A i \in q + 1 .. n : i \in 1 .. n
  OBVIOUS
<1>3. LastOn(q, ch, n)' => LastOn(q, ch, n)
  BY <1>1, <1>2 DEF LastOn
<1>4. LastOn(q, ch, n) => LastOn(q, ch, n)'
  BY <1>1, <1>2 DEF LastOn
<1>5. QED
  BY <1>3, <1>4

\* A channel that is solid, sound or clean later is so now.
LEMMA ChannelsGrow ==
  ASSUME Grows, NEW ch
  PROVE  /\ Solid(ch)' => Solid(ch)
         /\ Sound(ch)' => Sound(ch)
         /\ Clean(ch)' => Clean(ch)
<1>1. /\ DOMAIN sent = 1 .. Len(sent) /\ DOMAIN sent' = 1 .. Len(sent')
      /\ DOMAIN due = 1 .. Len(due) /\ DOMAIN due' = 1 .. Len(due')
      /\ Len(sent) \in Nat /\ Len(sent') \in Nat /\ Len(due) \in Nat /\ Len(due') \in Nat
      /\ Len(sent) <= Len(sent') /\ Len(due) <= Len(due')
  BY DEF Grows
<1>2. \A i \in DOMAIN sent : i \in DOMAIN sent' /\ sent'[i] = sent[i]
  BY <1>1 DEF Grows
<1>3. \A i \in DOMAIN due : i \in DOMAIN due' /\ due'[i] = due[i]
  BY <1>1 DEF Grows
<1>4. Solid(ch)' => Solid(ch)
  BY <1>2 DEF Solid
<1>5. Sound(ch)' => Sound(ch)
  BY <1>2 DEF Sound
<1>6. ASSUME Clean(ch)' PROVE Clean(ch)
  <2>1. \A i \in DOMAIN sent : sent[i].channel = ch => sent[i].size > 0 /\ sent[i].time < Half
    BY <1>2, <1>6 DEF Clean
  <2>2. ASSUME NEW i \in DOMAIN due, NEW p \in 1 .. i - 1,
               due[i].channel = ch, LastOn(p, ch, i - 1)
        PROVE  Follows(due[p], due[i])
    <3>1. i \in 1 .. Len(due) /\ i - 1 \in Nat /\ i - 1 <= Len(due) /\ p \in DOMAIN due
      BY <1>1, <2>2
    <3>2. LastOn(p, ch, i - 1)'
      BY <2>2, <3>1, LastOnGrows
    <3>3. i \in DOMAIN due' /\ due'[i] = due[i] /\ due'[p] = due[p]
      BY <1>3, <3>1
    <3>4. Follows(due'[p], due'[i])
      BY <1>6, <2>2, <3>2, <3>3 DEF Clean
    <3>5. QED
      BY <3>3, <3>4
  <2>3. QED
    BY <2>1, <2>2 DEF Clean
<1>7. QED
  BY <1>4, <1>5, <1>6

\* The reason for a failure does not go away.
LEMMA BrokenGrows ==
  ASSUME BrokenInv, Grows, broken' = broken
  PROVE  BrokenInv'
BY ChannelsGrow DEF BrokenInv

\* A true header stays true.
LEMMA TrueHeaderGrows ==
  ASSUME Grows, NEW h, NEW i \in DOMAIN due, TrueHeader(h, i)
  PROVE  TrueHeader(h, i)'
<1>0. PICK ch : ch = due[i].channel
  OBVIOUS
<1>1. i \in 1 .. Len(due) /\ i - 1 \in Nat /\ i - 1 <= Len(due) /\ due'[i] = due[i]
  BY DEF Grows
<1>2. \A p \in 1 .. i - 1 : due'[p] = due[p]
  BY <1>1 DEF Grows
<1>3. \A p \in 1 .. i - 1 : \A c : LastOn(p, c, i - 1) => LastOn(p, c, i - 1)'
  BY <1>1, LastOnGrows
<1>4. Compressed(h, i) => Compressed(h, i)'
  <2>1. SUFFICES ASSUME Compressed(h, i) PROVE Compressed(h, i)'
    OBVIOUS
  <2>2. due'[i].stream > 0 /\ due'[i].time > 0 /\ h.stamp \in Nat
    BY <1>1, <2>1 DEF Compressed
  <2>3. ASSUME Solid(ch)'
        PROVE  \E p \in 1 .. i - 1 : LastOn(p, ch, i - 1)' /\ h.stamp = DeltaTime(due'[i], due'[p])
    <3>1. Solid(ch)
      BY <2>3, ChannelsGrow
    <3>2. PICK p \in 1 .. i - 1 : /\ LastOn(p, ch, i - 1)
                                  /\ h.stamp = DeltaTime(due[i], due[p])
      BY <1>0, <2>1, <3>1 DEF Compressed
    <3>3. LastOn(p, ch, i - 1)' /\ due'[p] = due[p]
      BY <1>2, <1>3, <3>2
    <3>4. QED
      BY <1>1, <3>2, <3>3
  <2>4. QED
    BY <1>0, <1>1, <2>2, <2>3, Zenon DEF Compressed
<1>5. (\E p \in 1 .. i - 1 : LastOn(p, ch, i - 1) /\ due[p].size = due[i].size)
        => \E p \in 1 .. i - 1 : LastOn(p, ch, i - 1)' /\ due'[p].size = due'[i].size
  BY <1>1, <1>2, <1>3
<1>6. QED
  BY <1>0, <1>1, <1>4, <1>5, Zenon DEF TrueHeader

\* A chunk stays at its place.
LEMMA LinkGrows ==
  ASSUME Grows, NEW e \in Places, NEW c, NEW f \in Places, Link(e, c, f)
  PROVE  Link(e, c, f)'
<1>1. e.of \in DOMAIN due
  BY DEF Link
<1>2. e.of \in DOMAIN due' /\ due'[e.of] = due[e.of]
  BY <1>1 DEF Grows
<1>3. e.first => TrueHeader(c.header, e.of)'
  BY <1>1, TrueHeaderGrows DEF Link
<1>4. QED
  BY <1>2, <1>3 DEF Link

-----------------------------------------------------------------------------
(* The decoder takes a chunk. *)

\* What Decode does, in terms of the place of the chunk.
LEMMA DecodeDoes ==
  ASSUME TypeInv, Clocked, NEW e \in Places, NEW f \in Places, Link(e, Head(wire), f),
         DecoderAt(e), Decode
  PROVE  /\ Tells(HeadHeader, e) /\ HeadChannel \in AllChannels
         /\ HeadChannel = due[e.of].channel /\ e.of \in DOMAIN due
         /\ ~e.first => HeadHeader = incomplete[HeadChannel]
         /\ UNCHANGED <<encoderVars, broken>> /\ wire' = Tail(wire)
         /\ incomplete' = [incomplete EXCEPT ![HeadChannel] = HeadHeader]
         /\ ~(e.left <= e.size) => /\ missing' = [missing EXCEPT ![HeadChannel] = e.left - e.size]
                                   /\ UNCHANGED <<clock, received, decoderChunk>>
         /\ e.left <= e.size => Complete(HeadChannel, HeadHeader, due[e.of].value)
<1> DEFINE ch == HeadChannel
           hdr == HeadHeader
           left == IF missing[ch] = None THEN hdr.size ELSE missing[ch]
           n == Wanted(ch, hdr)
<1>1. ~Undecodable(Head(wire).header) /\ wire' = Tail(wire) /\ UNCHANGED <<encoderVars, broken>>
  BY DEF Decode
<1>2. /\ KeepHeader(ch, hdr)
      /\ \/ n < left /\ missing' = [missing EXCEPT ![ch] = left - n]
            /\ UNCHANGED <<clock, received, decoderChunk>>
         \/ n = left /\ Complete(ch, hdr, Head(wire).value)
  BY DEF Decode, HeadHeader, HeadChannel
<1>3. Tells(hdr, e) /\ (~e.first => hdr = incomplete[ch])
  BY <1>1, HeadTells
<1>4. /\ e.of \in DOMAIN due /\ ch = due[e.of].channel /\ ch \in AllChannels
  BY HeadAt
<1>5. e.left = left /\ n = (IF e.left <= e.size THEN e.left ELSE e.size)
      /\ (missing[ch] = None <=> e.first)
  BY <1>1, Taken
<1>6. Head(wire).value = due[e.of].value
  BY DEF Link
<1>7. e.left \in Nat /\ e.size \in Nat
  BY DEF Places
<1>8. incomplete' = [incomplete EXCEPT ![ch] = hdr]
  BY <1>2, <1>3, <1>5 DEF KeepHeader
<1> HIDE DEF ch, hdr, left, n
<1>9. CASE e.left <= e.size
  <2>1. n = left /\ ~(n < left)
    BY <1>5, <1>7, <1>9
  <2>2. Complete(ch, hdr, due[e.of].value)
    BY <1>2, <1>6, <2>1
  <2>3. QED
    BY <1>1, <1>3, <1>4, <1>8, <1>9, <2>2 DEF ch, hdr
<1>10. CASE ~(e.left <= e.size)
  <2>1. n # left /\ left - n = e.left - e.size
    BY <1>5, <1>7, <1>10
  <2>2. missing' = [missing EXCEPT ![ch] = e.left - e.size] /\ UNCHANGED <<clock, received, decoderChunk>>
    BY <1>2, <2>1
  <2>3. QED
    BY <1>1, <1>3, <1>4, <1>8, <1>10, <2>2 DEF ch, hdr
<1>11. QED
  BY <1>9, <1>10

\* The time a header gives is an integer when its channel has a clock where it needs one.
LEMMA TimeOfType ==
  ASSUME NEW hdr \in Headers, NEW ch, hdr.fmt # "large" => clock[ch] \in Int
  PROVE  TimeOf(hdr, ch) \in Int
<1>1. hdr.time \in Int /\ hdr.delta \in Int
  BY DEF Headers
<1>2. QED
  BY <1>1 DEF TimeOf

\* The last messages begun when the one at e.of has been.
LEMMA BegunMore ==
  ASSUME TypeInv, NEW e \in Places, e.of \in DOMAIN due, NEW ch, ch = due[e.of].channel,
         NEW c, NEW q, LastOn(q, c, e.of)
  PROVE  /\ q \in 1 .. e.of
         /\ c = ch => q = e.of
         /\ c # ch => q \in 1 .. e.of - 1 /\ LastOn(q, c, e.of - 1)
         /\ c # ch => q \in 1 .. Begun(e) /\ LastOn(q, c, Begun(e))
<1>1. e.of \in Nat \ {0}
  BY DEF Places
<1>2. PICK n \in Nat : n = e.of - 1 /\ n + 1 = e.of
  BY <1>1
<1>3. q \in 1 .. e.of
  BY DEF LastOn
<1>4. IF ch = c THEN q = e.of ELSE LastOn(q, c, e.of - 1)
  <2>1. LastOn(q, c, n + 1) /\ due[n + 1].channel = ch
    BY <1>2
  <2>2. IF due[n + 1].channel = c THEN q = n + 1 ELSE LastOn(q, c, n)
    BY <2>1, LastOfMore
  <2>3. QED
    BY <1>2, <2>1, <2>2
<1>5. c # ch => q \in 1 .. e.of - 1
  BY <1>4 DEF LastOn
<1>6. QED
  BY <1>3, <1>4, <1>5 DEF Begun

\* The channel of the chunk keeps its header; the others keep what they had.
LEMMA DecodeKeeps ==
  ASSUME TypeInv, NEW e \in Places, NEW f \in Places, DecoderAt(e), Grows,
         e.of \in DOMAIN due, NEW ch \in AllChannels, ch = due[e.of].channel,
         NEW hdr, Tells(hdr, e), incomplete' = [incomplete EXCEPT ![ch] = hdr],
         Begun(f) = e.of
  PROVE  Keeps(f)'
<1>1. /\ e.of \in Nat \ {0} /\ e.of <= Len(due) /\ DOMAIN due = 1 .. Len(due)
      /\ Len(due) \in Nat
  BY DueTypes DEF TypeInv
<1>2. \A i \in 1 .. e.of : due'[i] = due[i]
  BY <1>1 DEF Grows
<1>3. ASSUME NEW c \in AllChannels, NEW q \in 1 .. e.of, LastOn(q, c, e.of)'
      PROVE  /\ incomplete'[c] \in Headers /\ incomplete'[c].size = due'[q].size
             /\ c \in Channels => incomplete'[c].type \in MediaTypes
             /\ c = ControlChannel \/ Clean(c)' => /\ incomplete'[c].type = due'[q].type
                                                   /\ incomplete'[c].stream = due'[q].stream
  <2>1. LastOn(q, c, e.of) /\ due'[q] = due[q] /\ (Clean(c)' => Clean(c))
    BY <1>1, <1>2, <1>3, LastOnGrows, ChannelsGrow
  <2>2. CASE c = ch
    <3>1. q = e.of
      BY <2>1, <2>2, BegunMore
    <3>2. incomplete'[c] = hdr
      BY <2>2 DEF TypeInv
    <3>3. QED
      BY <2>1, <2>2, <3>1, <3>2 DEF Tells
  <2>3. CASE c # ch
    <3>1. q \in 1 .. Begun(e) /\ LastOn(q, c, Begun(e))
      BY <2>1, <2>3, BegunMore
    <3>2. incomplete'[c] = incomplete[c]
      BY <2>3 DEF TypeInv
    <3>3. Keeps(e)
      BY DEF DecoderAt
    <3>4. QED
      BY <2>1, <3>1, <3>2, <3>3 DEF Keeps
  <2>4. QED
    BY <2>2, <2>3
<1>4. Begun(f)' = e.of
  BY DEF Begun
<1>5. QED
  BY <1>3, <1>4, Zenon DEF Keeps

\* A channel keeps having a clock where it needs one.
LEMMA DecodeClocked ==
  ASSUME TypeInv, Clocked, NEW ch \in AllChannels, NEW hdr \in Headers,
         hdr.fmt # "large" => clock[ch] \in Int,
         incomplete' = [incomplete EXCEPT ![ch] = hdr],
         \/ clock' = clock /\ \E n \in Nat : missing' = [missing EXCEPT ![ch] = n]
         \/ /\ clock' = [clock EXCEPT ![ch] = TimeOf(hdr, ch)]
            /\ missing' = [missing EXCEPT ![ch] = None]
  PROVE  Clocked'
<1>1. ASSUME NEW c \in AllChannels, incomplete'[c] # None,
             missing'[c] = None \/ incomplete'[c].fmt # "large"
      PROVE  clock'[c] \in Int
  <2>1. CASE c = ch
    <3>1. incomplete'[c] = hdr
      BY <2>1 DEF TypeInv
    <3>2. CASE clock' = clock /\ \E n \in Nat : missing' = [missing EXCEPT ![ch] = n]
      <4>1. missing'[c] # None
        BY <2>1, <3>2, ChunkAssumption DEF TypeInv
      <4>2. QED
        BY <1>1, <2>1, <3>1, <3>2, <4>1
    <3>3. CASE clock' = [clock EXCEPT ![ch] = TimeOf(hdr, ch)]
      <4>1. clock'[c] = TimeOf(hdr, ch)
        BY <2>1, <3>3 DEF TypeInv
      <4>2. QED
        BY <4>1, TimeOfType
    <3>4. QED
      BY <3>2, <3>3
  <2>2. CASE c # ch
    <3>1. incomplete'[c] = incomplete[c] /\ missing'[c] = missing[c] /\ clock'[c] = clock[c]
      BY <2>2 DEF TypeInv
    <3>2. QED
      BY <1>1, <3>1 DEF Clocked
  <2>3. QED
    BY <2>1, <2>2
<1>2. QED
  BY <1>1, Zenon DEF Clocked

\* More chunks of the message remain.
LEMMA MoreRemain ==
  ASSUME TypeInv, NEW e \in Places, NEW f \in Places, NEW c, Link(e, c, f), DecoderAt(e), Grows,
         NEW ch \in AllChannels, ch = due[e.of].channel,
         NEW hdr, Tells(hdr, e), incomplete' = [incomplete EXCEPT ![ch] = hdr],
         ~(e.left <= e.size), missing' = [missing EXCEPT ![ch] = e.left - e.size],
         UNCHANGED <<clock, received, decoderChunk>>
  PROVE  DecoderAt(f)'
<1>1. /\ e.of \in DOMAIN due /\ f.of = e.of /\ ~f.first /\ f.left = e.left - e.size /\ f.size = e.size
  BY DEF Link
<1>2. /\ e.of \in Nat \ {0} /\ e.of <= Len(due) /\ e.left \in Nat /\ e.size \in Nat
      /\ e.first \in BOOLEAN
      /\ DOMAIN due = 1 .. Len(due) /\ Len(due) \in Nat
  BY <1>1, DueTypes DEF Places, TypeInv
<1>3. /\ Len(received) = e.of - 1 /\ decoderChunk = e.size
      /\ missing = [c0 \in AllChannels |->
           IF ~e.first /\ c0 = due[e.of].channel THEN e.left ELSE None]
  BY DEF DecoderAt
<1>4. due'[e.of] = due[e.of] /\ e.of \in DOMAIN due' /\ Len(due) <= Len(due') /\ Len(due') \in Nat
  BY <1>1, <1>2 DEF Grows
<1>5. missing' = [c0 \in AllChannels |-> IF c0 = ch THEN f.left ELSE None]
  BY <1>1, <1>3
<1>6. Keeps(f)'
  <2>1. Begun(f) = e.of
    BY <1>1 DEF Begun
  <2>2. QED
    BY <1>1, <2>1, DecodeKeeps
<1>7. TimesKept(f)'
  <2>1. TimesKept(e)
    BY DEF DecoderAt
  <2>2. e.of - 1 \in Nat /\ e.of - 1 <= Len(due)
    BY <1>2
  <2>0. \A q \in 1 .. e.of - 1 : due'[q] = due[q]
    BY <1>2 DEF Grows
  <2>3. \A q \in 1 .. e.of - 1 : \A c0 : LastOn(q, c0, e.of - 1)' => LastOn(q, c0, e.of - 1)
    BY <2>2, LastOnGrows
  <2>4. DOMAIN received = 1 .. e.of - 1
    BY <1>3 DEF TypeInv
  <2>5. incomplete'[ch] = hdr
    BY DEF TypeInv
  <2>6. ASSUME NEW c0 \in AllChannels, Sound(c0)'
        PROVE  /\ \A q \in 1 .. f.of - 1 : LastOn(q, c0, f.of - 1)' => clock'[c0] >= due'[q].time
               /\ c0 = due'[f.of].channel => TimeOf(incomplete[c0], c0)' >= due'[f.of].time
               /\ \A i \in DOMAIN received' :
                    due'[i].channel = c0 => received'[i].time >= due'[i].time
    <3>1. Sound(c0)
      BY <2>6, ChannelsGrow
    <3>2. \A q \in 1 .. e.of - 1 : LastOn(q, c0, e.of - 1) => clock[c0] >= due[q].time
      BY <2>1, <3>1 DEF TimesKept
    <3>3. \A i \in DOMAIN received : due[i].channel = c0 => received[i].time >= due[i].time
      BY <2>1, <3>1 DEF TimesKept
    <3>4. c0 = ch => TimeOf(hdr, ch) >= due[e.of].time
      BY <3>1 DEF Tells
    <3>5. \A q \in 1 .. e.of - 1 : LastOn(q, c0, e.of - 1)' => clock'[c0] >= due'[q].time
      BY <2>0, <2>3, <3>2
    <3>6. c0 = ch => TimeOf(incomplete[c0], c0)' >= due'[e.of].time
      BY <1>4, <2>5, <3>4 DEF TimeOf
    <3>7. \A i \in DOMAIN received' : due'[i].channel = c0 => received'[i].time >= due'[i].time
      BY <2>0, <2>4, <3>3
    <3>8. QED
      BY <1>1, <1>4, <3>5, <3>6, <3>7
  <2>7. ASSUME NEW c0 \in AllChannels, Clean(c0)'
        PROVE  /\ \A q \in 1 .. f.of - 1 : LastOn(q, c0, f.of - 1)' => clock'[c0] = due'[q].time
               /\ c0 = due'[f.of].channel => TimeOf(incomplete[c0], c0)' = due'[f.of].time
               /\ \A i \in DOMAIN received' : due'[i].channel = c0 => received'[i] = due'[i]
    <3>1. Clean(c0)
      BY <2>7, ChannelsGrow
    <3>2. \A q \in 1 .. e.of - 1 : LastOn(q, c0, e.of - 1) => clock[c0] = due[q].time
      BY <2>1, <3>1 DEF TimesKept
    <3>3. \A i \in DOMAIN received : due[i].channel = c0 => received[i] = due[i]
      BY <2>1, <3>1 DEF TimesKept
    <3>4. c0 = ch => TimeOf(hdr, ch) = due[e.of].time
      BY <3>1 DEF Tells
    <3>5. \A q \in 1 .. e.of - 1 : LastOn(q, c0, e.of - 1)' => clock'[c0] = due'[q].time
      BY <2>0, <2>3, <3>2
    <3>6. c0 = ch => TimeOf(incomplete[c0], c0)' = due'[e.of].time
      BY <1>4, <2>5, <3>4 DEF TimeOf
    <3>7. \A i \in DOMAIN received' : due'[i].channel = c0 => received'[i] = due'[i]
      BY <2>0, <2>4, <3>3
    <3>8. QED
      BY <1>1, <1>4, <3>5, <3>6, <3>7
  <2>8. QED
    BY <2>6, <2>7, Zenon DEF TimesKept
<1>8. QED
  BY <1>1, <1>2, <1>3, <1>4, <1>5, <1>6, <1>7 DEF DecoderAt

\* The message is complete.
LEMMA MessageComplete ==
  ASSUME TypeInv, NEW e \in Places, NEW f \in Places, NEW c, Link(e, c, f), DecoderAt(e), Grows,
         NEW ch \in AllChannels, ch = due[e.of].channel,
         NEW hdr, Tells(hdr, e), incomplete' = [incomplete EXCEPT ![ch] = hdr],
         e.left <= e.size, Complete(ch, hdr, due[e.of].value)
  PROVE  DecoderAt(f)' /\ received' \in Seq(Decoded)
<1> DEFINE m == due[e.of]
           time == TimeOf(hdr, ch)
           put == Message(ch, hdr.type, time, hdr.size, hdr.stream, m.value)
<1>1. /\ e.of \in DOMAIN due /\ f.of = e.of + 1 /\ f.first
      /\ f.size = IF m.type = "chunkSize" THEN m.value ELSE e.size
  BY DEF Link
<1>2. /\ e.of \in Nat \ {0} /\ e.of <= Len(due) /\ e.first \in BOOLEAN
      /\ DOMAIN due = 1 .. Len(due) /\ Len(due) \in Nat /\ m \in Messages
  BY <1>1, DueTypes DEF Places, TypeInv
<1>3. /\ Len(received) = e.of - 1 /\ decoderChunk = e.size
      /\ missing = [c0 \in AllChannels |->
           IF ~e.first /\ c0 = due[e.of].channel THEN e.left ELSE None]
  BY DEF DecoderAt
<1>4. due'[e.of] = due[e.of] /\ Len(due) <= Len(due') /\ Len(due') \in Nat
  BY <1>1, <1>2 DEF Grows
<1>5. /\ m = Message(m.channel, m.type, m.time, m.size, m.stream, m.value)
      /\ m.value \in ChunkSizes \cup {None} /\ (ch \in Channels => m.type \in MediaTypes)
  BY <1>2, MessageType
<1>6. time \in Int
  BY TimeOfType DEF Tells
<1>7. /\ missing' = [missing EXCEPT ![ch] = None] /\ clock' = [clock EXCEPT ![ch] = time]
      /\ received' = Append(received, put)
      /\ decoderChunk' = IF hdr.type = "chunkSize" THEN m.value ELSE decoderChunk
  BY DEF Complete, TimeOf
<1>8. missing' = [c0 \in AllChannels |-> None]
  BY <1>3, <1>7
<1>9. decoderChunk' = f.size
  <2>1. hdr.type = "chunkSize" <=> m.type = "chunkSize"
    <3>1. CASE ch \in Channels
      BY <3>1, <1>5, ChunkAssumption DEF Tells
    <3>2. CASE ch = ControlChannel
      BY <3>2 DEF Tells
    <3>3. QED
      BY <3>1, <3>2 DEF AllChannels
  <2>2. QED
    BY <1>1, <1>3, <1>7, <2>1
<1>10. put \in Decoded
  <2>1. hdr.type \in Types /\ hdr.size \in Nat /\ hdr.stream \in Nat
    BY ChunkAssumption DEF Tells, Headers, Types
  <2>2. QED
    BY <1>5, <1>6, <2>1 DEF Message, Decoded
<1> HIDE DEF put, time
<1>11. /\ received' \in Seq(Decoded) /\ Len(received') = e.of /\ DOMAIN received' = 1 .. e.of
       /\ received'[e.of] = put /\ \A i \in 1 .. e.of - 1 : received'[i] = received[i]
  BY <1>2, <1>3, <1>7, <1>10 DEF TypeInv
<1>12. Keeps(f)'
  <2>1. Begun(f) = e.of
    BY <1>1, <1>2 DEF Begun
  <2>2. QED
    BY <1>1, <2>1, DecodeKeeps
<1>13. TimesKept(f)'
  <2>1. TimesKept(e)
    BY DEF DecoderAt
  <2>0. \A q \in 1 .. e.of : due'[q] = due[q]
    BY <1>2 DEF Grows
  <2>2. \A q \in 1 .. e.of : \A c0 : LastOn(q, c0, e.of)' => LastOn(q, c0, e.of)
    BY <1>2, LastOnGrows
  <2>3. DOMAIN received = 1 .. e.of - 1
    BY <1>3 DEF TypeInv
  <2>4. clock'[ch] = time /\ \A c0 \in AllChannels : c0 # ch => clock'[c0] = clock[c0]
    BY <1>7 DEF TypeInv
  <2>5. ASSUME NEW c0 \in AllChannels, NEW q \in 1 .. e.of, LastOn(q, c0, e.of)'
        PROVE  /\ c0 = ch => q = e.of
               /\ c0 # ch => q \in 1 .. e.of - 1 /\ LastOn(q, c0, e.of - 1)
    <3>1. LastOn(q, c0, e.of)
      BY <2>2, <2>5
    <3>2. QED
      BY <1>1, <3>1, BegunMore
  <2>6. put.time = time
    BY DEF put, Message
  <2>7. ASSUME NEW c0 \in AllChannels, Sound(c0)'
        PROVE  /\ \A q \in 1 .. e.of : LastOn(q, c0, e.of)' => clock'[c0] >= due'[q].time
               /\ \A i \in DOMAIN received' :
                    due'[i].channel = c0 => received'[i].time >= due'[i].time
    <3>1. Sound(c0)
      BY <2>7, ChannelsGrow
    <3>2. \A q \in 1 .. e.of - 1 : LastOn(q, c0, e.of - 1) => clock[c0] >= due[q].time
      BY <2>1, <3>1 DEF TimesKept
    <3>3. \A i \in DOMAIN received : due[i].channel = c0 => received[i].time >= due[i].time
      BY <2>1, <3>1 DEF TimesKept
    <3>4. c0 = ch => time >= m.time
      BY <3>1 DEF Tells, time
    <3>5. \A q \in 1 .. e.of : LastOn(q, c0, e.of)' => clock'[c0] >= due'[q].time
      BY <2>0, <2>4, <2>5, <3>2, <3>4
    <3>6. \A i \in 1 .. e.of - 1 : due'[i].channel = c0 => received'[i].time >= due'[i].time
      <4>1. \A i \in 1 .. e.of - 1 : i \in DOMAIN received /\ due'[i] = due[i] /\ received'[i] = received[i]
        BY <1>2, <1>11, <2>0, <2>3
      <4>2. QED
        BY <3>3, <4>1
    <3>7. due'[e.of].channel = c0 => received'[e.of].time >= due'[e.of].time
      BY <1>4, <1>11, <2>6, <3>4
    <3>8. \A i \in DOMAIN received' : i \in 1 .. e.of - 1 \/ i = e.of
      BY <1>2, <1>11
    <3>9. QED
      BY <3>5, <3>6, <3>7, <3>8
  <2>8. ASSUME NEW c0 \in AllChannels, Clean(c0)'
        PROVE  /\ \A q \in 1 .. e.of : LastOn(q, c0, e.of)' => clock'[c0] = due'[q].time
               /\ \A i \in DOMAIN received' : due'[i].channel = c0 => received'[i] = due'[i]
    <3>1. Clean(c0)
      BY <2>8, ChannelsGrow
    <3>2. \A q \in 1 .. e.of - 1 : LastOn(q, c0, e.of - 1) => clock[c0] = due[q].time
      BY <2>1, <3>1 DEF TimesKept
    <3>3. \A i \in DOMAIN received : due[i].channel = c0 => received[i] = due[i]
      BY <2>1, <3>1 DEF TimesKept
    <3>4. c0 = ch => time = m.time /\ hdr.type = m.type /\ hdr.stream = m.stream /\ hdr.size = m.size
      BY <3>1 DEF Tells, time
    <3>5. c0 = ch => put = m
      BY <3>4, <1>5 DEF put
    <3>6. \A q \in 1 .. e.of : LastOn(q, c0, e.of)' => clock'[c0] = due'[q].time
      BY <2>0, <2>4, <2>5, <3>2, <3>4
    <3>7. \A i \in 1 .. e.of - 1 : due'[i].channel = c0 => received'[i] = due'[i]
      <4>1. \A i \in 1 .. e.of - 1 : i \in DOMAIN received /\ due'[i] = due[i] /\ received'[i] = received[i]
        BY <1>2, <1>11, <2>0, <2>3
      <4>2. QED
        BY <3>3, <4>1
    <3>8. due'[e.of].channel = c0 => received'[e.of] = due'[e.of]
      BY <1>4, <1>11, <3>5
    <3>9. \A i \in DOMAIN received' : i \in 1 .. e.of - 1 \/ i = e.of
      BY <1>2, <1>11
    <3>10. QED
      BY <3>6, <3>7, <3>8, <3>9
  <2>9. f.of - 1 = e.of /\ f.first
    BY <1>1, <1>2
  <2>10. QED
    BY <2>7, <2>8, <2>9, Zenon DEF TimesKept
<1>14. Len(received') = f.of - 1 /\ f.of - 1 <= Len(due')
  BY <1>1, <1>2, <1>4, <1>11
<1>15. missing' = [c0 \in AllChannels |-> IF ~f.first /\ c0 = due'[f.of].channel THEN f.left ELSE None]
  BY <1>1, <1>8
<1>16. QED
  BY <1>1, <1>9, <1>11, <1>12, <1>13, <1>14, <1>15 DEF DecoderAt

\* Decode keeps the types.
LEMMA DecodeTypes ==
  ASSUME TypeInv, NEW ch \in AllChannels, NEW hdr \in Headers, NEW f \in Places,
         wire # <<>>, wire' = Tail(wire), UNCHANGED <<encoderVars, broken>>,
         incomplete' = [incomplete EXCEPT ![ch] = hdr],
         decoderChunk' = f.size, received' \in Seq(Decoded),
         missing' \in [AllChannels -> Nat \cup {None}], clock' \in [AllChannels -> Int \cup {None}]
  PROVE  TypeInv'
<1>1. decoderChunk' \in Nat \ {0}
  BY DEF Places
<1>2. incomplete' \in [AllChannels -> Headers \cup {None}]
  BY DEF TypeInv
<1>3. wire' \in Seq(ChunksOnWire)
  BY DEF TypeInv
<1>4. /\ chunkSize' \in Nat \ {0} /\ broken' \in BOOLEAN
      /\ prevHeaders' \in [AllChannels -> [time: Nat, size: Nat] \cup {None}]
      /\ sent' \in Seq(Messages) /\ due' \in Seq(Whole)
      /\ \A i \in DOMAIN due' : \E j \in DOMAIN sent' : sent'[j] = due'[i]
  BY DEF TypeInv, encoderVars
<1>5. QED
  BY <1>1, <1>2, <1>3, <1>4 DEF TypeInv

\* The decoder does not touch what the encoder remembers.
LEMMA SameEncoder ==
  ASSUME EncoderInv, UNCHANGED encoderVars
  PROVE  EncoderInv'
BY DEF EncoderInv, encoderVars, LastOn, Solid

\* The first place of a book is that of the chunk at the head of the wire.
LEMMA HeadOfBook ==
  ASSUME TypeInv, wire # <<>>, NEW b \in [1 .. Len(wire) + 1 -> Places], Book(b)
  PROVE  /\ Len(wire) \in Nat \ {0} /\ Head(wire) = wire[1]
         /\ b[1] \in Places /\ b[2] \in Places /\ Link(b[1], Head(wire), b[2])
<1>1. Len(wire) \in Nat \ {0} /\ Head(wire) = wire[1]
  BY DEF TypeInv
<1>2. 1 \in 1 .. Len(wire) + 1 /\ 2 \in 1 .. Len(wire) + 1 /\ 1 \in 1 .. Len(wire) /\ 1 + 1 = 2
  BY <1>1
<1>3. Link(b[1], wire[1], b[1 + 1])
  BY <1>2 DEF Book
<1>4. QED
  BY <1>1, <1>2, <1>3

\* Without the first chunk, the book without its first place.
LEMMA TailBook ==
  ASSUME TypeInv, wire # <<>>, NEW b \in [1 .. Len(wire) + 1 -> Places], Book(b),
         wire' = Tail(wire), Grows, UNCHANGED <<due, chunkSize>>
  PROVE  \E d \in [1 .. Len(wire') + 1 -> Places] : Book(d)' /\ d[1] = b[2]
<1>1. Len(wire) \in Nat \ {0}
  BY HeadOfBook
<1>2. Len(wire') = Len(wire) - 1 /\ \A j \in 1 .. Len(wire') : wire'[j] = wire[j + 1]
  BY <1>1 DEF TypeInv
<1>3. PICK n \in Nat : n = Len(wire')
  <2>1. Len(wire) - 1 \in Nat
    BY <1>1
  <2>2. QED
    BY <1>2, <2>1, Zenon
<1>4. PICK d : d = [j \in 1 .. n + 1 |-> b[j + 1]]
  OBVIOUS
<1>5. \A j \in 1 .. n + 1 : j + 1 \in 1 .. Len(wire) + 1 /\ d[j] = b[j + 1]
  BY <1>1, <1>2, <1>3, <1>4
<1>6. d \in [1 .. n + 1 -> Places]
  BY <1>4, <1>5
<1>7. ASSUME NEW j \in 1 .. n PROVE Link(d[j], wire[j], d[j + 1])'
  <2>1. j \in 1 .. n + 1 /\ j + 1 \in 1 .. n + 1 /\ j + 1 \in 1 .. Len(wire)
    BY <1>1, <1>2, <1>3
  <2>2. PICK e \in Places, f \in Places : e = d[j] /\ f = d[j + 1]
    BY <1>6, <2>1
  <2>3. e = b[j + 1] /\ f = b[j + 1 + 1]
    BY <1>5, <2>1, <2>2
  <2>4. Link(e, wire[j + 1], f)
    BY <2>1, <2>3 DEF Book
  <2>5. PICK c : c = wire[j + 1]
    OBVIOUS
  <2>6. Link(e, c, f)'
    BY <2>4, <2>5, LinkGrows
  <2>7. c = wire'[j]
    BY <1>2, <1>3, <2>5
  <2>8. QED
    BY <2>2, <2>6, <2>7, Zenon
<1>8. d[n + 1] = b[Len(wire) + 1]
  BY <1>1, <1>2, <1>3, <1>5
<1>9. LET end == b[Len(wire) + 1]
      IN  end.of = Len(due) + 1 /\ end.first /\ end.size = chunkSize
  BY DEF Book
<1>10. d[n + 1].of = Len(due') + 1 /\ d[n + 1].first /\ d[n + 1].size = chunkSize'
  BY <1>8, <1>9
<1>11. Book(d)'
  BY <1>3, <1>6, <1>7, <1>10 DEF Book
<1>12. d[1] = b[2]
  BY <1>3, <1>5
<1>13. QED
  BY <1>3, <1>6, <1>11, <1>12

\* With nothing put on the wire or taken from it, a book stays one.
LEMMA BookStays ==
  ASSUME TypeInv, Grows, NEW b \in [1 .. Len(wire) + 1 -> Places], Book(b),
         UNCHANGED <<due, wire, chunkSize>>
  PROVE  Book(b)'
<1>1. Len(wire) \in Nat
  BY DEF TypeInv
<1>2. ASSUME NEW j \in 1 .. Len(wire) PROVE Link(b[j], wire[j], b[j + 1])'
  <2>1. j \in 1 .. Len(wire) + 1 /\ j + 1 \in 1 .. Len(wire) + 1
    BY <1>1
  <2>2. PICK e \in Places, f \in Places : e = b[j] /\ f = b[j + 1]
    BY <2>1
  <2>3. PICK c : c = wire[j]
    OBVIOUS
  <2>4. Link(e, c, f)
    BY <2>2, <2>3 DEF Book
  <2>5. Link(e, c, f)'
    BY <2>4, LinkGrows
  <2>6. c = wire'[j]
    BY <2>3
  <2>7. QED
    BY <2>2, <2>5, <2>6, Zenon
<1>3. LET end == b[Len(wire) + 1]
      IN  end.of = Len(due) + 1 /\ end.first /\ end.size = chunkSize
  BY DEF Book
<1>4. Len(wire') = Len(wire) /\ Len(due') = Len(due) /\ chunkSize' = chunkSize
  OBVIOUS
<1>5. QED
  BY <1>2, <1>3, <1>4, Zenon DEF Book

\* Decode keeps the invariant.
LEMMA DecodeStep ==
  ASSUME IInv, Decode
  PROVE  IInv'
<1>1. /\ TypeInv /\ EncoderInv /\ Clocked /\ BrokenInv /\ wire # <<>>
  BY DEF IInv, Decode
<1>2. PICK b \in [1 .. Len(wire) + 1 -> Places] : Book(b) /\ DecoderAt(b[1])
  BY DEF IInv
<1>3. PICK e \in Places, f \in Places : e = b[1] /\ f = b[2] /\ Link(e, Head(wire), f)
  BY <1>1, <1>2, HeadOfBook
<1>4. DecoderAt(e)
  BY <1>2, <1>3
<1>5. PICK ch, hdr, c : ch = HeadChannel /\ hdr = HeadHeader /\ c = Head(wire)
  OBVIOUS
<1>6. /\ Tells(hdr, e) /\ ch \in AllChannels /\ ch = due[e.of].channel /\ Link(e, c, f)
      /\ UNCHANGED <<encoderVars, broken>> /\ wire' = Tail(wire)
      /\ incomplete' = [incomplete EXCEPT ![ch] = hdr]
      /\ ~(e.left <= e.size) => /\ missing' = [missing EXCEPT ![ch] = e.left - e.size]
                                /\ UNCHANGED <<clock, received, decoderChunk>>
      /\ e.left <= e.size => Complete(ch, hdr, due[e.of].value)
  BY <1>1, <1>3, <1>4, <1>5, DecodeDoes
<1>7. UNCHANGED <<sent, due, chunkSize, prevHeaders>> /\ Grows
  <2>1. UNCHANGED <<sent, due, chunkSize, prevHeaders>>
    BY <1>6 DEF encoderVars
  <2>2. QED
    BY <1>1, <2>1, UnchangedGrows
<1>8. hdr \in Headers /\ (hdr.fmt # "large" => clock[ch] \in Int)
  BY <1>6 DEF Tells
<1>9. /\ DecoderAt(f)' /\ received' \in Seq(Decoded) /\ Clocked'
      /\ missing' \in [AllChannels -> Nat \cup {None}]
      /\ clock' \in [AllChannels -> Int \cup {None}]
  <2>1. CASE e.left <= e.size
    <3>1. Complete(ch, hdr, due[e.of].value)
      BY <1>6, <2>1
    <3>2. DecoderAt(f)' /\ received' \in Seq(Decoded)
      BY <1>1, <1>4, <1>6, <1>7, <2>1, <3>1, MessageComplete
    <3>3. /\ clock' = [clock EXCEPT ![ch] = TimeOf(hdr, ch)]
          /\ missing' = [missing EXCEPT ![ch] = None]
      BY <3>1 DEF Complete, TimeOf
    <3>4. TimeOf(hdr, ch) \in Int
      BY <1>8, TimeOfType
    <3>5. Clocked'
      BY <1>1, <1>6, <1>8, <3>3, DecodeClocked
    <3>6. QED
      BY <1>1, <3>2, <3>3, <3>4, <3>5 DEF TypeInv
  <2>2. CASE ~(e.left <= e.size)
    <3>1. missing' = [missing EXCEPT ![ch] = e.left - e.size] /\ UNCHANGED <<clock, received, decoderChunk>>
      BY <1>6, <2>2
    <3>2. DecoderAt(f)'
      BY <1>1, <1>4, <1>6, <1>7, <2>2, <3>1, MoreRemain
    <3>3. e.left - e.size \in Nat
      BY <2>2 DEF Places
    <3>4. Clocked'
      BY <1>1, <1>6, <1>8, <3>1, <3>3, DecodeClocked
    <3>5. QED
      BY <1>1, <3>1, <3>2, <3>3, <3>4 DEF TypeInv
  <2>3. QED
    BY <2>1, <2>2
<1>10. decoderChunk' = f.size
  BY <1>9 DEF DecoderAt
<1>11. TypeInv'
  BY <1>1, <1>6, <1>8, <1>9, <1>10, DecodeTypes
<1>12. EncoderInv'
  BY <1>1, <1>6, SameEncoder
<1>13. BrokenInv'
  BY <1>1, <1>6, <1>7, BrokenGrows
<1>14. PICK d \in [1 .. Len(wire') + 1 -> Places] : Book(d)' /\ d[1] = b[2]
  BY <1>1, <1>2, <1>6, <1>7, TailBook
<1>15. DecoderAt(d[1])'
  BY <1>3, <1>9, <1>14
<1>16. QED
  BY <1>9, <1>11, <1>12, <1>13, <1>14, <1>15 DEF IInv

-----------------------------------------------------------------------------
(* The decoder fails only where a channel is not sound. *)

\* A failure of the decoder keeps it.
LEMMA DecodeFailsStep ==
  ASSUME IInv, DecodeFails
  PROVE  IInv'
<1>1. /\ TypeInv /\ EncoderInv /\ Clocked /\ wire # <<>> /\ Undecodable(Head(wire).header)
  BY DEF IInv, DecodeFails
<1>2. PICK b \in [1 .. Len(wire) + 1 -> Places] : Book(b) /\ DecoderAt(b[1])
  BY DEF IInv
<1>3. PICK e \in Places, f \in Places : e = b[1] /\ f = b[2] /\ Link(e, Head(wire), f)
  BY <1>1, <1>2, HeadOfBook
<1>4. DecoderAt(e)
  BY <1>2, <1>3
<1> DEFINE h == Head(wire).header
           ch == HeadChannel
<1>5. e.of \in DOMAIN due /\ ch = due[e.of].channel /\ ch \in AllChannels
  BY <1>1, <1>3, HeadAt
<1>6. ~Sound(ch)
  <2>1. SUFFICES ASSUME Sound(ch) PROVE FALSE
    OBVIOUS
  <2>2. due[e.of].time < Half /\ due[e.of].time \in Nat /\ Half \in Nat \ {0}
    BY <1>1, <1>5, <2>1, DueTypes, MessageType, ChunkAssumption
  <2>3. CASE e.first
    <3>1. TrueHeader(h, e.of)
      BY <1>1, <1>3, <2>3, HeadAt
    <3>2. CASE h.fmt = "large"
      <4>1. h.stamp = due[e.of].time
        BY <3>1, <3>2 DEF TrueHeader
      <4>2. h.stamp >= MaxNormalHeaderTime
        BY <1>1, <3>2 DEF Undecodable
      <4>3. QED
        BY <2>2, <4>1, <4>2 DEF MaxNormalHeaderTime
    <3>3. CASE h.fmt # "large"
      <4>1. Compressed(h, e.of) /\ h.fmt # "tiny"
        BY <3>1, <3>3 DEF TrueHeader
      <4>2. incomplete[ch] \in Headers /\ h.stamp < Half
        BY <1>1, <1>4, <1>5, <2>1, <2>3, <4>1, LeansOn
      <4>3. incomplete[ch] # None
        BY <4>2, ChunkAssumption
      <4>4. h.stamp >= MaxNormalHeaderTime
        BY <1>1, <4>1, <4>3 DEF Undecodable, HeadChannel
      <4>5. h.stamp \in Nat
        BY <4>1 DEF Compressed
      <4>6. QED
        BY <2>2, <4>2, <4>4, <4>5 DEF MaxNormalHeaderTime
    <3>4. QED
      BY <3>2, <3>3
  <2>4. CASE ~e.first
    <3>1. h.fmt = "tiny"
      BY <1>1, <1>3, <2>4, HeadAt
    <3>2. incomplete[ch] = None
      BY <1>1, <3>1 DEF Undecodable, HeadChannel
    <3>3. e.of \in 1 .. e.of /\ e.of + 1 .. e.of = {} /\ Begun(e) = e.of
      BY <1>1, <1>5, <2>4, DueTypes DEF Begun
    <3>4. LastOn(e.of, ch, Begun(e))
      BY <1>5, <3>3 DEF LastOn
    <3>5. incomplete[ch] \in Headers
      BY <1>4, <1>5, <3>3, <3>4 DEF DecoderAt, Keeps
    <3>6. QED
      BY <3>2, <3>5, ChunkAssumption
  <2>5. QED
    BY <2>3, <2>4
<1>7. PICK c0 \in AllChannels : ~Sound(c0)
  BY <1>5, <1>6
<1>8. /\ broken' = TRUE
      /\ UNCHANGED <<chunkSize, prevHeaders, sent, due, wire, decoderChunk, incomplete, missing,
                     clock, received>>
  BY DEF DecodeFails, encoderVars
<1>9. Grows
  BY <1>1, <1>8, UnchangedGrows
<1>10. BrokenInv'
  BY <1>7, <1>9, ChannelsGrow DEF BrokenInv
<1>11. TypeInv' /\ Clocked'
  BY <1>1, <1>8 DEF TypeInv, Clocked
<1>12. EncoderInv'
  BY <1>1, <1>8, SameEncoder DEF encoderVars
<1>13. Book(b)' /\ DecoderAt(b[1])'
  <2>1. Book(b)'
    BY <1>1, <1>2, <1>8, <1>9, BookStays
  <2>2. DecoderAt(b[1])'
    BY <1>2, <1>8, SMTT(30) DEF DecoderAt, Keeps, TimesKept, TimeOf, LastOn, Sound, Clean
  <2>3. QED
    BY <2>1, <2>2
<1>14. QED
  BY <1>8, <1>10, <1>11, <1>12, <1>13 DEF IInv

-----------------------------------------------------------------------------
(* The encoder takes a message. *)

\* The chunk size and the previous headers a message is encoded with.
SizeFor(m) == IF m.type = "chunkSize" THEN m.value ELSE chunkSize
PrevsFor(m) == IF m.type = "begin" THEN [ch \in AllChannels |-> None] ELSE prevHeaders

\* What Encode does, with its definitions named.
LEMMA EncodeDoes ==
  ASSUME TypeInv, NEW m \in Messages, Encode(m)
  PROVE  /\ SizeFor(m) \in Nat \ {0} /\ PrevsFor(m) \in [AllChannels -> [time: Nat, size: Nat] \cup {None}]
         /\ \A ch \in AllChannels : PrevsFor(m)[ch] # None => PrevsFor(m)[ch] = prevHeaders[ch]
         /\ m.size = 0 => SizeFor(m) = chunkSize
         /\ chunkSize' = SizeFor(m)
         /\ prevHeaders' = [PrevsFor(m) EXCEPT ![m.channel] = [time |-> m.time, size |-> m.size]]
         /\ wire' = wire \o Chunks(m, PrevsFor(m)[m.channel], SizeFor(m))
         /\ sent' = Append(sent, m) /\ due' = IF m.size > 0 THEN Append(due, m) ELSE due
         /\ UNCHANGED <<decoderChunk, incomplete, missing, clock, received, broken>>
<1>1. /\ m.type = "chunkSize" => m.value \in ChunkSizes /\ m.size = 1
  BY MessageType
<1>2. SizeFor(m) \in Nat \ {0} /\ (m.size = 0 => SizeFor(m) = chunkSize)
  BY <1>1, ChunkAssumption DEF SizeFor, TypeInv
<1>3. /\ PrevsFor(m) \in [AllChannels -> [time: Nat, size: Nat] \cup {None}]
      /\ \A ch \in AllChannels : PrevsFor(m)[ch] # None => PrevsFor(m)[ch] = prevHeaders[ch]
  BY DEF PrevsFor, TypeInv
<1>4. /\ chunkSize' = SizeFor(m)
      /\ prevHeaders' = [PrevsFor(m) EXCEPT ![m.channel] = [time |-> m.time, size |-> m.size]]
      /\ wire' = wire \o Chunks(m, PrevsFor(m)[m.channel], SizeFor(m))
      /\ sent' = Append(sent, m) /\ due' = IF m.size > 0 THEN Append(due, m) ELSE due
      /\ UNCHANGED decoderVars
  BY DEF Encode, SizeFor, PrevsFor
<1>5. UNCHANGED <<decoderChunk, incomplete, missing, clock, received, broken>>
  BY <1>4 DEF decoderVars
<1>6. QED
  BY <1>2, <1>3, <1>4, <1>5

\* A message more is a way to grow.
LEMMA AppendGrows ==
  ASSUME TypeInv, NEW m \in Messages, sent' = Append(sent, m),
         due' = IF m.size > 0 THEN Append(due, m) ELSE due
  PROVE  /\ Grows
         /\ Len(sent) \in Nat /\ Len(sent') = Len(sent) + 1 /\ sent'[Len(sent) + 1] = m
         /\ Len(sent) + 1 \in DOMAIN sent'
         /\ Len(due) \in Nat
         /\ m.size > 0 => /\ Len(due') = Len(due) + 1 /\ due'[Len(due) + 1] = m
                          /\ Len(due) + 1 \in DOMAIN due'
         /\ \A i \in DOMAIN due' : \E j \in DOMAIN sent' : sent'[j] = due'[i]
<1>1. /\ sent \in Seq(Messages) /\ due \in Seq(Whole)
      /\ \A i \in DOMAIN due : \E j \in DOMAIN sent : sent[j] = due[i]
  BY DEF TypeInv
<1>2. /\ Len(sent) \in Nat /\ sent' \in Seq(Messages) /\ Len(sent') = Len(sent) + 1
      /\ DOMAIN sent = 1 .. Len(sent)
      /\ DOMAIN sent' = 1 .. Len(sent) + 1 /\ sent'[Len(sent) + 1] = m
      /\ \A i \in 1 .. Len(sent) : sent'[i] = sent[i]
  BY <1>1
<1>3. Len(due) \in Nat /\ DOMAIN due = 1 .. Len(due)
  BY <1>1
<1>4. CASE m.size > 0
  <2>1. m \in Whole
    BY <1>4 DEF Whole
  <2>2. /\ due' \in Seq(Whole) /\ Len(due') = Len(due) + 1
        /\ DOMAIN due' = 1 .. Len(due) + 1 /\ due'[Len(due) + 1] = m
        /\ \A i \in 1 .. Len(due) : due'[i] = due[i]
    BY <1>1, <1>4, <2>1
  <2>3. ASSUME NEW i \in DOMAIN due' PROVE \E j \in DOMAIN sent' : sent'[j] = due'[i]
    <3>1. CASE i = Len(due) + 1
      BY <1>2, <2>2, <3>1
    <3>2. CASE i \in DOMAIN due
      <4>1. PICK j \in DOMAIN sent : sent[j] = due[i]
        BY <1>1, <3>2
      <4>2. j \in DOMAIN sent' /\ sent'[j] = sent[j] /\ due'[i] = due[i]
        BY <1>2, <1>3, <2>2, <3>2
      <4>3. QED
        BY <4>1, <4>2
    <3>3. QED
      BY <1>3, <2>2, <3>1, <3>2
  <2>4. QED
    BY <1>1, <1>2, <1>3, <2>2, <2>3 DEF Grows
<1>5. CASE ~(m.size > 0)
  <2>1. due' = due
    BY <1>5
  <2>2. ASSUME NEW i \in DOMAIN due PROVE \E j \in DOMAIN sent' : sent'[j] = due[i]
    <3>1. PICK j \in DOMAIN sent : sent[j] = due[i]
      BY <1>1
    <3>2. j \in DOMAIN sent' /\ sent'[j] = sent[j]
      BY <1>2
    <3>3. QED
      BY <3>1, <3>2
  <2>3. Grows
    <3>1. Len(sent) <= Len(sent')
      BY <1>2
    <3>2. Len(due) <= Len(due') /\ due' \in Seq(Whole) /\ \A i \in 1 .. Len(due) : due'[i] = due[i]
      <4>1. Len(due') = Len(due) /\ due' \in Seq(Whole) /\ \A i \in 1 .. Len(due) : due'[i] = due[i]
        BY <1>1, <2>1, Zenon
      <4>2. Len(due) <= Len(due')
        <5>1. PICK l \in Nat : l = Len(due)
          BY <1>3
        <5>2. l <= l
          OBVIOUS
        <5>3. QED
          BY <4>1, <5>1, <5>2, Zenon
      <4>3. QED
        BY <4>1, <4>2
    <3>3. QED
      BY <1>1, <1>2, <3>1, <3>2, Zenon DEF Grows
  <2>4. \A i \in DOMAIN due' : \E j \in DOMAIN sent' : sent'[j] = due'[i]
    BY <2>1, <2>2
  <2>5. QED
    BY <1>2, <1>3, <1>5, <2>3, <2>4
<1>6. QED
  BY <1>4, <1>5

\* The header written for a message is a header.
LEMMA HeaderTyped ==
  ASSUME NEW m \in Messages, NEW prev, prev \in [time: Nat, size: Nat] \cup {None}
  PROVE  Header(m, prev) \in ChunkHeaders
<1>1. /\ m.time \in Nat /\ m.size \in Nat /\ m.type \in Types /\ m.stream \in Nat /\ m.channel \in AllChannels
  BY MessageType
<1>2. HeaderType(m, prev) \in {"large", "medium", "small"}
  BY DEF HeaderType
<1>3. HeaderType(m, prev) # "large" => DeltaTime(m, prev) \in Nat
  <2>1. SUFFICES ASSUME HeaderType(m, prev) # "large" PROVE DeltaTime(m, prev) \in Nat
    OBVIOUS
  <2>2. prev.time \in Nat
    BY <2>1 DEF HeaderType
  <2>3. PICK d \in Int : d = m.time - prev.time
    BY <1>1, <2>2
  <2>4. DeltaTime(m, prev) = IF d <= 0 THEN 0 ELSE d
    BY <2>3, MaxWithZero DEF DeltaTime
  <2>5. QED
    BY <2>3, <2>4
<1>4. QED
  BY <1>1, <1>2, <1>3 DEF Header, ChunkHeaders

\* The header is a true one for the message it is written for.
LEMMA HeaderIsTrue ==
  ASSUME TypeInv, EncoderInv, Grows, NEW m \in Messages, m.size > 0,
         NEW i, i = Len(due) + 1, i \in DOMAIN due', due'[i] = m,
         NEW prev, prev \in [time: Nat, size: Nat] \cup {None},
         prev # None => prev = prevHeaders[m.channel]
  PROVE  TrueHeader(Header(m, prev), i)'
<1> DEFINE h == Header(m, prev)
<1>0. PICK ch : ch = m.channel
  OBVIOUS
<1>1. h.channel = ch /\ h.fmt = HeaderType(m, prev)
  BY <1>0 DEF Header
<1>2. Len(due) \in Nat /\ i - 1 = Len(due) /\ DOMAIN due = 1 .. Len(due)
      /\ \A p \in 1 .. Len(due) : due'[p] = due[p]
  BY DEF Grows
<1>3. CASE HeaderType(m, prev) = "large"
  <2>1. h.fmt = "large" /\ h.stamp = m.time /\ h.size = m.size /\ h.type = m.type /\ h.stream = m.stream
    BY <1>3 DEF Header
  <2> HIDE DEF h
  <2>2. TrueHeader(h, i)'
    BY <1>0, <1>1, <2>1, Zenon DEF TrueHeader
  <2>3. QED
    BY <2>2 DEF h
<1>4. CASE HeaderType(m, prev) # "large"
  <2>1. prev # None /\ m.stream > 0 /\ m.time > 0 /\ prev = prevHeaders[ch]
    BY <1>0, <1>4 DEF HeaderType
  <2>2. ch \in AllChannels /\ prev.size \in Nat
    BY <1>0, <2>1, MessageType
  <2>3. h.stamp = DeltaTime(m, prev) /\ h.stamp \in Nat
    <3>1. h \in ChunkHeaders /\ h.stamp = DeltaTime(m, prev)
      BY <1>4, HeaderTyped DEF Header
    <3>2. prev.time \in Nat /\ m.time \in Nat
      BY <2>1, MessageType
    <3>3. PICK d \in Int : d = m.time - prev.time
      BY <3>2
    <3>4. DeltaTime(m, prev) = IF d <= 0 THEN 0 ELSE d
      BY <3>3, MaxWithZero DEF DeltaTime
    <3>5. QED
      BY <3>1, <3>3, <3>4
  <2>4. ASSUME prev.size > 0
        PROVE  \E p \in 1 .. i - 1 : /\ LastOn(p, ch, i - 1)' /\ due'[p].size = prev.size
                                     /\ h.stamp = DeltaTime(m, due'[p])
    <3>1. PICK p \in DOMAIN due : /\ LastOn(p, ch, Len(due))
                                  /\ due[p].size = prev.size /\ due[p].time = prev.time
      BY <2>1, <2>2, <2>4 DEF EncoderInv
    <3>2. PICK l \in Nat : l = Len(due) /\ l = i - 1 /\ l <= Len(due)
      BY <1>2
    <3>3. LastOn(p, ch, l)
      BY <3>1, <3>2
    <3>4. LastOn(p, ch, l)'
      BY <3>2, <3>3, LastOnGrows
    <3>5. due'[p] = due[p] /\ p \in 1 .. i - 1
      BY <1>2
    <3>6. DeltaTime(m, due'[p]) = DeltaTime(m, prev)
      BY <3>1, <3>5 DEF DeltaTime
    <3>7. LastOn(p, ch, i - 1)'
      BY <3>2, <3>4, Zenon
    <3>8. QED
      BY <2>3, <3>1, <3>5, <3>6, <3>7
  <2>5. Compressed(h, i)'
    <3>1. ASSUME Solid(ch)'
          PROVE  \E p \in 1 .. i - 1 : /\ LastOn(p, ch, i - 1)' /\ h.stamp = DeltaTime(due'[i], due'[p])
      <4>1. Solid(ch)
        BY <3>1, ChannelsGrow
      <4>2. prev.size # 0
        BY <2>1, <2>2, <4>1 DEF EncoderInv
      <4>3. QED
        BY <2>2, <2>4, <4>2
    <3> HIDE DEF h
    <3>2. due'[i].stream > 0 /\ due'[i].time > 0 /\ h.stamp \in Nat /\ due'[i].channel = ch
      BY <1>0, <2>1, <2>3
    <3>3. QED
      BY <3>1, <3>2, Zenon DEF Compressed
  <2>6. CASE h.fmt = "small"
    <3>1. m.size = prev.size
      BY <1>1, <2>6 DEF HeaderType
    <3>2. PICK p \in 1 .. i - 1 : LastOn(p, ch, i - 1)' /\ due'[p].size = due'[i].size
      BY <2>4, <3>1
    <3>3. due'[i].channel = ch /\ h.channel = due'[i].channel
      BY <1>0, <1>1
    <3> HIDE DEF h
    <3>4. TrueHeader(h, i)'
      BY <2>5, <2>6, <3>2, <3>3, Zenon DEF TrueHeader
    <3>5. QED
      BY <3>4 DEF h
  <2>7. CASE h.fmt = "medium"
    <3>1. h.size = due'[i].size /\ h.type = due'[i].type
      BY <1>1, <2>7 DEF Header
    <3>2. h.channel = due'[i].channel
      BY <1>0, <1>1
    <3> HIDE DEF h
    <3>3. TrueHeader(h, i)'
      BY <2>5, <2>7, <3>1, <3>2, Zenon DEF TrueHeader
    <3>4. QED
      BY <3>3 DEF h
  <2>8. HeaderType(m, prev) \in {"large", "medium", "small"}
    BY DEF HeaderType
  <2>9. QED
    BY <1>1, <1>4, <2>6, <2>7, <2>8
<1>5. QED
  BY <1>3, <1>4

\* The encoder remembers the last message of each channel.
LEMMA EncodeRemembers ==
  ASSUME TypeInv, EncoderInv, NEW m \in Messages, Encode(m)
  PROVE  EncoderInv'
<1>p. PICK prevs : prevs = PrevsFor(m)
  OBVIOUS
<1>0. PICK ch \in AllChannels : ch = m.channel /\ prevs = PrevsFor(m)
  BY <1>p, MessageType
<1>1. /\ prevs \in [AllChannels -> [time: Nat, size: Nat] \cup {None}]
      /\ \A c \in AllChannels : prevs[c] # None => prevs[c] = prevHeaders[c]
      /\ prevHeaders' = [prevs EXCEPT ![ch] = [time |-> m.time, size |-> m.size]]
      /\ sent' = Append(sent, m) /\ due' = IF m.size > 0 THEN Append(due, m) ELSE due
      /\ m.size \in Nat
  BY <1>0, EncodeDoes, MessageType
<1>2. /\ Grows
      /\ Len(sent) \in Nat /\ sent'[Len(sent) + 1] = m /\ Len(sent) + 1 \in DOMAIN sent'
      /\ Len(due) \in Nat
      /\ m.size > 0 => /\ Len(due') = Len(due) + 1 /\ due'[Len(due) + 1] = m
                       /\ Len(due) + 1 \in DOMAIN due'
  BY <1>1, AppendGrows
<1>3. ASSUME NEW c \in AllChannels, prevHeaders'[c] # None
      PROVE  /\ prevHeaders'[c].size > 0 =>
                  \E p \in DOMAIN due' : /\ LastOn(p, c, Len(due))'
                                         /\ due'[p].size = prevHeaders'[c].size
                                         /\ due'[p].time = prevHeaders'[c].time
             /\ prevHeaders'[c].size = 0 => ~Solid(c)'
  <2>1. CASE c = ch
    <3>1. prevHeaders'[c] = [time |-> m.time, size |-> m.size]
      BY <1>1, <2>1
    <3>2. ASSUME m.size > 0
          PROVE  \E p \in DOMAIN due' : /\ LastOn(p, c, Len(due))'
                                        /\ due'[p].size = m.size /\ due'[p].time = m.time
      <4>1. PICK p \in Nat : p = Len(due) + 1
        BY <1>2
      <4>2. p \in DOMAIN due' /\ due'[p] = m /\ p = Len(due')
        BY <1>2, <3>2, <4>1
      <4>3. p \in 1 .. p /\ p + 1 .. p = {}
        BY <1>2, <4>1
      <4>4. LastOn(p, c, p)'
        BY <1>0, <2>1, <4>2, <4>3 DEF LastOn
      <4>5. LastOn(p, c, Len(due))'
        BY <4>2, <4>4, Zenon
      <4>6. QED
        BY <4>2, <4>5
    <3>3. m.size = 0 => ~Solid(c)'
      <4>1. SUFFICES ASSUME m.size = 0, Solid(c)' PROVE FALSE
        OBVIOUS
      <4>2. m.size > 0
        BY <1>0, <1>2, <2>1, <4>1 DEF Solid
      <4>3. QED
        BY <4>1, <4>2
    <3>4. QED
      BY <3>1, <3>2, <3>3
  <2>2. CASE c # ch
    <3>1. prevHeaders'[c] = prevHeaders[c] /\ prevHeaders[c] # None
      BY <1>1, <1>3, <2>2
    <3>2. ASSUME prevHeaders[c].size > 0
          PROVE  \E p \in DOMAIN due' : /\ LastOn(p, c, Len(due))'
                                        /\ due'[p].size = prevHeaders[c].size
                                        /\ due'[p].time = prevHeaders[c].time
      <4>1. PICK p \in DOMAIN due : /\ LastOn(p, c, Len(due))
                                    /\ due[p].size = prevHeaders[c].size
                                    /\ due[p].time = prevHeaders[c].time
        BY <3>1, <3>2 DEF EncoderInv
      <4>2. PICK l \in Nat : l = Len(due) /\ l <= Len(due)
        BY <1>2
      <4>3. LastOn(p, c, l)'
        <5>1. LastOn(p, c, l)
          BY <4>1, <4>2
        <5>2. QED
          BY <1>2, <4>2, <5>1, LastOnGrows
      <4>4. p \in DOMAIN due' /\ due'[p] = due[p]
        BY <1>2 DEF Grows
      <4>5. CASE m.size > 0
        <5>1. PICK k \in Nat : k = l + 1 /\ k = Len(due')
          BY <1>2, <4>2, <4>5
        <5>2. due'[k].channel # c
          BY <1>0, <1>2, <2>2, <4>2, <4>5, <5>1
        <5>3. p \in 1 .. l /\ p \in 1 .. k
          BY <4>3, <5>1 DEF LastOn
        <5>4. \A q \in p + 1 .. k : q \in p + 1 .. l \/ q = k
          BY <5>1, <5>3
        <5>5. LastOn(p, c, k)'
          BY <4>3, <5>2, <5>3, <5>4 DEF LastOn
        <5>6. LastOn(p, c, Len(due))'
          BY <5>1, <5>5, Zenon
        <5>7. QED
          BY <4>1, <4>4, <5>6
      <4>6. CASE ~(m.size > 0)
        <5>1. l = Len(due')
          BY <1>1, <4>2, <4>6
        <5>2. LastOn(p, c, Len(due))'
          BY <4>3, <5>1, Zenon
        <5>3. QED
          BY <4>1, <4>4, <5>2
      <4>7. QED
        BY <4>5, <4>6
    <3>3. prevHeaders[c].size = 0 => ~Solid(c)'
      <4>1. prevHeaders[c].size = 0 => ~Solid(c)
        BY <3>1 DEF EncoderInv
      <4>2. QED
        BY <1>2, <4>1, ChannelsGrow
    <3>4. QED
      BY <3>1, <3>2, <3>3
  <2>3. QED
    BY <2>1, <2>2
<1>4. QED
  BY <1>3, Zenon DEF EncoderInv

\* The k-th chunk of m, and all of them, with the header h on the first.
ChunkOf(c, m, h, n, k) ==
  /\ k = 1 => c.header = h
  /\ k # 1 => c.header = TinyHeader(m.channel)
  /\ c.value = m.value
  /\ c.payload = IF n <= Left(m.size, n, k) THEN n ELSE Left(m.size, n, k)
ChunksOf(s, m, h, n) ==
  /\ s \in Seq(ChunksOnWire) /\ Len(s) = Count(m.size, n)
  /\ \A k \in 1 .. Count(m.size, n) : ChunkOf(s[k], m, h, n, k)

\* The chunks of a message.
LEMMA ChunksType ==
  ASSUME NEW m \in Messages, NEW prev, prev \in [time: Nat, size: Nat] \cup {None},
         NEW n \in Nat \ {0}
  PROVE  /\ m.size = 0 => Chunks(m, prev, n) = <<>>
         /\ Chunks(m, prev, n) \in Seq(ChunksOnWire)
         /\ m.size > 0 => ChunksOf(Chunks(m, prev, n), m, Header(m, prev), n)
<1> DEFINE chunk(k) == [header  |-> IF k = 1 THEN Header(m, prev) ELSE TinyHeader(m.channel),
                        payload |-> Min({n, Left(m.size, n, k)}),
                        value   |-> m.value]
           s == Chunks(m, prev, n)
           K == Count(m.size, n)
<1>1. s = [k \in 1 .. K |-> chunk(k)]
  BY DEF Chunks, Count, Left
<1>2. m.size \in Nat /\ m.value \in ChunkSizes \cup {None} /\ m.channel \in AllChannels
  BY MessageType
<1>3. Header(m, prev) \in ChunkHeaders /\ TinyHeader(m.channel) \in ChunkHeaders
  BY <1>2, HeaderTyped DEF TinyHeader, ChunkHeaders
<1>4. m.size = 0 => K = 0
  BY NoChunks
<1>5. m.size = 0 => s = <<>>
  <2>1. SUFFICES ASSUME m.size = 0 PROVE s = <<>>
    OBVIOUS
  <2>2. 1 .. K = {}
    BY <1>4, <2>1
  <2>3. s = [k \in {} |-> chunk(k)]
    BY <1>1, <2>2, Zenon
  <2> HIDE DEF s, chunk
  <2>4. QED
    BY <2>3
<1>6. K \in Nat
  BY <1>2, <1>4, CountBounds
<1>7. ASSUME NEW k \in 1 .. K
      PROVE  /\ chunk(k).payload = IF n <= Left(m.size, n, k) THEN n ELSE Left(m.size, n, k)
             /\ chunk(k) \in ChunksOnWire
  <2>1. m.size \in Nat \ {0}
    BY <1>2, <1>4, <1>7
  <2>2. Left(m.size, n, k) \in Nat
    BY <2>1, LeftAt
  <2>3. Min({n, Left(m.size, n, k)}) = IF n <= Left(m.size, n, k) THEN n ELSE Left(m.size, n, k)
    BY <2>2, MinOfTwo
  <2>4. Min({n, Left(m.size, n, k)}) \in Nat
    BY <2>2, <2>3
  <2>5. QED
    BY <1>2, <1>3, <2>3, <2>4 DEF ChunksOnWire
<1> HIDE DEF s, K
<1>8. s \in Seq(ChunksOnWire)
  <2> HIDE DEF chunk
  <2>1. s \in [1 .. K -> ChunksOnWire]
    BY <1>1, <1>7
  <2>2. QED
    BY <1>6, <2>1
<1>9. Len(s) = K
  BY <1>1, <1>6
<1>10. ASSUME NEW k \in 1 .. K
       PROVE  ChunkOf(s[k], m, Header(m, prev), n, k)
  <2>1. s[k] = chunk(k)
    BY <1>1
  <2>2. QED
    BY <1>7, <2>1 DEF ChunkOf
<1>11. QED
  BY <1>5, <1>8, <1>9, <1>10 DEF s, K, ChunksOf

\* The place behind the k-th chunk of the i-th message m.
Behind(f, i, m, n, k, old) ==
  /\ k = Count(m.size, n) => f.of = i + 1 /\ f.first /\ f.size = n
  /\ k # Count(m.size, n) => /\ f.of = i /\ ~f.first
                             /\ f.left = Left(m.size, n, k + 1) /\ f.size = old

\* A chunk of the new message, and the places it lies between.
LEMMA ChunkLinks ==
  ASSUME NEW m \in Messages, m.size > 0, NEW old \in Nat \ {0}, NEW n \in Nat \ {0},
         n = IF m.type = "chunkSize" THEN m.value ELSE old,
         NEW i, i \in DOMAIN due', due'[i] = m,
         NEW h, TrueHeader(h, i)',
         NEW k \in 1 .. Count(m.size, n), NEW c, ChunkOf(c, m, h, n, k),
         NEW e \in Places,
         e = [of |-> i, first |-> k = 1, left |-> Left(m.size, n, k), size |-> old],
         NEW f \in Places, Behind(f, i, m, n, k, old)
  PROVE  Link(e, c, f)'
<1>0. /\ k = 1 => c.header = h
      /\ k # 1 => c.header = TinyHeader(m.channel)
      /\ c.value = m.value
      /\ c.payload = IF n <= Left(m.size, n, k) THEN n ELSE Left(m.size, n, k)
      /\ k = Count(m.size, n) => f.of = i + 1 /\ f.first /\ f.size = n
      /\ k # Count(m.size, n) => /\ f.of = i /\ ~f.first
                                 /\ f.left = Left(m.size, n, k + 1) /\ f.size = old
  BY DEF ChunkOf, Behind
<1> USE <1>0
<1>1. m.size \in Nat \ {0} /\ (m.type = "chunkSize" => m.size = 1)
  BY MessageType
<1>2. PICK x \in Nat \ {0} : x = Left(m.size, n, k)
  BY <1>1, LeftAt
<1>3. /\ x <= m.size /\ (k = 1 => x = m.size) /\ (x <= n <=> k = Count(m.size, n))
      /\ Left(m.size, n, k + 1) = x - n
  BY <1>1, <1>2, LeftAt
<1>4. e.of = i /\ (e.first <=> k = 1) /\ e.left = x /\ e.size = old
  BY <1>2
<1>5. m.type = "chunkSize" => x = 1 /\ k = Count(m.size, n) /\ x <= old
  BY <1>1, <1>2, <1>3
<1>6. m.type # "chunkSize" => n = old
  OBVIOUS
<1>7. x <= old <=> k = Count(m.size, n)
  BY <1>3, <1>5, <1>6
<1>8. c.payload = IF x <= old THEN x ELSE old
  BY <1>2, <1>3, <1>5, <1>6
<1>9. x <= old => f.of = i + 1 /\ f.first /\ f.size = IF m.type = "chunkSize" THEN m.value ELSE old
  BY <1>7
<1>10. ~(x <= old) => f.of = i /\ ~f.first /\ f.left = x - old /\ f.size = old
  BY <1>3, <1>5, <1>6, <1>7
<1>11. QED
  <2>1. /\ e.of \in DOMAIN due' /\ 0 < e.left /\ e.left <= due'[e.of].size
        /\ e.first => e.left = due'[e.of].size
        /\ c.value = due'[e.of].value
        /\ c.payload = IF e.left <= e.size THEN e.left ELSE e.size
    BY <1>2, <1>3, <1>4, <1>8
  <2>2. e.first => TrueHeader(c.header, e.of)'
    <3>1. SUFFICES ASSUME e.first PROVE TrueHeader(c.header, e.of)'
      OBVIOUS
    <3>2. c.header = h /\ e.of = i
      BY <1>4, <3>1
    <3>3. QED
      BY <3>2, Zenon
  <2>3. ~e.first => c.header = TinyHeader(due'[e.of].channel)
    BY <1>4
  <2>4. e.left <= e.size => /\ f.of = e.of + 1 /\ f.first
                            /\ f.size = IF due'[e.of].type = "chunkSize" THEN due'[e.of].value ELSE e.size
    BY <1>4, <1>9
  <2>5. ~(e.left <= e.size) => /\ f.of = e.of /\ ~f.first
                               /\ f.left = e.left - e.size /\ f.size = e.size
    BY <1>4, <1>10
  <2>6. QED
    BY <2>1, <2>2, <2>3, <2>4, <2>5, Zenon DEF Link

\* The decoder stays where it is.
LEMMA DecoderStays ==
  ASSUME TypeInv, Grows, NEW e \in Places, NEW f \in Places, DecoderAt(e),
         f.of = e.of, f.first = e.first, f.size = e.size, ~e.first => f.left = e.left,
         UNCHANGED <<decoderChunk, incomplete, missing, clock, received, broken>>
  PROVE  DecoderAt(f)'
<1>1. /\ Len(received) = e.of - 1 /\ e.of - 1 <= Len(due) /\ decoderChunk = e.size
      /\ ~e.first => e.of \in DOMAIN due /\ 0 < e.left
      /\ missing = [ch \in AllChannels |->
           IF ~e.first /\ ch = due[e.of].channel THEN e.left ELSE None]
      /\ Keeps(e) /\ TimesKept(e)
  BY DEF DecoderAt
<1>2. /\ e.of \in Nat \ {0} /\ e.first \in BOOLEAN /\ Len(due) \in Nat /\ Len(due) <= Len(due')
      /\ DOMAIN due = 1 .. Len(due) /\ Len(due') \in Nat /\ DOMAIN due' = 1 .. Len(due')
      /\ \A i \in 1 .. Len(due) : due'[i] = due[i]
  BY DEF Places, Grows
<1>3. PICK n \in Nat : n = e.of - 1 /\ n <= Len(due)
  BY <1>1, <1>2
<1>4. PICK l \in Nat : l = Begun(e) /\ l <= Len(due)
  <2>1. CASE e.first
    BY <1>3, <2>1 DEF Begun
  <2>2. CASE ~e.first
    BY <1>1, <1>2, <2>2 DEF Begun
  <2>3. QED
    BY <2>1, <2>2
<1>5. Begun(f) = l
  BY <1>4 DEF Begun
<1>6. Keeps(f)'
  <2>1. ASSUME NEW ch \in AllChannels, NEW q \in 1 .. l, LastOn(q, ch, l)'
        PROVE  /\ incomplete'[ch] \in Headers /\ incomplete'[ch].size = due'[q].size
               /\ ch \in Channels => incomplete'[ch].type \in MediaTypes
               /\ ch = ControlChannel \/ Clean(ch)' => /\ incomplete'[ch].type = due'[q].type
                                                       /\ incomplete'[ch].stream = due'[q].stream
    <3>1. LastOn(q, ch, l) /\ (Clean(ch)' => Clean(ch))
      BY <1>4, <2>1, LastOnGrows, ChannelsGrow
    <3>2. due'[q] = due[q]
      BY <1>2, <1>4
    <3>3. q \in 1 .. Begun(e) /\ LastOn(q, ch, Begun(e))
      BY <1>4, <3>1
    <3>4. /\ incomplete[ch] \in Headers /\ incomplete[ch].size = due[q].size
          /\ ch \in Channels => incomplete[ch].type \in MediaTypes
          /\ ch = ControlChannel \/ Clean(ch) => /\ incomplete[ch].type = due[q].type
                                                 /\ incomplete[ch].stream = due[q].stream
      BY <1>1, <3>3 DEF Keeps
    <3>5. incomplete' = incomplete
      OBVIOUS
    <3>6. QED
      BY <3>1, <3>2, <3>4, <3>5
  <2>2. Begun(f)' = l
    BY <1>5 DEF Begun
  <2>3. QED
    BY <2>1, <2>2, Zenon DEF Keeps
<1>7. TimesKept(f)'
  <2>1. f.of - 1 = n /\ f.of = e.of
    BY <1>3
  <2>2. DOMAIN received = 1 .. n
    BY <1>1, <1>3 DEF TypeInv
  <2>3. \A q \in 1 .. n : due'[q] = due[q]
    BY <1>2, <1>3
  <2>4. \A q, ch : LastOn(q, ch, n)' => LastOn(q, ch, n)
    BY <1>3, LastOnGrows
  <2>5. ~e.first => due'[e.of] = due[e.of]
    BY <1>1, <1>2
  <2>6. \A ch : TimeOf(incomplete[ch], ch)' = TimeOf(incomplete[ch], ch)
    BY DEF TimeOf
  <2>7. ASSUME NEW ch \in AllChannels, Sound(ch)'
        PROVE  /\ \A q \in 1 .. n : LastOn(q, ch, n)' => clock[ch] >= due'[q].time
               /\ ~f.first /\ ch = due'[f.of].channel
                    => TimeOf(incomplete[ch], ch)' >= due'[f.of].time
               /\ \A i \in DOMAIN received :
                    due'[i].channel = ch => received[i].time >= due'[i].time
    <3>1. Sound(ch)
      BY <2>7, ChannelsGrow
    <3>2. \A q \in 1 .. n : LastOn(q, ch, n) => clock[ch] >= due[q].time
      BY <1>1, <1>3, <3>1 DEF TimesKept
    <3>3. ~e.first /\ ch = due[e.of].channel => TimeOf(incomplete[ch], ch) >= due[e.of].time
      BY <1>1, <3>1 DEF TimesKept
    <3>4. \A i \in DOMAIN received : due[i].channel = ch => received[i].time >= due[i].time
      BY <1>1, <3>1 DEF TimesKept
    <3>5. \A q \in 1 .. n : LastOn(q, ch, n)' => clock[ch] >= due'[q].time
      BY <2>3, <2>4, <3>2
    <3>6. ~f.first /\ ch = due'[f.of].channel => TimeOf(incomplete[ch], ch)' >= due'[f.of].time
      BY <2>1, <2>5, <2>6, <3>3
    <3>7. \A i \in DOMAIN received : due'[i].channel = ch => received[i].time >= due'[i].time
      BY <2>2, <2>3, <3>4
    <3>8. QED
      BY <3>5, <3>6, <3>7
  <2>8. ASSUME NEW ch \in AllChannels, Clean(ch)'
        PROVE  /\ \A q \in 1 .. n : LastOn(q, ch, n)' => clock[ch] = due'[q].time
               /\ ~f.first /\ ch = due'[f.of].channel
                    => TimeOf(incomplete[ch], ch)' = due'[f.of].time
               /\ \A i \in DOMAIN received : due'[i].channel = ch => received[i] = due'[i]
    <3>1. Clean(ch)
      BY <2>8, ChannelsGrow
    <3>2. \A q \in 1 .. n : LastOn(q, ch, n) => clock[ch] = due[q].time
      BY <1>1, <1>3, <3>1 DEF TimesKept
    <3>3. ~e.first /\ ch = due[e.of].channel => TimeOf(incomplete[ch], ch) = due[e.of].time
      BY <1>1, <3>1 DEF TimesKept
    <3>4. \A i \in DOMAIN received : due[i].channel = ch => received[i] = due[i]
      BY <1>1, <3>1 DEF TimesKept
    <3>5. \A q \in 1 .. n : LastOn(q, ch, n)' => clock[ch] = due'[q].time
      BY <2>3, <2>4, <3>2
    <3>6. ~f.first /\ ch = due'[f.of].channel => TimeOf(incomplete[ch], ch)' = due'[f.of].time
      BY <2>1, <2>5, <2>6, <3>3
    <3>7. \A i \in DOMAIN received : due'[i].channel = ch => received[i] = due'[i]
      BY <2>2, <2>3, <3>4
    <3>8. QED
      BY <3>5, <3>6, <3>7
  <2>9. clock' = clock /\ received' = received
    OBVIOUS
  <2>10. QED
    BY <2>1, <2>7, <2>8, <2>9, ZenonT(60) DEF TimesKept
<1>8. missing' = [ch \in AllChannels |->
        IF ~f.first /\ ch = due'[f.of].channel THEN f.left ELSE None]
  <2>1. CASE e.first
    BY <1>1, <2>1
  <2>2. CASE ~e.first
    <3>1. due'[f.of] = due[e.of] /\ f.left = e.left /\ ~f.first
      BY <1>1, <1>2, <2>2
    <3>2. QED
      BY <1>1, <2>2, <3>1
  <2>3. QED
    BY <1>2, <2>1, <2>2
<1>9. /\ Len(received') = f.of - 1 /\ f.of - 1 <= Len(due') /\ decoderChunk' = f.size
      /\ ~f.first => f.of \in DOMAIN due' /\ 0 < f.left
  BY <1>1, <1>2
<1>10. QED
  BY <1>6, <1>7, <1>8, <1>9 DEF DecoderAt

\* The book after a message with a payload.
LEMMA EncodeBook ==
  ASSUME TypeInv, EncoderInv, NEW m \in Messages, Encode(m), m.size > 0,
         NEW b \in [1 .. Len(wire) + 1 -> Places], Book(b)
  PROVE  \E d \in [1 .. Len(wire') + 1 -> Places] :
           /\ Book(d)'
           /\ d[1].of = b[1].of /\ d[1].first = b[1].first /\ d[1].size = b[1].size
           /\ ~b[1].first => d[1].left = b[1].left
<1>1. PICK n \in Nat \ {0} : n = SizeFor(m)
  BY EncodeDoes
<1>old. PICK old \in Nat \ {0} : old = chunkSize
  BY DEF TypeInv
<1>prev. PICK prev : prev = PrevsFor(m)[m.channel]
  OBVIOUS
<1>2. /\ chunkSize' = n /\ n = IF m.type = "chunkSize" THEN m.value ELSE old
      /\ prev \in [time: Nat, size: Nat] \cup {None}
      /\ prev # None => prev = prevHeaders[m.channel]
      /\ wire' = wire \o Chunks(m, prev, n)
      /\ sent' = Append(sent, m) /\ due' = IF m.size > 0 THEN Append(due, m) ELSE due
  <2>1. m.channel \in AllChannels
    BY MessageType
  <2>2. /\ PrevsFor(m) \in [AllChannels -> [time: Nat, size: Nat] \cup {None}]
        /\ \A ch \in AllChannels : PrevsFor(m)[ch] # None => PrevsFor(m)[ch] = prevHeaders[ch]
        /\ chunkSize' = SizeFor(m)
        /\ wire' = wire \o Chunks(m, PrevsFor(m)[m.channel], SizeFor(m))
        /\ sent' = Append(sent, m) /\ due' = IF m.size > 0 THEN Append(due, m) ELSE due
    BY EncodeDoes
  <2>3. n = IF m.type = "chunkSize" THEN m.value ELSE old
    BY <1>1, <1>old DEF SizeFor
  <2>4. prev \in [time: Nat, size: Nat] \cup {None} /\ (prev # None => prev = prevHeaders[m.channel])
    BY <1>prev, <2>1, <2>2
  <2>5. QED
    BY <1>1, <1>prev, <2>2, <2>3, <2>4, Zenon
<1>3. PICK W \in Nat, D \in Nat, K \in Nat \ {0} :
        W = Len(wire) /\ D = Len(due) /\ K = Count(m.size, n)
  <2>1. m.size \in Nat \ {0}
    BY MessageType
  <2>2. QED
    <3>1. Count(m.size, n) \in Nat \ {0}
      BY <2>1, CountBounds
    <3>2. Len(wire) \in Nat /\ Len(due) \in Nat
      BY DEF TypeInv
    <3>3. QED
      BY <3>1, <3>2
<1>4. Grows /\ Len(due') = D + 1 /\ D + 1 \in DOMAIN due' /\ due'[D + 1] = m
  BY <1>2, <1>3, AppendGrows
<1>5. PICK h : h = Header(m, prev) /\ TrueHeader(h, D + 1)'
  <2>1. PICK i : i = D + 1
    OBVIOUS
  <2>2. TrueHeader(Header(m, prev), i)'
    BY <1>2, <1>3, <1>4, <2>1, HeaderIsTrue
  <2>3. PICK h : h = Header(m, prev)
    OBVIOUS
  <2>4. TrueHeader(h, D + 1)'
    BY <2>1, <2>2, <2>3, Zenon
  <2>5. QED
    BY <2>3, <2>4
<1>6. PICK s : s = Chunks(m, prev, n)
  OBVIOUS
<1>7. ChunksOf(s, m, h, n)
  <2>1. ChunksOf(Chunks(m, prev, n), m, Header(m, prev), n)
    BY <1>2, ChunksType
  <2>2. QED
    BY <1>5, <1>6, <2>1, Zenon
<1>8. /\ wire \in Seq(ChunksOnWire) /\ wire' \in Seq(ChunksOnWire) /\ Len(wire') = W + K
      /\ \A j \in 1 .. W : wire'[j] = wire[j]
      /\ \A j \in W + 1 .. W + K : wire'[j] = s[j - W]
  <2>1. wire \in Seq(ChunksOnWire)
    BY DEF TypeInv
  <2>2. wire' = wire \o s
    BY <1>2, <1>6
  <2>v. PICK v : v = wire'
    OBVIOUS
  <2>3. PICK w \in Seq(ChunksOnWire) : w = wire /\ v = wire' /\ v = w \o s /\ Len(w) = W
    BY <1>3, <2>1, <2>2, <2>v
  <2>4. /\ v \in Seq(ChunksOnWire) /\ Len(v) = W + K
        /\ \A j \in 1 .. W : v[j] = w[j]
        /\ \A j \in W + 1 .. W + K : v[j] = s[j - W]
    <3>1. s \in Seq(ChunksOnWire) /\ Len(s) = K
      BY <1>3, <1>7 DEF ChunksOf
    <3>2. /\ w \o s \in Seq(ChunksOnWire) /\ Len(w \o s) = Len(w) + Len(s)
          /\ \A j \in 1 .. Len(w) + Len(s) :
               (w \o s)[j] = IF j <= Len(w) THEN w[j] ELSE s[j - Len(w)]
      BY <2>3, <3>1, ConcatProperties
    <3>3. /\ v \in Seq(ChunksOnWire) /\ Len(v) = W + K
          /\ \A j \in 1 .. W + K : v[j] = IF j <= W THEN w[j] ELSE s[j - W]
      BY <2>3, <3>1, <3>2, Zenon
    <3>4. \A j \in 1 .. W : j \in 1 .. W + K /\ j <= W
      OBVIOUS
    <3>5. \A j \in W + 1 .. W + K : j \in 1 .. W + K /\ ~(j <= W)
      OBVIOUS
    <3>6. QED
      BY <3>3, <3>4, <3>5
  <2>5. QED
    BY <2>3, <2>4
<1> DEFINE new(k) == [of |-> D + 1, first |-> k = 1, left |-> Left(m.size, n, k), size |-> old]
           end == [of |-> D + 2, first |-> TRUE, left |-> 0, size |-> n]
<1>9. PICK d : d = [j \in 1 .. W + K + 1 |->
                      IF j <= W THEN b[j] ELSE IF j <= W + K THEN new(j - W) ELSE end]
  OBVIOUS
<1>10. /\ \A j \in 1 .. W : d[j] = b[j]
       /\ \A k \in 1 .. K : d[W + k] = new(k)
       /\ d[W + K + 1] = end
  <2>1. \A j \in 1 .. W : j \in 1 .. W + K + 1 /\ j <= W
    BY <1>3
  <2>2. \A k \in 1 .. K : /\ W + k \in 1 .. W + K + 1 /\ ~(W + k <= W) /\ W + k <= W + K
                          /\ (W + k) - W = k
    BY <1>3
  <2>3. W + K + 1 \in 1 .. W + K + 1 /\ ~(W + K + 1 <= W) /\ ~(W + K + 1 <= W + K)
    BY <1>3
  <2> HIDE DEF new, end
  <2>4. \A k \in 1 .. K : d[W + k] = new(k)
    BY <1>9, <2>2
  <2>5. QED
    BY <1>9, <2>1, <2>3, <2>4
<1>11. \A k \in 1 .. K : new(k) \in Places
  <2>1. SUFFICES ASSUME NEW k \in 1 .. K PROVE new(k) \in Places
    OBVIOUS
  <2>2. m.size \in Nat \ {0} /\ k \in 1 .. Count(m.size, n)
    BY <1>3, MessageType
  <2>3. Left(m.size, n, k) \in Nat
    BY <2>2, LeftAt
  <2>4. QED
    BY <2>3 DEF Places
<1>12. end \in Places
  BY DEF Places
<1>13. d \in [1 .. W + K + 1 -> Places]
  <2>1. ASSUME NEW j \in 1 .. W + K + 1 PROVE d[j] \in Places
    <3>1. CASE j <= W
      <4>1. j \in 1 .. W /\ j \in 1 .. Len(wire) + 1
        BY <1>3, <3>1
      <4>2. QED
        BY <1>10, <4>1
    <3>2. CASE ~(j <= W) /\ j <= W + K
      <4>1. PICK k \in 1 .. K : j = W + k
        <5>1. j - W \in 1 .. K /\ j = W + (j - W)
          BY <3>2
        <5>2. QED
          BY <5>1
      <4> HIDE DEF new
      <4>2. QED
        BY <1>10, <1>11, <4>1
    <3>3. CASE ~(j <= W) /\ ~(j <= W + K)
      <4>1. j = W + K + 1
        BY <3>3
      <4>2. QED
        BY <1>10, <1>12, <4>1
    <3>4. QED
      BY <3>1, <3>2, <3>3
  <2> HIDE DEF new, end
  <2>2. QED
    BY <1>9, <2>1
<1>14. /\ b[W + 1].of = D + 1 /\ b[W + 1].first /\ b[W + 1].size = old
       /\ b[W + 1] \in Places
  <2>1. W + 1 \in 1 .. Len(wire) + 1
    BY <1>3
  <2>2. QED
    BY <1>old, <1>3, <2>1 DEF Book
<1>15. /\ d[W + 1].of = D + 1 /\ d[W + 1].first = TRUE /\ d[W + 1].size = old
  <2>1. 1 \in 1 .. K
    OBVIOUS
  <2>2. new(1).of = D + 1 /\ new(1).first = TRUE /\ new(1).size = old
    OBVIOUS
  <2> HIDE DEF new
  <2>3. d[W + 1] = new(1)
    BY <1>10, <2>1
  <2>4. QED
    BY <2>2, <2>3
<1>16. ASSUME NEW j \in 1 .. W + K PROVE Link(d[j], wire[j], d[j + 1])'
  <2>c. PICK c : c = wire'[j]
    OBVIOUS
  <2>0. PICK e \in Places, f \in Places : e = d[j] /\ f = d[j + 1] /\ c = wire'[j]
    <3>1. j \in 1 .. W + K + 1 /\ j + 1 \in 1 .. W + K + 1
      OBVIOUS
    <3>2. QED
      BY <1>13, <2>c, <3>1
  <2>1. CASE j <= W
    <3>1. j \in 1 .. W /\ j \in 1 .. Len(wire) /\ j + 1 \in 1 .. Len(wire) + 1
      BY <1>3, <2>1
    <3>2. PICK g \in Places : g = b[j + 1]
      BY <3>1
    <3>3. Link(e, c, g)
      <4>1. e = b[j] /\ c = wire[j]
        BY <1>8, <1>10, <2>0, <3>1
      <4>2. QED
        BY <3>1, <3>2, <4>1 DEF Book
    <3>4. Link(e, c, g)'
      BY <1>4, <3>3, LinkGrows
    <3>5. CASE j = W
      <4>1. g.of = f.of /\ g.first /\ f.first /\ g.size = f.size
        BY <1>14, <1>15, <2>0, <3>2, <3>5
      <4>2. Link(e, c, f)'
        BY <3>4, <4>1 DEF Link
      <4>3. QED
        BY <2>0, <4>2, Zenon
    <3>6. CASE j # W
      <4>1. j + 1 \in 1 .. W
        BY <2>1, <3>6
      <4>2. f = g
        BY <1>10, <2>0, <3>2, <4>1
      <4>3. QED
        BY <2>0, <3>4, <4>2, Zenon
    <3>7. QED
      BY <3>5, <3>6
  <2>2. CASE ~(j <= W)
    <3>1. PICK k \in 1 .. K : j = W + k /\ j - W = k /\ j \in W + 1 .. W + K
      <4>1. j - W \in 1 .. K /\ j = W + (j - W) /\ j \in W + 1 .. W + K
        BY <2>2
      <4>2. QED
        BY <4>1
    <3>2. e = new(k) /\ c = s[k]
      <4> HIDE DEF new
      <4>1. e = new(k)
        BY <1>10, <2>0, <3>1
      <4>2. QED
        BY <1>8, <2>0, <3>1, <4>1
    <3>3. k = K => f.of = D + 1 + 1 /\ f.first /\ f.size = n
      <4>1. SUFFICES ASSUME k = K PROVE f = end
        OBVIOUS
      <4> HIDE DEF end
      <4>2. j + 1 = W + K + 1
        BY <3>1, <4>1
      <4>3. QED
        BY <1>10, <2>0, <4>2
    <3>4. k # K => f.of = D + 1 /\ ~f.first /\ f.left = Left(m.size, n, k + 1) /\ f.size = old
      <4>1. SUFFICES ASSUME k # K
            PROVE f.of = D + 1 /\ ~f.first /\ f.left = Left(m.size, n, k + 1) /\ f.size = old
        OBVIOUS
      <4>2. k + 1 \in 1 .. K /\ j + 1 = W + (k + 1) /\ k + 1 # 1
        BY <3>1, <4>1
      <4>3. f = new(k + 1)
        <5> HIDE DEF new
        <5>1. QED
          BY <1>10, <2>0, <4>2
      <4>4. QED
        BY <4>2, <4>3
    <3>5. ChunkOf(c, m, h, n, k)
      BY <1>3, <1>7, <3>2 DEF ChunksOf
    <3>6. PICK i : i = D + 1 /\ TrueHeader(h, i)'
      BY <1>5
    <3>7. i \in DOMAIN due' /\ due'[i] = m
      BY <1>4, <3>6
    <3>8. Link(e, c, f)'
      <4>1. k \in 1 .. Count(m.size, n) /\ Behind(f, i, m, n, k, old)
        BY <1>3, <3>3, <3>4, <3>6, Zenon DEF Behind
      <4>2. e = [of |-> i, first |-> k = 1, left |-> Left(m.size, n, k), size |-> old]
        BY <3>2, <3>6, Zenon
      <4>3. TrueHeader(h, i)' /\ n = IF m.type = "chunkSize" THEN m.value ELSE old
        BY <1>2, <3>6
      <4> HIDE DEF new, end
      <4>4. QED
        BY <3>5, <3>7, <4>1, <4>2, <4>3, ChunkLinks
    <3>9. QED
      BY <2>0, <3>8, Zenon
  <2>3. QED
    BY <2>1, <2>2
<1>17. d[W + K + 1].of = Len(due') + 1 /\ d[W + K + 1].first /\ d[W + K + 1].size = chunkSize'
  BY <1>2, <1>4, <1>10
<1>18. Book(d)'
  <2>1. Len(wire') = W + K
    BY <1>8
  <2> HIDE DEF end, new
  <2>2. QED
    BY <1>13, <1>16, <1>17, <2>1, Zenon DEF Book
<1>19. d \in [1 .. Len(wire') + 1 -> Places]
  BY <1>8, <1>13
<1>20. /\ d[1].of = b[1].of /\ d[1].first = b[1].first /\ d[1].size = b[1].size
       /\ ~b[1].first => d[1].left = b[1].left
  <2>1. CASE W = 0
    <3>1. W + 1 = 1
      BY <2>1
    <3>2. b[1].first = TRUE
      BY <1>14, <3>1 DEF Places
    <3>3. QED
      BY <1>14, <1>15, <3>1, <3>2
  <2>2. CASE W # 0
    <3>1. 1 \in 1 .. W
      BY <2>2
    <3>2. d[1] = b[1]
      BY <1>10, <3>1
    <3>3. QED
      BY <3>2
  <2>3. QED
    BY <2>1, <2>2
<1>21. QED
  BY <1>18, <1>19, <1>20

\* Encode keeps the invariant.
LEMMA EncodeStep ==
  ASSUME IInv, NEW m \in Messages, Encode(m)
  PROVE  IInv'
<1>1. TypeInv /\ EncoderInv /\ Clocked /\ BrokenInv
  BY DEF IInv
<1>2. PICK b \in [1 .. Len(wire) + 1 -> Places] : Book(b) /\ DecoderAt(b[1])
  BY DEF IInv
<1>ch. PICK ch \in AllChannels : ch = m.channel
  BY MessageType
<1>n. PICK n \in Nat \ {0} : n = SizeFor(m)
  BY <1>1, EncodeDoes
<1>prevs. PICK prevs : prevs = PrevsFor(m)
  OBVIOUS
<1>3. ch = m.channel /\ prevs = PrevsFor(m) /\ n = SizeFor(m)
  BY <1>ch, <1>n, <1>prevs
<1>4. /\ prevs \in [AllChannels -> [time: Nat, size: Nat] \cup {None}]
      /\ m.size = 0 => n = chunkSize
      /\ chunkSize' = n
      /\ prevHeaders' = [prevs EXCEPT ![ch] = [time |-> m.time, size |-> m.size]]
      /\ wire' = wire \o Chunks(m, prevs[ch], n)
      /\ sent' = Append(sent, m) /\ due' = IF m.size > 0 THEN Append(due, m) ELSE due
      /\ UNCHANGED <<decoderChunk, incomplete, missing, clock, received, broken>>
  BY <1>1, <1>3, EncodeDoes
<1>5. Grows /\ (\A i \in DOMAIN due' : \E j \in DOMAIN sent' : sent'[j] = due'[i])
  BY <1>1, <1>4, AppendGrows
<1>6. m.time \in Nat /\ m.size \in Nat
  BY MessageType
<1>7. TypeInv'
  <2>1. prevHeaders' \in [AllChannels -> [time: Nat, size: Nat] \cup {None}]
    BY <1>4, <1>6
  <2>2. wire' \in Seq(ChunksOnWire)
    <3>1. Chunks(m, prevs[ch], n) \in Seq(ChunksOnWire)
      BY <1>4, ChunksType
    <3>2. wire \in Seq(ChunksOnWire)
      BY <1>1 DEF TypeInv
    <3>3. QED
      BY <1>4, <3>1, <3>2
  <2>3. sent' \in Seq(Messages) /\ due' \in Seq(Whole)
    BY <1>5 DEF Grows
  <2>4. /\ chunkSize' \in Nat \ {0} /\ decoderChunk' \in Nat \ {0} /\ broken' \in BOOLEAN
        /\ incomplete' \in [AllChannels -> Headers \cup {None}]
        /\ missing' \in [AllChannels -> Nat \cup {None}]
        /\ clock' \in [AllChannels -> Int \cup {None}]
        /\ received' \in Seq(Decoded)
    BY <1>1, <1>4 DEF TypeInv
  <2>5. QED
    BY <1>5, <2>1, <2>2, <2>3, <2>4 DEF TypeInv
<1>8. EncoderInv'
  BY <1>1, EncodeRemembers
<1>9. Clocked'
  BY <1>1, <1>4 DEF Clocked
<1>10. BrokenInv'
  BY <1>1, <1>4, <1>5, BrokenGrows
<1>11. PICK W \in Nat : W = Len(wire)
  BY <1>1 DEF TypeInv
<1>12. 1 \in 1 .. Len(wire) + 1
  BY <1>11
<1>13. \E d \in [1 .. Len(wire') + 1 -> Places] : Book(d)' /\ DecoderAt(d[1])'
  <2>1. CASE m.size > 0
    <3>1. PICK d \in [1 .. Len(wire') + 1 -> Places] :
           /\ Book(d)'
           /\ d[1].of = b[1].of /\ d[1].first = b[1].first /\ d[1].size = b[1].size
           /\ ~b[1].first => d[1].left = b[1].left
      BY <1>1, <1>2, <2>1, EncodeBook
    <3>2. 1 \in 1 .. Len(wire') + 1
      <4>1. Len(wire') \in Nat
        BY <1>7 DEF TypeInv
      <4>2. QED
        BY <4>1
    <3>3. PICK e \in Places, f \in Places : e = b[1] /\ f = d[1]
      BY <1>12, <3>2
    <3>4. DecoderAt(e)
      BY <1>2, <3>3
    <3>5. DecoderAt(f)'
      BY <1>1, <1>4, <1>5, <3>1, <3>3, <3>4, DecoderStays
    <3>6. DecoderAt(d[1])'
      BY <3>3, <3>5, Zenon
    <3>7. QED
      BY <3>1, <3>6
  <2>2. CASE ~(m.size > 0)
    <3>1. m.size = 0 /\ due' = due /\ chunkSize' = chunkSize
      BY <1>4, <1>6, <2>2
    <3>2. wire' = wire
      <4>1. Chunks(m, prevs[ch], n) = <<>>
        BY <1>4, <3>1, ChunksType
      <4>2. wire \in Seq(ChunksOnWire)
        BY <1>1 DEF TypeInv
      <4>3. QED
        BY <1>4, <4>1, <4>2
    <3>5. Len(wire') = Len(wire)
      BY <3>2
    <3>6. Book(b)'
      BY <1>1, <1>2, <1>5, <3>1, <3>2, BookStays
    <3>7. PICK e \in Places : e = b[1] /\ DecoderAt(e)
      BY <1>2, <1>12
    <3>8. DecoderAt(e)'
      BY <1>1, <1>4, <1>5, <3>7, DecoderStays
    <3>9. DecoderAt(b[1])'
      BY <3>7, <3>8, Zenon
    <3>10. b \in [1 .. Len(wire') + 1 -> Places]
      BY <3>5
    <3>11. QED
      BY <3>6, <3>9, <3>10
  <2>3. QED
    BY <2>1, <2>2
<1>14. QED
  BY <1>7, <1>8, <1>9, <1>10, <1>13, Zenon DEF IInv

-----------------------------------------------------------------------------
(* The invariant. *)

\* The invariant holds in the beginning.
LEMMA InitIInv ==
  ASSUME Init
  PROVE  IInv
<1>1. /\ chunkSize = FirstChunk /\ decoderChunk = FirstChunk
      /\ sent = <<>> /\ due = <<>> /\ wire = <<>> /\ received = <<>>
      /\ incomplete = [ch \in AllChannels |-> None] /\ missing = [ch \in AllChannels |-> None]
      /\ clock = [ch \in AllChannels |-> None] /\ prevHeaders = [ch \in AllChannels |-> None]
      /\ broken = FALSE
  BY DEF Init
<1>2. FirstChunk \in Nat \ {0}
  BY ChunkAssumption
<1>3. /\ Len(wire) = 0 /\ Len(due) = 0 /\ Len(received) = 0
      /\ DOMAIN due = {} /\ DOMAIN received = {}
  BY <1>1
<1>4. TypeInv
  <2>1. sent \in Seq(Messages) /\ due \in Seq(Whole) /\ wire \in Seq(ChunksOnWire)
        /\ received \in Seq(Decoded)
    BY <1>1
  <2>2. QED
    BY <1>1, <1>2, <1>3, <2>1 DEF TypeInv
<1>5. EncoderInv /\ Clocked /\ BrokenInv
  BY <1>1 DEF EncoderInv, Clocked, BrokenInv
<1>6. PICK e \in Places : e = [of |-> 1, first |-> TRUE, left |-> 0, size |-> FirstChunk]
  <2>1. [of |-> 1, first |-> TRUE, left |-> 0, size |-> FirstChunk] \in Places
    BY <1>2 DEF Places
  <2>2. QED
    BY <2>1
<1>7. PICK b \in [1 .. Len(wire) + 1 -> Places] : b = [j \in 1 .. Len(wire) + 1 |-> e]
  OBVIOUS
<1>8. 1 \in 1 .. Len(wire) + 1 /\ Len(wire) + 1 = 1 /\ 1 .. Len(wire) = {}
  BY <1>3
<1>9. b[1] = e
  BY <1>7, <1>8
<1>10. Book(b)
  BY <1>1, <1>3, <1>6, <1>8, <1>9 DEF Book
<1>11. Keeps(e)
  BY <1>6 DEF Keeps, Begun
<1>12. TimesKept(e)
  <2>1. 1 .. e.of - 1 = {} /\ e.first
    BY <1>6
  <2>2. QED
    BY <1>3, <2>1 DEF TimesKept
<1>13. DecoderAt(e)
  BY <1>1, <1>3, <1>6, <1>11, <1>12 DEF DecoderAt
<1>14. QED
  BY <1>4, <1>5, <1>9, <1>10, <1>13 DEF IInv

\* It does not depend on anything but the variables.
LEMMA SameIInv ==
  ASSUME IInv, UNCHANGED vars
  PROVE  IInv'
<1>1. UNCHANGED <<chunkSize, prevHeaders, sent, due, wire, decoderChunk, incomplete, missing,
                  clock, received, broken>>
  BY DEF vars
<1>2. TypeInv' /\ Clocked' /\ BrokenInv'
  BY <1>1 DEF IInv, TypeInv, Clocked, BrokenInv, Sound
<1>3. EncoderInv'
  BY <1>1, SameEncoder DEF IInv, encoderVars
<1>4. PICK b \in [1 .. Len(wire) + 1 -> Places] : Book(b) /\ DecoderAt(b[1])
  BY DEF IInv
<1>5. Book(b)'
  <2>1. TypeInv
    BY DEF IInv
  <2>2. Grows
    BY <1>1, <2>1, UnchangedGrows
  <2>3. QED
    BY <1>1, <1>4, <2>1, <2>2, BookStays
<1>6. DecoderAt(b[1])'
  <2>1. TypeInv
    BY DEF IInv
  <2>2. Grows
    BY <1>1, <2>1, UnchangedGrows
  <2>3. 1 \in 1 .. Len(wire) + 1
    BY <2>1 DEF TypeInv
  <2>4. PICK e \in Places : e = b[1] /\ DecoderAt(e)
    BY <1>4, <2>3
  <2>5. DecoderAt(e)'
    BY <1>1, <2>1, <2>2, <2>4, DecoderStays
  <2>6. QED
    BY <2>4, <2>5, Zenon
<1>7. QED
  BY <1>1, <1>2, <1>3, <1>4, <1>5, <1>6 DEF IInv

\* Every step keeps the invariant.
LEMMA NextIInv ==
  ASSUME IInv, [Next]_vars
  PROVE  IInv'
<1>1. ASSUME NEW m \in Media \cup Control, Encode(m) PROVE IInv'
  BY <1>1, EncodeStep DEF Messages
<1>2. CASE Decode
  BY <1>2, DecodeStep
<1>3. CASE DecodeFails
  BY <1>3, DecodeFailsStep
<1>4. CASE UNCHANGED vars
  BY <1>4, SameIInv
<1>5. QED
  BY <1>1, <1>2, <1>3, <1>4 DEF Next

\* Whatever the messages and however far the encoder runs ahead, there is a book
\* of the wire, and the decoder is at its first place. (RtmpEncoder, RtmpDecoder)
THEOREM BookKept == Spec => []IInv
BY InitIInv, NextIInv, PTL DEF Spec

\* The invariant has the four properties: first, what is put out on a clean channel.
LEMMA InvRoundTrip ==
  ASSUME IInv
  PROVE  RoundTrip
<1>1. TypeInv
  BY DEF IInv
<1>2. PICK b \in [1 .. Len(wire) + 1 -> Places] : Book(b) /\ DecoderAt(b[1])
  BY DEF IInv
<1>3. PICK e \in Places : e = b[1]
  <2>1. 1 \in 1 .. Len(wire) + 1
    BY <1>1 DEF TypeInv
  <2>2. QED
    BY <2>1
<1>4. Len(received) = e.of - 1 /\ e.of - 1 <= Len(due) /\ TimesKept(e)
  BY <1>2, <1>3 DEF DecoderAt
<1>5. ASSUME NEW i \in DOMAIN received, Clean(due[i].channel) PROVE received[i] = due[i]
  <2>1. i \in DOMAIN due
    BY <1>1, <1>4 DEF TypeInv
  <2>2. PICK ch \in AllChannels : ch = due[i].channel
    BY <1>1, <2>1, DueTypes, MessageType
  <2>3. QED
    BY <1>4, <1>5, <2>2 DEF TimesKept
<1>6. QED
  BY <1>4, <1>5 DEF RoundTrip

\* Nothing is lost when all channels are clean.
LEMMA InvNothingLost ==
  ASSUME IInv
  PROVE  NothingLost
<1>1. TypeInv /\ BrokenInv
  BY DEF IInv
<1>2. PICK b \in [1 .. Len(wire) + 1 -> Places] : Book(b) /\ DecoderAt(b[1])
  BY DEF IInv
<1>3. SUFFICES ASSUME \A ch \in AllChannels : Clean(ch)
      PROVE  ~broken /\ (wire = <<>> => Len(received) = Len(due))
  BY DEF NothingLost
<1>4. ~broken
  BY <1>1, <1>3, CleanSound DEF BrokenInv
<1>5. ASSUME wire = <<>> PROVE Len(received) = Len(due)
  <2>1. Len(wire) + 1 = 1
    BY <1>5
  <2>2. b[1].of = Len(due) + 1
    BY <1>2, <2>1 DEF Book
  <2>3. Len(received) = b[1].of - 1 /\ Len(due) \in Nat
    BY <1>1, <1>2 DEF DecoderAt, TypeInv
  <2>4. QED
    BY <2>2, <2>3
<1>6. QED
  BY <1>4, <1>5

\* The ends are in step.
LEMMA InvInStep ==
  ASSUME IInv
  PROVE  InStep
<1>1. TypeInv /\ Clocked
  BY DEF IInv
<1>2. PICK b \in [1 .. Len(wire) + 1 -> Places] : Book(b) /\ DecoderAt(b[1])
  BY DEF IInv
<1>3. SUFFICES ASSUME wire # <<>>, ~Undecodable(Head(wire).header)
      PROVE  Wanted(HeadChannel, HeadHeader) = Head(wire).payload
  BY Zenon DEF InStep, HeadChannel, HeadHeader
<1>4. PICK e \in Places, f \in Places : e = b[1] /\ f = b[2] /\ Link(e, Head(wire), f)
  BY <1>1, <1>2, <1>3, HeadOfBook
<1>5. DecoderAt(e)
  BY <1>2, <1>4
<1>6. QED
  BY <1>1, <1>3, <1>4, <1>5, Taken

\* No message is early.
LEMMA InvNeverEarly ==
  ASSUME IInv
  PROVE  NeverEarly
<1>1. TypeInv
  BY DEF IInv
<1>2. PICK b \in [1 .. Len(wire) + 1 -> Places] : Book(b) /\ DecoderAt(b[1])
  BY DEF IInv
<1>3. PICK e \in Places : e = b[1]
  <2>1. 1 \in 1 .. Len(wire) + 1
    BY <1>1 DEF TypeInv
  <2>2. QED
    BY <2>1
<1>4. Len(received) = e.of - 1 /\ e.of - 1 <= Len(due) /\ TimesKept(e)
  BY <1>2, <1>3 DEF DecoderAt
<1>5. SUFFICES ASSUME \A i \in DOMAIN sent : sent[i].time < Half /\ sent[i].size > 0,
                      NEW i \in DOMAIN received
               PROVE  received[i].time >= due[i].time
  BY DEF NeverEarly
<1>6. i \in DOMAIN due
  BY <1>1, <1>4 DEF TypeInv
<1>7. PICK ch \in AllChannels : ch = due[i].channel
  BY <1>1, <1>6, DueTypes, MessageType
<1>8. Sound(ch)
  BY <1>5 DEF Sound
<1>9. QED
  BY <1>4, <1>7, <1>8 DEF TimesKept

\* What the decoder puts out on a clean channel is what was given to the encoder,
\* for any interleaving of any number of messages and any chunk sizes.
\* (RtmpEncoder.encode, RtmpHeader, RtmpDecoder.decode)
THEOREM CleanChannelsRoundTrip == Spec => []RoundTrip
BY BookKept, InvRoundTrip, PTL

\* With every channel clean the decoder never fails and in the end has put out
\* everything. (RtmpEncoder.encode, RtmpDecoder.decode)
THEOREM CleanChannelsComplete == Spec => []NothingLost
BY BookKept, InvNothingLost, PTL

\* The decoder takes the bytes the encoder put behind each header, whether or
\* not the channels are clean. (RtmpEncoder.encode, RtmpDecoder.decode)
THEOREM EndsInStep == Spec => []InStep
BY BookKept, InvInStep, PTL

\* With all times in the positive half of the field no message arrives with a
\* time before its own. (RtmpEncoder.encode's "negative time" branch)
THEOREM TimesNeverEarly == Spec => []NeverEarly
BY BookKept, InvNeverEarly, PTL

-----------------------------------------------------------------------------
(* The first bytes of each chunk, which name its channel: BasicHeader. *)

\* The channels that bytes can name: 2..65599.
IsChannel(c) == c \in Nat /\ 2 <= c /\ c <= 65599

\* The bytes of a header read back as they were written, but for channel 320.
LEMMA ReadWritten ==
  ASSUME NEW type \in 0..3, NEW channel, IsChannel(channel)
  PROVE  ReadBasicHeader(WriteBasicHeader(type, channel)) =
           [type |-> type, channel |-> IF channel = 320 THEN 64 ELSE channel]
<1>. DEFINE w == WriteBasicHeader(type, channel)
<1>1. CASE channel <= 63
  <2>1. WriteBasicHeader(type, channel) = <<64 * type + channel>>
    BY <1>1 DEF WriteBasicHeader
  <2>2. /\ (64 * type + channel) \div 64 = type
        /\ (64 * type + channel) % 64 = channel
    BY <1>1 DEF IsChannel
  <2>3. w[1] \div 64 = type /\ w[1] % 64 = channel
    BY <2>1, <2>2
  <2>4. channel # 0 /\ channel # 1 /\ channel # 320
    BY <1>1 DEF IsChannel
  <2> QED BY <1>1, <2>3, <2>4 DEF ReadBasicHeader
<1>2. CASE channel \in 64..320
  <2>1. WriteBasicHeader(type, channel) = <<64 * type, (channel - 64) % 256>>
    BY <1>2 DEF WriteBasicHeader
  <2>2. (64 * type) \div 64 = type /\ (64 * type) % 64 = 0
    OBVIOUS
  <2>3. 64 + ((channel - 64) % 256) = IF channel = 320 THEN 64 ELSE channel
    BY <1>2
  <2> QED BY <2>1, <2>2, <2>3 DEF ReadBasicHeader
<1>3. CASE channel > 320
  <2>1. WriteBasicHeader(type, channel) =
          <<64 * type + 1, (channel - 64) % 256, ((channel - 64) \div 256) % 256>>
    BY <1>3 DEF WriteBasicHeader, IsChannel
  <2>2. (64 * type + 1) \div 64 = type /\ (64 * type + 1) % 64 = 1
    OBVIOUS
  <2>3. 64 + ((channel - 64) % 256) + 256 * (((channel - 64) \div 256) % 256) = channel
    BY <1>3 DEF IsChannel
  <2>4. /\ w[1] \div 64 = type /\ w[1] % 64 = 1
        /\ 64 + w[2] + 256 * w[3] = channel
    BY <2>1, <2>2, <2>3
  <2> QED BY <1>3, <2>4 DEF ReadBasicHeader
<1> QED BY <1>1, <1>2, <1>3 DEF IsChannel

\* What the server reads from any legal header is a channel.
LEMMA ReadInRange ==
  ASSUME NEW b1 \in Byte, NEW b2 \in Byte, NEW b3 \in Byte
  PROVE  /\ b1 % 64 = 0 => IsChannel(ReadBasicHeader(<<b1, b2>>).channel)
         /\ b1 % 64 = 1 => IsChannel(ReadBasicHeader(<<b1, b2, b3>>).channel)
         /\ ~(b1 % 64 \in 0..1) => IsChannel(ReadBasicHeader(<<b1>>).channel)
<1>1. ASSUME b1 % 64 = 0 PROVE IsChannel(ReadBasicHeader(<<b1, b2>>).channel)
  <2>1. ReadBasicHeader(<<b1, b2>>).channel = 64 + b2
    BY <1>1 DEF ReadBasicHeader
  <2>2. IsChannel(64 + b2)
    BY DEF Byte, IsChannel
  <2> QED BY <2>1, <2>2
<1>2. ASSUME b1 % 64 = 1 PROVE IsChannel(ReadBasicHeader(<<b1, b2, b3>>).channel)
  <2>1. ReadBasicHeader(<<b1, b2, b3>>).channel = 64 + b2 + 256 * b3
    BY <1>2 DEF ReadBasicHeader
  <2>2. IsChannel(64 + b2 + 256 * b3)
    BY DEF Byte, IsChannel
  <2> QED BY <2>1, <2>2
<1>3. ASSUME ~(b1 % 64 \in 0..1) PROVE IsChannel(ReadBasicHeader(<<b1>>).channel)
  <2>1. ReadBasicHeader(<<b1>>).channel = b1 % 64
    BY <1>3 DEF ReadBasicHeader
  <2>2. IsChannel(b1 % 64)
    BY <1>3 DEF Byte, IsChannel
  <2> QED BY <2>1, <2>2
<1> QED BY <1>1, <1>2, <1>3

\* The inductive invariant: what was read can be written, and a relayed channel
\* is kept.
ChannelInv ==
  /\ relayed # NotYet => IsChannel(relayed.channel)
  /\ relayed = NotYet => tiny = NotYet
  /\ ChannelKept

\* ChannelKept holds for every set of bytes: of all channels that a publisher
\* can name, only 320 is changed by the server.
THEOREM ChannelsRelayed == HeaderSpec => []ChannelKept
<1>1. HeaderInit => ChannelInv
  BY DEF HeaderInit, ChannelInv, ChannelKept
<1>2. ChannelInv /\ [HeaderNext]_headerVars => ChannelInv'
  <2> SUFFICES ASSUME ChannelInv, [HeaderNext]_headerVars
               PROVE  ChannelInv'
    OBVIOUS
  <2>1. CASE Receive
    <3>1. PICK b1 \in FirstBytes, b2 \in SecondBytes, b3 \in ThirdBytes :
            bytes' = CASE b1 % 64 = 0 -> <<b1, b2>>
                      [] b1 % 64 = 1 -> <<b1, b2, b3>>
                      [] OTHER       -> <<b1>>
      BY <2>1 DEF Receive
    <3>2. b1 \in Byte /\ b2 \in Byte /\ b3 \in Byte
      BY ByteAssumption
    <3>3. relayed' = ReadBasicHeader(bytes') /\ UNCHANGED <<whole, tiny>>
      BY <2>1 DEF Receive
    <3>4. IsChannel(relayed'.channel)
      <4>1. CASE b1 % 64 = 0
        BY <3>1, <3>2, <3>3, <4>1, ReadInRange
      <4>2. CASE b1 % 64 = 1
        BY <3>1, <3>2, <3>3, <4>2, ReadInRange
      <4>3. CASE ~(b1 % 64 \in 0..1)
        <5>1. bytes' = <<b1>>
          BY <3>1, <4>3
        <5> QED BY <3>2, <3>3, <4>3, <5>1, ReadInRange
      <4> QED BY <4>1, <4>2, <4>3
    <3>5. tiny = NotYet
      BY <2>1 DEF ChannelInv, Receive
    <3>6. relayed' # NotYet /\ tiny' = NotYet
      BY <3>3, <3>4, <3>5 DEF NotYet, IsChannel
    <3> QED BY <3>4, <3>6 DEF ChannelInv, ChannelKept
  <2>2. CASE Relay
    <3>1. IsChannel(relayed.channel)
      BY <2>2 DEF ChannelInv, Relay
    <3>2. PICK type \in 0..2 :
            whole' = ReadBasicHeader(WriteBasicHeader(type, relayed.channel))
      BY <2>2 DEF Relay
    <3>3. whole' = [type |-> type,
                    channel |-> IF relayed.channel = 320 THEN 64 ELSE relayed.channel]
      BY <3>1, <3>2, ReadWritten
    <3>4. tiny' = [type |-> Tiny,
                   channel |-> IF relayed.channel = 320 THEN 64 ELSE relayed.channel]
      BY <2>2, <3>1, ReadWritten DEF Relay, Tiny
    <3> QED BY <2>2, <3>1, <3>3, <3>4 DEF ChannelInv, ChannelKept, Relay, Tiny
  <2>3. CASE UNCHANGED headerVars
    BY <2>3 DEF ChannelInv, ChannelKept, headerVars
  <2> QED BY <2>1, <2>2, <2>3 DEF HeaderNext
<1> QED BY <1>1, <1>2, PTL DEF HeaderSpec, ChannelInv
=============================================================================
