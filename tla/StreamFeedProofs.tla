--------------------------- MODULE StreamFeedProofs ----------------------------
(***************************************************************************)
(* What StreamFeed guarantees for any number of viewers, event loops,      *)
(* media, publications and messages.                                       *)
(***************************************************************************)
EXTENDS StreamFeed, Integers, NaturalsInduction, WellFoundedInduction, TLAPS

Messages == [kind: Kinds, medium: Media, session: Nat, needs: Nat]
Writes == [msg: Nat, at: {"none", "flag", "size", "length", "index"},
           size: {0, Full}, length: {0, Full}, rivals: SUBSET Writers]

StreamTypes ==
  /\ session \in Nat /\ live \in BOOLEAN /\ mods \in Nat
  /\ msgs \in Seq(Messages) /\ Len(msgs) <= MaxMessages
  /\ meta \in 0 .. Len(msgs)
  /\ configs \in Seq(1 .. Len(msgs))

HandlerTypes ==
  /\ group \subseteq Viewers
  /\ loop \in [Writers -> RtmpLoops \cup HttpLoops]
  /\ pc \in [Writers -> {"idle", "add", "write", "copy", "join"}]

ViewerTypes ==
  /\ status \in [Viewers -> {"new", "asked", "refused", "gone"}]
  /\ cursor \in [Viewers -> Nat] /\ expected \in [Viewers -> Nat]
  /\ joined \in [Viewers -> Nat] /\ written \in [Viewers -> Nat]
  /\ given \in [Viewers -> Seq(1 .. Len(msgs))]

\* A write under way is of a message that has been made.
EncTypes ==
  /\ enc \in [Writers -> Writes]
  /\ \A w \in Writers : enc[w] # NoEnc => enc[w].at # "none" /\ enc[w].msg \in 1 .. Len(msgs)

BufferTypes ==
  /\ index \in [1 .. MaxMessages -> {0, Full}]
  /\ encoded \in [1 .. MaxMessages -> BOOLEAN]

TypeInv == StreamTypes /\ HandlerTypes /\ ViewerTypes /\ EncTypes /\ BufferTypes

\* Where a viewer's handler can be, and what it has in hand there.
PlaceOf(v) ==
  /\ pc[v] \in {"idle", "copy", "join"}
  /\ status[v] = "new" => pc[v] = "idle" /\ given[v] = <<>> /\ cursor[v] = 0
  /\ v \in group \/ pc[v] # "idle" => status[v] = "asked"
  /\ v \in group => pc[v] = "idle"
  /\ expected[v] <= mods /\ joined[v] <= mods
  /\ pc[v] = "copy" /\ expected[v] = mods => cursor[v] <= Len(configs)

\* The publisher's handler is past the receipt of a message only with a message.
PlaceInv ==
  /\ pc[Publisher] \in {"idle", "add", "write"}
  /\ pc[Publisher] # "idle" => Len(msgs) > 0
  /\ \A v \in Viewers : PlaceOf(v)

-----------------------------------------------------------------------------
(* The shared buffer. *)

\* A write that no other overlapped has the buffer of its message to itself, and
\* the buffer is where the code it has passed left it.
RaceOf(w) ==
  enc[w].at \in {"size", "length", "index"} =>
    /\ encoded[enc[w].msg]
    /\ enc[w].rivals = {} =>
         /\ index[enc[w].msg] = 0
         /\ enc[w].at # "size" => enc[w].size = Full
         /\ enc[w].at = "index" => enc[w].length = Full
         /\ \A x \in Writing(enc[w].msg) : x = w

RaceInv ==
  /\ TornByOverlap
  /\ \A m \in 1 .. MaxMessages : ~encoded[m] => index[m] = 0
  /\ \A w \in Writers : RaceOf(w)

-----------------------------------------------------------------------------
(* The sequence headers. *)

\* The list holds sequence headers; what relies on one is newer than it.
MsgInv ==
  /\ meta # 0 => msgs[meta].kind = "meta"
  /\ \A i \in DOMAIN configs : msgs[configs[i]].kind = "config"
  /\ pc[Publisher] = "add" => msgs[Len(msgs)].kind = "config"
  /\ \A i \in DOMAIN msgs :
       /\ msgs[i].session <= session
       /\ msgs[i].needs < i
       /\ msgs[i].needs # 0 => msgs[i].kind = "media"

\* While there is a publisher, the list holds every sequence header of its
\* publication but the one that is being added, and the one that the message to
\* be broadcast relies on is of that publication.
ListInv ==
  /\ live => \A i \in DOMAIN msgs :
       msgs[i].kind = "config" /\ msgs[i].session = session =>
         i \in Range(configs) \/ (pc[Publisher] = "add" /\ i = Len(msgs))
  /\ pc[Publisher] # "idle" => live
  /\ pc[Publisher] = "write" /\ msgs[Len(msgs)].needs # 0 =>
       msgs[Len(msgs)].needs \in Range(configs)

\* The list is unchanged since the viewer's first look.
Fresh(v) == expected[v] = mods

\* What a viewer has been given of the list before and after it has joined.
InformInv ==
  \A v \in Viewers :
    /\ pc[v] = "copy" /\ Fresh(v) =>
         \A i \in 1 .. cursor[v] : configs[i] \in Range(given[v])
    /\ pc[v] = "join" /\ Fresh(v) => Range(configs) \subseteq Range(given[v])
    /\ Undisturbed(v) => \A x \in Range(configs) :
         x \in Range(given[v]) \/ (pc[Publisher] = "write" /\ x = Len(msgs))

\* Before it has joined a viewer is given nothing that relies on a header.
DecodeInv ==
  /\ \A v \in Viewers : status[v] = "new" \/ pc[v] # "idle" =>
       \A i \in DOMAIN given[v] : msgs[given[v][i]].needs = 0
  /\ Decodable

IInv == TypeInv /\ PlaceInv /\ RaceInv /\ MsgInv /\ ListInv /\ InformInv /\ DecodeInv
-----------------------------------------------------------------------------
(* Data. *)

\* A nonempty set of naturals has a least element.
LEMMA LeastNat ==
  ASSUME NEW S, S \subseteq Nat, S # {}
  PROVE  \E x \in S : \A y \in S : x <= y
<1>1. PICK x \in S : \A y \in S : ~(<<y, x>> \in OpToRel(<, Nat))
  BY NatLessThanWellFounded, WFMin
<1>2. \A y \in S : ~(y < x)
  BY <1>1 DEF OpToRel
<1>3. QED
  BY <1>2

\* A nonempty set of naturals that is bounded has a greatest element.
LEMMA GreatestNat ==
  ASSUME NEW S, NEW b \in Nat, S \subseteq 0 .. b, S # {}
  PROVE  \E x \in S : \A y \in S : y <= x
<1> DEFINE T == {d \in 0 .. b : b - d \in S}
<1>1. T \subseteq Nat /\ T # {}
  <2>1. PICK x \in S : TRUE
    OBVIOUS
  <2>2. b - x \in T
    BY <2>1
  <2>3. QED
    BY <2>2
<1>2. PICK t \in T : \A y \in T : t <= y
  BY <1>1, LeastNat
<1>3. \A y \in S : t <= b - y
  <2>1. \A y \in S : b - y \in T
    OBVIOUS
  <2>2. QED
    BY <1>2, <2>1
<1>4. QED
  BY <1>3

\* Appending to a sequence adds one element and keeps the others in place.
LEMMA AppendRange ==
  ASSUME NEW T, NEW s \in Seq(T), NEW x \in T
  PROVE  /\ Append(s, x) \in Seq(T)
         /\ Len(Append(s, x)) = Len(s) + 1
         /\ \A i \in 1 .. Len(s) : Append(s, x)[i] = s[i]
         /\ Append(s, x)[Len(s) + 1] = x
         /\ Range(Append(s, x)) = Range(s) \cup {x}
<1> DEFINE t == Append(s, x)
<1>1. /\ t \in Seq(T) /\ Len(t) = Len(s) + 1 /\ Len(s) \in Nat
      /\ \A i \in 1 .. Len(s) : t[i] = s[i]
      /\ t[Len(s) + 1] = x
  OBVIOUS
<1>2. DOMAIN t = 1 .. Len(s) + 1 /\ DOMAIN s = 1 .. Len(s)
  BY <1>1
<1> HIDE DEF t
<1>3. ASSUME NEW y \in Range(t) PROVE y \in Range(s) \cup {x}
  BY <1>1, <1>2 DEF Range
<1>4. ASSUME NEW y \in Range(s) \cup {x} PROVE y \in Range(t)
  BY <1>1, <1>2 DEF Range
<1>5. QED
  BY <1>1, <1>3, <1>4 DEF t

\* What a new message relies on is an older sequence header of this
\* publication, or nothing.
LEMMA NeedsOlder ==
  ASSUME StreamTypes, NEW kind \in Kinds, NEW medium \in Media
  PROVE  LET k == Needs(kind, medium)
         IN  /\ k \in 0 .. Len(msgs)
             /\ k # 0 => /\ kind = "media" /\ k \in DOMAIN msgs
                         /\ msgs[k].kind = "config" /\ msgs[k].session = session
<1> DEFINE own == {i \in DOMAIN msgs : /\ msgs[i].kind = "config" /\ msgs[i].medium = medium
                                       /\ msgs[i].session = session}
           k == CHOOSE i \in own : \A j \in own : j <= i
<1>1. CASE kind = "media" /\ own # {}
  <2>1. own \subseteq 0 .. Len(msgs) /\ Len(msgs) \in Nat
    BY DEF StreamTypes
  <2>2. \E i \in own : \A j \in own : j <= i
    BY <1>1, <2>1, GreatestNat
  <2>3. k \in own
    BY <2>2
  <2>4. Needs(kind, medium) = k
    BY <1>1 DEF Needs
  <2>5. QED
    BY <1>1, <2>1, <2>3, <2>4 DEF StreamTypes
<1>2. CASE ~(kind = "media" /\ own # {})
  <2>1. Needs(kind, medium) = 0
    BY <1>2 DEF Needs
  <2>2. QED
    BY <2>1 DEF StreamTypes
<1>3. QED
  BY <1>1, <1>2

\* What the sequences of the stream are made of.
LEMMA Elements ==
  ASSUME StreamTypes
  PROVE  /\ Len(msgs) \in Nat /\ DOMAIN msgs = 1 .. Len(msgs)
         /\ \A i \in DOMAIN msgs : msgs[i] \in Messages
         /\ Len(configs) \in Nat /\ DOMAIN configs = 1 .. Len(configs)
         /\ \A i \in DOMAIN configs : configs[i] \in 1 .. Len(msgs)
  BY DEF StreamTypes

USE DEF Writers, Full, NoEnc, Kinds, Goto, Resting, CanStart, StartWrite, SharesBuffer,
        streamVars, viewerVars, bufferVars, Messages, Writes

-----------------------------------------------------------------------------
(* Types. *)

\* The types hold in the beginning.
LEMMA TypeInvInit == Init => TypeInv
<1> SUFFICES ASSUME Init PROVE TypeInv
  OBVIOUS
<1> USE FeedAssumption DEF Init
<1>1. StreamTypes
  <2>1. msgs = <<>> /\ configs = <<>> /\ Len(msgs) = 0 /\ Len(msgs) <= MaxMessages
    OBVIOUS
  <2>2. msgs \in Seq(Messages) /\ configs \in Seq(1 .. Len(msgs))
    BY <2>1
  <2>3. QED
    <3>1. session \in Nat /\ mods \in Nat /\ live \in BOOLEAN /\ meta = 0
      OBVIOUS
    <3>2. 0 \in 0 .. Len(msgs)
      BY <2>1
    <3>3. QED
      BY <2>1, <2>2, <3>1, <3>2 DEF StreamTypes
<1>2. HandlerTypes
  BY DEF HandlerTypes
<1>3. ViewerTypes
  BY DEF ViewerTypes
<1>4. EncTypes
  BY DEF EncTypes
<1>5. BufferTypes
  BY DEF BufferTypes
<1>6. QED
  BY <1>1, <1>2, <1>3, <1>4, <1>5 DEF TypeInv

\* Starting the write of a message that has been made.
LEMMA StartWriteTypes ==
  ASSUME StreamTypes, EncTypes, NEW w \in Writers, NEW m \in 1 .. Len(msgs),
         StartWrite(w, m), msgs' = msgs
  PROVE  EncTypes'
<1> DEFINE e == [msg |-> m, at |-> "flag", size |-> 0, length |-> 0, rivals |-> {}]
<1>2. m \in Nat
  BY DEF StreamTypes
<1>3. e \in Writes /\ e.at # "none" /\ e.msg \in 1 .. Len(msgs)
  BY <1>2
<1>4. enc' = [enc EXCEPT ![w] = e]
  OBVIOUS
<1> HIDE DEF e
<1>5. QED
  BY <1>3, <1>4 DEF EncTypes

\* Every step keeps the types.
LEMMA TypeInvNext == TypeInv /\ PlaceInv /\ [Next]_vars => TypeInv'
<1> SUFFICES ASSUME TypeInv, PlaceInv, [Next]_vars PROVE TypeInv'
  OBVIOUS
<1> USE DEF TypeInv
<1>a. UNCHANGED streamVars => StreamTypes'
  BY DEF StreamTypes
<1>b. UNCHANGED <<group, loop, pc>> => HandlerTypes'
  BY DEF HandlerTypes
<1>c. UNCHANGED <<viewerVars, msgs>> => ViewerTypes'
  BY DEF ViewerTypes
<1>d. UNCHANGED <<enc, msgs>> => EncTypes'
  BY DEF EncTypes
<1>e. UNCHANGED bufferVars => BufferTypes'
  BY DEF BufferTypes
<1>1. ASSUME NEW publishing \in BOOLEAN, SetPublisher(publishing) PROVE TypeInv'
  <2>1. StreamTypes'
    BY <1>1 DEF SetPublisher, StreamTypes
  <2>2. QED
    BY <1>1, <1>b, <1>c, <1>d, <1>e, <2>1 DEF SetPublisher
<1>2. ASSUME NEW kind \in Kinds, NEW medium \in Media, Receive(kind, medium) PROVE TypeInv'
  <2> DEFINE m == [kind |-> kind, medium |-> medium, session |-> session,
                   needs |-> Needs(kind, medium)]
  <2>1. m \in Messages
    BY NeedsOlder DEF StreamTypes
  <2>2. msgs' = Append(msgs, m) /\ msgs' \in Seq(Messages) /\ Len(msgs') = Len(msgs) + 1
    BY <1>2, <2>1, AppendRange DEF Receive, StreamTypes
  <2>3. Len(msgs') <= MaxMessages /\ Len(msgs) \in Nat
    BY <1>2, <2>2, FeedAssumption DEF Receive, StreamTypes
  <2>4. configs' \in Seq(1 .. Len(msgs')) /\ given' \in [Viewers -> Seq(1 .. Len(msgs'))]
    BY <1>2, <2>2, <2>3 DEF Receive, StreamTypes, ViewerTypes
  <2>5. StreamTypes'
    BY <1>2, <2>2, <2>3, <2>4 DEF Receive, StreamTypes
  <2>6. HandlerTypes'
    BY <1>2 DEF Receive, HandlerTypes
  <2>7. ViewerTypes'
    BY <1>2, <2>4 DEF Receive, ViewerTypes
  <2>8. EncTypes'
    BY <1>2, <2>2, <2>3 DEF Receive, EncTypes
  <2>9. QED
    BY <1>2, <1>e, <2>5, <2>6, <2>7, <2>8 DEF Receive
<1>3. CASE AddConfig
  <2>1. Len(msgs) \in 1 .. Len(msgs)
    BY <1>3 DEF AddConfig, PlaceInv, StreamTypes
  <2>2. StreamTypes'
    BY <1>3, <2>1 DEF AddConfig, StreamTypes
  <2>3. HandlerTypes'
    BY <1>3 DEF AddConfig, HandlerTypes
  <2>4. QED
    BY <1>3, <1>c, <1>d, <1>e, <2>2, <2>3 DEF AddConfig
<1>4. CASE Broadcast
  <2>1. Len(msgs) \in 1 .. Len(msgs)
    BY <1>4 DEF Broadcast, PlaceInv, StreamTypes
  <2>2. ViewerTypes'
    <3>1. ASSUME NEW v \in Viewers PROVE given'[v] \in Seq(1 .. Len(msgs))
      <4>1. given[v] \in Seq(1 .. Len(msgs))
        BY DEF ViewerTypes
      <4>2. Append(given[v], Len(msgs)) \in Seq(1 .. Len(msgs))
        BY <2>1, <4>1, AppendRange
      <4>3. QED
        BY <1>4, <4>1, <4>2 DEF Broadcast
    <3>2. given' \in [Viewers -> Seq(1 .. Len(msgs))]
      BY <1>4, <3>1 DEF Broadcast
    <3>3. QED
      BY <1>4, <3>2 DEF Broadcast, ViewerTypes
  <2>3. EncTypes'
    BY <1>4, <1>d, <2>1, StartWriteTypes DEF Broadcast
  <2>4. HandlerTypes'
    BY <1>4 DEF Broadcast, HandlerTypes
  <2>5. QED
    BY <1>4, <1>a, <1>e, <2>2, <2>3, <2>4 DEF Broadcast
<1>5. ASSUME NEW v \in Viewers, Get(v) PROVE TypeInv'
  <2>1. ViewerTypes'
    <3>1. CASE meta = 0
      BY <1>5, <3>1 DEF Get, ViewerTypes
    <3>2. CASE meta # 0
      <4>1. meta \in 1 .. Len(msgs)
        BY <3>2 DEF StreamTypes
      <4>2. <<meta>> \in Seq(1 .. Len(msgs))
        BY <4>1
      <4>3. QED
        <5>1. /\ status' = [status EXCEPT ![v] = "asked"]
              /\ given' = [given EXCEPT ![v] = <<meta>>]
              /\ written' = [written EXCEPT ![v] = 1]
              /\ expected' = [expected EXCEPT ![v] = mods]
              /\ UNCHANGED <<msgs, cursor, joined>>
          BY <1>5, <3>2 DEF Get
        <5>2. given' \in [Viewers -> Seq(1 .. Len(msgs))]
          BY <4>2, <5>1 DEF ViewerTypes
        <5>3. mods \in Nat
          BY DEF StreamTypes
        <5>4. QED
          BY <5>1, <5>2, <5>3 DEF ViewerTypes
    <3>3. QED
      BY <3>1, <3>2
  <2>2. HandlerTypes'
    BY <1>5 DEF Get, HandlerTypes
  <2>3. QED
    BY <1>5, <1>a, <1>d, <1>e, <2>1, <2>2 DEF Get
<1>6. ASSUME NEW v \in Viewers, CopyHeader(v) PROVE TypeInv'
  <2>1. cursor[v] + 1 \in DOMAIN configs /\ configs[cursor[v] + 1] \in 1 .. Len(msgs)
    <3>1. cursor[v] <= Len(configs) /\ cursor[v] # Len(configs) /\ cursor[v] \in Nat
      BY <1>6 DEF CopyHeader, PlaceInv, PlaceOf, ViewerTypes
    <3>2. configs \in Seq(1 .. Len(msgs))
      BY DEF StreamTypes
    <3>3. QED
      BY <3>1, <3>2
  <2>2. ViewerTypes'
    BY <1>6, <2>1 DEF CopyHeader, ViewerTypes
  <2>3. EncTypes'
    BY <1>6, <2>1, StartWriteTypes DEF CopyHeader
  <2>4. QED
    BY <1>6, <1>a, <1>b, <1>e, <2>2, <2>3 DEF CopyHeader
<1>7. ASSUME NEW v \in Viewers, CopyThrows(v) \/ CopyEnds(v) \/ Join(v) \/ Leave(v)
      PROVE TypeInv'
  <2>1. ViewerTypes'
    BY <1>7 DEF CopyThrows, CopyEnds, Join, Leave, ViewerTypes, StreamTypes
  <2>2. HandlerTypes'
    BY <1>7 DEF CopyThrows, CopyEnds, Join, Leave, HandlerTypes
  <2>3. QED
    BY <1>7, <1>a, <1>d, <1>e, <2>1, <2>2 DEF CopyThrows, CopyEnds, Join, Leave
<1>8. ASSUME NEW v \in Viewers, TakeUp(v) PROVE TypeInv'
  <2>1. given[v][written[v] + 1] \in 1 .. Len(msgs)
    BY <1>8 DEF TakeUp, ViewerTypes
  <2>2. ViewerTypes'
    BY <1>8 DEF TakeUp, ViewerTypes
  <2>3. EncTypes'
    BY <1>8, <1>d, <2>1, StartWriteTypes DEF TakeUp
  <2>4. QED
    BY <1>8, <1>a, <1>b, <1>e, <2>2, <2>3 DEF TakeUp
<1>9. ASSUME NEW w \in Writers, Encode(w) PROVE TypeInv'
  <2>1. EncTypes'
    <3>1. TurnToBuffer(w) /\ enc[w].at = "flag"
      BY <1>9 DEF Encode
    <3>2. \A x \in Writers : enc[x].at # "none" => enc[x].msg \in 1 .. Len(msgs)
      BY DEF EncTypes
    <3>3. Writing(enc[w].msg) \subseteq Writers /\ w \notin Writing(enc[w].msg)
      BY <3>1 DEF Writing
    <3>4. ASSUME NEW x \in Writers
          PROVE  /\ enc'[x] \in Writes
                 /\ enc'[x] = enc[x] \/ (enc'[x].at # "none" /\ enc'[x].msg \in 1 .. Len(msgs))
      <4>0. enc[x] \in Writes /\ enc[w] \in Writes
        BY DEF EncTypes
      <4>1. CASE x = w
        <5>1. enc'[x] = [enc[w] EXCEPT !.at = "size", !.rivals = Writing(enc[w].msg)]
          BY <3>1, <3>3, <4>1 DEF TurnToBuffer
        <5>2. QED
          BY <3>1, <3>2, <3>3, <4>0, <5>1
      <4>2. CASE x # w /\ x \in Writing(enc[w].msg)
        <5>1. enc'[x] = [enc[x] EXCEPT !.rivals = @ \cup {w}] /\ enc[x].at # "none"
          BY <3>1, <4>2 DEF TurnToBuffer, Writing
        <5>2. QED
          BY <3>2, <4>0, <5>1
      <4>3. CASE x # w /\ x \notin Writing(enc[w].msg)
        BY <3>1, <4>0, <4>3 DEF TurnToBuffer
      <4>4. QED
        BY <4>1, <4>2, <4>3
    <3>5. enc' = [x \in Writers |-> enc'[x]] /\ msgs' = msgs
      BY <1>9, <3>1 DEF Encode, TurnToBuffer
    <3>6. QED
      BY <3>4, <3>5 DEF EncTypes
  <2>2. BufferTypes'
    BY <1>9 DEF Encode, BufferTypes
  <2>3. QED
    BY <1>9, <1>a, <1>b, <1>c, <2>1, <2>2 DEF Encode
<1>10. ASSUME NEW w \in Writers, TagSize(w) \/ CopyBody(w) PROVE TypeInv'
  <2>1. EncTypes'
    <3>1. enc[w].msg \in 1 .. Len(msgs) /\ enc[w] \in Writes
      BY <1>10 DEF TagSize, CopyBody, EncTypes
    <3>2. index[enc[w].msg] \in {0, Full}
      BY <3>1, FeedAssumption DEF BufferTypes, StreamTypes
    <3>3. Full - index[enc[w].msg] \in {0, Full}
      BY <3>2
    <3>4. QED
      BY <1>10, <3>1, <3>3 DEF TagSize, CopyBody, EncTypes
  <2>2. QED
    BY <1>10, <1>a, <1>b, <1>c, <1>e, <2>1 DEF TagSize, CopyBody
<1>11. ASSUME NEW w \in Writers, MoveIndex(w) PROVE TypeInv'
  <2>1. EncTypes'
    BY <1>11 DEF MoveIndex, EncTypes
  <2>2. BufferTypes'
    <3>1. index' \in {index, [index EXCEPT ![enc[w].msg] = index[enc[w].msg] + enc[w].length]}
      BY <1>11 DEF MoveIndex
    <3>2. /\ enc[w].msg \in 1 .. MaxMessages /\ index[enc[w].msg] \in {0, Full}
          /\ enc[w].length \in {0, Full}
      BY <1>11, FeedAssumption DEF MoveIndex, EncTypes, BufferTypes, StreamTypes
    <3>3. index' # index => index[enc[w].msg] + enc[w].length \in {0, Full}
      BY <1>11, <3>2 DEF MoveIndex
    <3>4. QED
      BY <1>11, <3>1, <3>3 DEF MoveIndex, BufferTypes
  <2>3. QED
    BY <1>11, <1>a, <1>b, <1>c, <2>1, <2>2 DEF MoveIndex
<1>12. CASE UNCHANGED vars
  BY <1>12, <1>a, <1>b, <1>c, <1>d, <1>e DEF vars
<1>13. QED
  BY <1>1, <1>2, <1>3, <1>4, <1>5, <1>6, <1>7, <1>8, <1>9, <1>10, <1>11, <1>12 DEF Next
-----------------------------------------------------------------------------
(* Places. *)

\* The invariant holds in the beginning.
LEMMA PlaceInvInit == Init => PlaceInv
  BY FeedAssumption DEF Init, PlaceInv, PlaceOf

\* Every step keeps what a place of a handler says of it.
LEMMA PlaceInvNext == TypeInv /\ PlaceInv /\ [Next]_vars => PlaceInv'
<1> SUFFICES ASSUME TypeInv, PlaceInv, [Next]_vars PROVE PlaceInv'
  OBVIOUS
<1> USE FeedAssumption DEF TypeInv, PlaceInv, HandlerTypes, ViewerTypes
<1>a. ASSUME NEW u \in Viewers,
             UNCHANGED <<pc[u], status[u], given[u], cursor[u], expected[u], joined[u], mods, configs>>,
             u \in group' => u \in group
      PROVE  PlaceOf(u)'
  BY <1>a DEF PlaceOf
<1>1. ASSUME NEW publishing \in BOOLEAN, SetPublisher(publishing) PROVE PlaceInv'
  <2>1. mods' = mods + 1 /\ mods \in Nat
    BY <1>1 DEF SetPublisher, StreamTypes
  <2>2. \A v \in Viewers : PlaceOf(v)'
    BY <1>1, <2>1 DEF SetPublisher, PlaceOf
  <2>3. QED
    BY <1>1, <2>2 DEF SetPublisher
<1>2. ASSUME NEW kind \in Kinds, NEW medium \in Media, Receive(kind, medium) PROVE PlaceInv'
  <2>1. Len(msgs') > 0
    BY <1>2 DEF Receive, StreamTypes
  <2>2. \A v \in Viewers : PlaceOf(v)'
    BY <1>2, <1>a DEF Receive
  <2>3. QED
    BY <1>2, <2>1, <2>2 DEF Receive
<1>3. CASE AddConfig
  <2>1. mods' = mods + 1 /\ mods \in Nat
    BY <1>3 DEF AddConfig, StreamTypes
  <2>2. \A v \in Viewers : PlaceOf(v)'
    BY <1>3, <2>1 DEF AddConfig, PlaceOf
  <2>3. QED
    BY <1>3, <2>2 DEF AddConfig
<1>4. CASE Broadcast
  <2>1. \A v \in Viewers : v \notin group => given'[v] = given[v]
    BY <1>4 DEF Broadcast
  <2>2. \A v \in Viewers : PlaceOf(v)'
    BY <1>4, <2>1 DEF Broadcast, PlaceOf
  <2>3. QED
    BY <1>4, <2>2 DEF Broadcast
<1>5. ASSUME NEW v \in Viewers, Get(v) PROVE PlaceInv'
  <2>1. \A u \in Viewers : u # v => PlaceOf(u)'
    BY <1>5, <1>a DEF Get
  <2>2. PlaceOf(v)'
    <3>1. CASE meta = 0
      BY <1>5, <3>1 DEF Get, PlaceOf
    <3>2. CASE meta # 0
      <4>1. configs \in Seq(1 .. Len(msgs)) /\ Len(configs) >= 0 /\ mods \in Nat
        BY DEF StreamTypes
      <4>2. v \notin group /\ cursor[v] = 0 /\ joined[v] <= mods
        BY <1>5 DEF Get, PlaceOf
      <4>3. /\ status'[v] = "asked" /\ pc'[v] = "copy" /\ expected'[v] = mods
            /\ UNCHANGED <<group, cursor, joined, mods, configs>>
        BY <1>5, <3>2 DEF Get, streamVars
      <4>4. QED
        BY <4>1, <4>2, <4>3 DEF PlaceOf
    <3>3. QED
      BY <3>1, <3>2
  <2>3. QED
    BY <1>5, <2>1, <2>2 DEF Get
<1>6. ASSUME NEW v \in Viewers, CopyHeader(v) PROVE PlaceInv'
  <2>1. \A u \in Viewers : u # v => PlaceOf(u)'
    BY <1>6, <1>a DEF CopyHeader
  <2>2. PlaceOf(v)'
    <3>1. configs \in Seq(1 .. Len(msgs)) /\ Len(configs) \in Nat /\ cursor[v] \in Nat
      BY DEF StreamTypes
    <3>2. cursor[v] + 1 <= Len(configs) /\ v \notin group /\ status[v] # "new"
      BY <1>6, <3>1 DEF CopyHeader, PlaceOf
    <3>3. cursor'[v] = cursor[v] + 1
          /\ UNCHANGED <<pc, status, group, expected, joined, mods, configs>>
      BY <1>6 DEF CopyHeader
    <3>4. QED
      BY <3>2, <3>3 DEF PlaceOf
  <2>3. QED
    BY <1>6, <2>1, <2>2 DEF CopyHeader
<1>7. ASSUME NEW v \in Viewers, CopyThrows(v) \/ CopyEnds(v) PROVE PlaceInv'
  <2>1. \A u \in Viewers : u # v => PlaceOf(u)'
    BY <1>7, <1>a DEF CopyThrows, CopyEnds
  <2>2. PlaceOf(v)'
    BY <1>7 DEF CopyThrows, CopyEnds, PlaceOf
  <2>3. QED
    BY <1>7, <2>1, <2>2 DEF CopyThrows, CopyEnds
<1>8. ASSUME NEW v \in Viewers, Join(v) PROVE PlaceInv'
  <2>1. \A u \in Viewers : u # v => PlaceOf(u)'
    BY <1>8, <1>a DEF Join
  <2>2. PlaceOf(v)'
    <3>1. mods \in Nat /\ joined'[v] = mods /\ pc'[v] = "idle"
          /\ UNCHANGED <<status, given, cursor, expected, mods, configs>>
      BY <1>8 DEF Join, StreamTypes
    <3>2. status[v] = "asked"
      BY <1>8 DEF Join, PlaceOf
    <3>3. QED
      BY <3>1, <3>2 DEF PlaceOf
  <2>3. QED
    BY <1>8, <2>1, <2>2 DEF Join
<1>9. ASSUME NEW v \in Viewers, Leave(v) PROVE PlaceInv'
  BY <1>9 DEF Leave, PlaceOf
<1>10. ASSUME NEW v \in Viewers, TakeUp(v) PROVE PlaceInv'
  BY <1>10 DEF TakeUp, PlaceOf
<1>11. ASSUME NEW w \in Writers, Encode(w) \/ TagSize(w) \/ CopyBody(w) \/ MoveIndex(w)
       PROVE PlaceInv'
  BY <1>11 DEF Encode, TagSize, CopyBody, MoveIndex, PlaceOf
<1>12. CASE UNCHANGED vars
  BY <1>12 DEF vars, PlaceOf
<1>13. QED
  BY <1>1, <1>2, <1>3, <1>4, <1>5, <1>6, <1>7, <1>8, <1>9, <1>10, <1>11, <1>12 DEF Next

-----------------------------------------------------------------------------
(* Writing from a shared buffer. *)

\* The invariant holds in the beginning.
LEMMA RaceInvInit == Init => RaceInv
  BY DEF Init, RaceInv, RaceOf, TornByOverlap

\* Every step keeps what the writes under way rely on.
LEMMA RaceInvNext == TypeInv /\ RaceInv /\ [Next]_vars => RaceInv'
<1> SUFFICES ASSUME TypeInv, RaceInv, [Next]_vars PROVE RaceInv'
  OBVIOUS
<1> USE DEF TypeInv, EncTypes
<1>q. ASSUME UNCHANGED <<index, encoded, torn>>,
             \A x \in Writers : enc'[x] = enc[x] \/ enc'[x].at = "flag"
      PROVE  RaceInv'
  <2>1. \A m : Writing(m)' \subseteq Writing(m)
    BY <1>q DEF Writing
  <2>2. \A x \in Writers : RaceOf(x)'
    BY <1>q, <2>1 DEF RaceInv, RaceOf
  <2>3. QED
    BY <1>q, <2>2 DEF RaceInv, TornByOverlap
<1>1. ASSUME NEW publishing \in BOOLEAN, SetPublisher(publishing) PROVE RaceInv'
  BY <1>1, <1>q DEF SetPublisher
<1>2. ASSUME NEW kind \in Kinds, NEW medium \in Media, Receive(kind, medium) PROVE RaceInv'
  BY <1>2, <1>q DEF Receive
<1>3. CASE AddConfig
  BY <1>3, <1>q DEF AddConfig
<1>4. CASE Broadcast
  BY <1>4, <1>q DEF Broadcast
<1>5. ASSUME NEW v \in Viewers, Get(v) PROVE RaceInv'
  BY <1>5, <1>q DEF Get
<1>6. ASSUME NEW v \in Viewers, CopyHeader(v) \/ CopyThrows(v) \/ CopyEnds(v) \/ Join(v)
      PROVE RaceInv'
  <2>1. CASE CopyHeader(v)
    BY <2>1, <1>q DEF CopyHeader
  <2>2. QED
    BY <1>6, <1>q, <2>1 DEF CopyThrows, CopyEnds, Join
<1>7. ASSUME NEW v \in Viewers, TakeUp(v) PROVE RaceInv'
  BY <1>7, <1>q DEF TakeUp
<1>8. ASSUME NEW v \in Viewers, Leave(v) PROVE RaceInv'
  BY <1>8, <1>q DEF Leave
<1>m. \A w \in Writers : enc[w].at # "none" => enc[w].msg \in 1 .. MaxMessages
  BY FeedAssumption DEF StreamTypes
<1>9. ASSUME NEW w \in Writers, Encode(w) PROVE RaceInv'
  <2> DEFINE m == enc[w].msg
             others == Writing(m)
  <2>1. m \in 1 .. MaxMessages
    BY <1>9, <1>m DEF Encode
  <2>2. index'[m] = 0 /\ encoded'[m] /\ UNCHANGED torn
    BY <1>9, <2>1 DEF Encode, BufferTypes, RaceInv
  <2>3. \A n \in 1 .. MaxMessages : n # m => index'[n] = index[n] /\ encoded'[n] = encoded[n]
    BY <1>9, <2>1 DEF Encode, BufferTypes
  <2>4. w \notin others /\ others \subseteq Writers
    BY <1>9 DEF Encode, Writing
  <2>5. TurnToBuffer(w)
    BY <1>9 DEF Encode
  <2>6. enc'[w].at = "size" /\ enc'[w].msg = m /\ enc'[w].rivals = others
    <3>1. enc'[w] = [enc[w] EXCEPT !.at = "size", !.rivals = others] /\ enc[w] \in Writes
      BY <2>4, <2>5 DEF TurnToBuffer
    <3>2. QED
      BY <3>1
  <2>7. ASSUME NEW x \in others
        PROVE  enc'[x].at = enc[x].at /\ enc'[x].msg = m /\ enc'[x].rivals # {}
    <3>1. x # w /\ x \in Writers /\ enc[x].msg = m
      BY <2>4 DEF Writing
    <3>2. enc'[x] = [enc[x] EXCEPT !.rivals = @ \cup {w}]
      BY <2>5, <3>1 DEF TurnToBuffer
    <3>3. QED
      BY <3>1, <3>2
  <2>8. \A x \in Writers : x # w /\ x \notin others => enc'[x] = enc[x]
    BY <2>5 DEF TurnToBuffer
  <2>9. ASSUME NEW x \in Writers PROVE RaceOf(x)'
    <3>1. CASE x = w
      <4>1. others = {} => \A y \in Writing(m)' : y = w
        BY <2>6, <2>8 DEF Writing
      <4>2. QED
        BY <2>2, <2>6, <3>1, <4>1 DEF RaceOf
    <3>2. CASE x \in others
      BY <2>2, <2>7, <3>2 DEF RaceOf
    <3>3. CASE x # w /\ x \notin others /\ enc[x].at \in {"size", "length", "index"}
      <4>1. enc'[x] = enc[x] /\ enc[x].msg # m /\ enc[x].msg \in 1 .. MaxMessages
        BY <1>m, <2>8, <3>3 DEF Writing
      <4>2. encoded'[enc[x].msg] = encoded[enc[x].msg] /\ index'[enc[x].msg] = index[enc[x].msg]
        BY <2>3, <4>1
      <4>3. Writing(enc[x].msg)' \subseteq Writing(enc[x].msg)
        BY <2>6, <2>7, <2>8, <4>1 DEF Writing
      <4>4. QED
        BY <4>1, <4>2, <4>3 DEF RaceInv, RaceOf
    <3>4. CASE x # w /\ x \notin others /\ enc[x].at \notin {"size", "length", "index"}
      BY <2>8, <3>4 DEF RaceOf
    <3>5. QED
      BY <3>1, <3>2, <3>3, <3>4
  <2>10. \A n \in 1 .. MaxMessages : ~encoded'[n] => index'[n] = 0
    BY <2>2, <2>3 DEF RaceInv
  <2>11. QED
    BY <2>2, <2>9, <2>10 DEF RaceInv, TornByOverlap
<1>10. ASSUME NEW w \in Writers, TagSize(w) \/ CopyBody(w) PROVE RaceInv'
  <2>1. enc[w].msg \in 1 .. MaxMessages /\ enc[w].at \in {"size", "length"}
    BY <1>10, <1>m DEF TagSize, CopyBody
  <2>2. UNCHANGED <<index, encoded, torn>> /\ \A x \in Writers : x # w => enc'[x] = enc[x]
    BY <1>10 DEF TagSize, CopyBody
  <2>3. /\ enc'[w].msg = enc[w].msg /\ enc'[w].rivals = enc[w].rivals
        /\ enc'[w].at \in {"length", "index"}
    BY <1>10 DEF TagSize, CopyBody
  <2>4. enc[w].rivals = {} => enc'[w].size = Full /\ (enc'[w].at = "index" => enc'[w].length = Full)
    <3>1. enc[w].rivals = {} => index[enc[w].msg] = 0 /\ (enc[w].at = "length" => enc[w].size = Full)
      BY <2>1 DEF RaceInv, RaceOf
    <3>2. CASE TagSize(w)
      BY <3>1, <3>2 DEF TagSize
    <3>3. CASE CopyBody(w)
      BY <3>1, <3>3 DEF CopyBody
    <3>4. QED
      BY <1>10, <3>2, <3>3
  <2>5. \A m : Writing(m)' \subseteq Writing(m)
    BY <2>1, <2>2, <2>3 DEF Writing
  <2>6. RaceOf(w)'
    BY <2>1, <2>2, <2>3, <2>4, <2>5 DEF RaceInv, RaceOf
  <2>7. \A x \in Writers : x # w => RaceOf(x)'
    BY <2>2, <2>5 DEF RaceInv, RaceOf
  <2>8. QED
    BY <2>2, <2>6, <2>7 DEF RaceInv, TornByOverlap
<1>11. ASSUME NEW w \in Writers, MoveIndex(w) PROVE RaceInv'
  <2> DEFINE m == enc[w].msg
  <2>1. m \in 1 .. MaxMessages /\ enc[w].at = "index" /\ encoded[m]
    BY <1>11, <1>m DEF MoveIndex, RaceInv, RaceOf
  <2>2. /\ enc'[w].at = "none" /\ encoded' = encoded
        /\ \A x \in Writers : x # w => enc'[x] = enc[x]
        /\ \A n \in 1 .. MaxMessages : n # m => index'[n] = index[n]
    BY <1>11, <2>1 DEF MoveIndex, BufferTypes
  <2>3. TornByOverlap'
    <3>1. enc[w].rivals = {} => index[m] = 0 /\ enc[w].size = Full /\ enc[w].length = Full
      BY <2>1 DEF RaceInv, RaceOf
    <3>2. enc[w].rivals = {} => torn' = torn
      BY <1>11, <3>1 DEF MoveIndex
    <3>3. torn' \subseteq torn \cup {[by |-> w, msg |-> m, rivals |-> enc[w].rivals]}
      BY <1>11 DEF MoveIndex
    <3>4. QED
      BY <3>2, <3>3 DEF RaceInv, TornByOverlap
  <2>4. \A n : Writing(n)' \subseteq Writing(n)
    BY <2>1, <2>2 DEF Writing
  <2>5. ASSUME NEW x \in Writers PROVE RaceOf(x)'
    <3>1. CASE x = w
      BY <2>2, <3>1 DEF RaceOf
    <3>2. CASE x # w /\ enc[x].at \in {"size", "length", "index"}
      <4>1. enc'[x] = enc[x] /\ enc[x].msg \in 1 .. MaxMessages
        BY <1>m, <2>2, <3>2
      <4>2. enc[x].rivals = {} => enc[x].msg # m
        BY <2>1, <3>2 DEF RaceInv, RaceOf, Writing
      <4>3. QED
        BY <2>2, <2>4, <3>2, <4>1, <4>2 DEF RaceInv, RaceOf
    <3>3. CASE x # w /\ enc[x].at \notin {"size", "length", "index"}
      BY <2>2, <3>3 DEF RaceOf
    <3>4. QED
      BY <3>1, <3>2, <3>3
  <2>6. \A n \in 1 .. MaxMessages : ~encoded'[n] => index'[n] = 0
    BY <2>1, <2>2 DEF RaceInv
  <2>7. QED
    BY <2>3, <2>5, <2>6 DEF RaceInv
<1>12. CASE UNCHANGED vars
  BY <1>12, <1>q DEF vars
<1>13. QED
  BY <1>1, <1>2, <1>3, <1>4, <1>5, <1>6, <1>7, <1>8, <1>9, <1>10, <1>11, <1>12 DEF Next
-----------------------------------------------------------------------------
(* Messages and the list of sequence headers. *)

\* The invariants hold in the beginning.
LEMMA MsgInvInit == Init => MsgInv /\ ListInv
  BY DEF Init, MsgInv, ListInv

\* Every step keeps what is known of the messages and of the list.
LEMMA MsgInvNext ==
  TypeInv /\ PlaceInv /\ MsgInv /\ ListInv /\ [Next]_vars => MsgInv' /\ ListInv'
<1> SUFFICES ASSUME TypeInv, PlaceInv, MsgInv, ListInv, [Next]_vars PROVE MsgInv' /\ ListInv'
  OBVIOUS
<1> USE FeedAssumption DEF TypeInv, HandlerTypes
<1>a. ASSUME UNCHANGED streamVars, pc'[Publisher] = pc[Publisher] PROVE MsgInv' /\ ListInv'
  BY <1>a DEF MsgInv, ListInv
<1>1. ASSUME NEW publishing \in BOOLEAN, SetPublisher(publishing) PROVE MsgInv' /\ ListInv'
  <2>1. pc[Publisher] = "idle" /\ UNCHANGED <<msgs, meta, pc>> /\ configs' = <<>>
        /\ live' = publishing
        /\ session' = IF publishing THEN session + 1 ELSE session
    BY <1>1 DEF SetPublisher
  <2>2. session \in Nat /\ \A i \in DOMAIN msgs : msgs[i].session \in Nat
    BY Elements DEF StreamTypes
  <2>3. MsgInv'
    BY <2>1, <2>2 DEF MsgInv
  <2>4. ListInv'
    BY <2>1, <2>2 DEF MsgInv, ListInv
  <2>5. QED
    BY <2>3, <2>4
<1>2. ASSUME NEW kind \in Kinds, NEW medium \in Media, Receive(kind, medium)
      PROVE MsgInv' /\ ListInv'
  <2> DEFINE k == Needs(kind, medium)
             m == [kind |-> kind, medium |-> medium, session |-> session, needs |-> k]
             n == Len(msgs) + 1
  <2>1. msgs \in Seq(Messages) /\ m \in Messages /\ Len(msgs) \in Nat
    BY NeedsOlder DEF StreamTypes
  <2>2. /\ k \in 0 .. Len(msgs)
        /\ k # 0 => kind = "media" /\ k \in DOMAIN msgs
                    /\ msgs[k].kind = "config" /\ msgs[k].session = session
    BY NeedsOlder
  <2>3. /\ Len(msgs') = n /\ DOMAIN msgs' = 1 .. n /\ DOMAIN msgs = 1 .. Len(msgs)
        /\ \A i \in 1 .. Len(msgs) : msgs'[i] = msgs[i]
        /\ msgs'[n] = m
    BY <1>2, <2>1, AppendRange DEF Receive
  <2>4. /\ pc[Publisher] = "idle" /\ live /\ UNCHANGED <<configs, session, live>>
        /\ pc'[Publisher] = (IF kind = "config" THEN "add" ELSE "write")
        /\ meta' = IF kind = "meta" THEN n ELSE meta
    BY <1>2, <2>3 DEF Receive
  <2>5. /\ session \in Nat /\ meta \in 0 .. Len(msgs)
        /\ \A i \in DOMAIN configs : configs[i] \in 1 .. Len(msgs)
    BY Elements DEF StreamTypes
  <2> HIDE DEF k
  <2>6. MsgInv'
    <3>1. meta' # 0 => msgs'[meta'].kind = "meta"
      BY <2>3, <2>4, <2>5 DEF MsgInv
    <3>2. \A i \in DOMAIN configs' : msgs'[configs'[i]].kind = "config"
      BY <2>3, <2>4, <2>5 DEF MsgInv
    <3>3. ASSUME NEW i \in DOMAIN msgs'
          PROVE  /\ msgs'[i].session <= session'
                 /\ msgs'[i].needs < i
                 /\ msgs'[i].needs # 0 => msgs'[i].kind = "media"
      <4>1. CASE i = n
        BY <2>1, <2>2, <2>3, <2>4, <2>5, <4>1
      <4>2. CASE i \in DOMAIN msgs
        BY <2>3, <2>4, <4>2 DEF MsgInv
      <4>3. QED
        BY <2>1, <2>3, <4>1, <4>2
    <3>4. pc'[Publisher] = "add" => msgs'[Len(msgs')].kind = "config"
      BY <2>3, <2>4
    <3>5. QED
      BY <3>1, <3>2, <3>3, <3>4 DEF MsgInv
  <2>7. ListInv'
    <3>1. ASSUME NEW i \in DOMAIN msgs', msgs'[i].kind = "config", msgs'[i].session = session'
          PROVE  i \in Range(configs') \/ (pc'[Publisher] = "add" /\ i = Len(msgs'))
      BY <2>1, <2>3, <2>4, <3>1 DEF ListInv
    <3>2. k # 0 => k \in Range(configs)
      BY <2>2, <2>4 DEF ListInv
    <3>3. QED
      BY <2>3, <2>4, <3>1, <3>2 DEF ListInv
  <2>8. QED
    BY <2>6, <2>7
<1>3. CASE AddConfig
  <2>1. /\ pc[Publisher] = "add" /\ pc'[Publisher] = "write" /\ configs' = Append(configs, Len(msgs))
        /\ UNCHANGED <<msgs, meta, session, live>>
    BY <1>3 DEF AddConfig
  <2>2. configs \in Seq(1 .. Len(msgs)) /\ Len(msgs) \in 1 .. Len(msgs) /\ msgs \in Seq(Messages)
    BY <2>1 DEF StreamTypes, PlaceInv
  <2>3. /\ Range(configs') = Range(configs) \cup {Len(msgs)}
        /\ \A i \in DOMAIN configs' : configs'[i] \in Range(configs')
    <3>1. Range(configs') = Range(configs) \cup {Len(msgs)}
      BY <2>1, <2>2, AppendRange
    <3>2. \A i \in DOMAIN configs' : configs'[i] \in Range(configs')
      BY DEF Range
    <3>3. QED
      BY <3>1, <3>2
  <2>4. \A x \in Range(configs) : msgs[x].kind = "config"
    BY DEF MsgInv, Range
  <2>5. msgs[Len(msgs)].kind = "config"
    BY <2>1 DEF MsgInv
  <2>6. msgs[Len(msgs)].needs = 0
    BY <2>1, <2>2, <2>5 DEF MsgInv
  <2>7. MsgInv'
    BY <2>1, <2>3, <2>4, <2>5 DEF MsgInv
  <2>8. ListInv'
    BY <2>1, <2>3, <2>6 DEF ListInv
  <2>9. QED
    BY <2>7, <2>8
<1>4. CASE Broadcast
  BY <1>4 DEF Broadcast, MsgInv, ListInv
<1>5. ASSUME NEW v \in Viewers,
             Get(v) \/ CopyHeader(v) \/ CopyThrows(v) \/ CopyEnds(v) \/ Join(v) \/ TakeUp(v) \/ Leave(v)
      PROVE MsgInv' /\ ListInv'
  <2>1. pc'[Publisher] = pc[Publisher]
    BY <1>5 DEF Get, CopyHeader, CopyThrows, CopyEnds, Join, TakeUp, Leave
  <2>2. UNCHANGED streamVars
    BY <1>5 DEF Get, CopyHeader, CopyThrows, CopyEnds, Join, TakeUp, Leave
  <2>3. QED
    BY <1>a, <2>1, <2>2
<1>6. ASSUME NEW w \in Writers, Encode(w) \/ TagSize(w) \/ CopyBody(w) \/ MoveIndex(w)
      PROVE MsgInv' /\ ListInv'
  BY <1>6, <1>a DEF Encode, TagSize, CopyBody, MoveIndex
<1>7. CASE UNCHANGED vars
  BY <1>7, <1>a DEF vars
<1>8. QED
  BY <1>1, <1>2, <1>3, <1>4, <1>5, <1>6, <1>7 DEF Next
-----------------------------------------------------------------------------
(* What viewers are given. *)

\* What InformInv says of one viewer.
InformOf(v) ==
  /\ pc[v] = "copy" /\ Fresh(v) => \A i \in 1 .. cursor[v] : configs[i] \in Range(given[v])
  /\ pc[v] = "join" /\ Fresh(v) => Range(configs) \subseteq Range(given[v])
  /\ Undisturbed(v) => \A x \in Range(configs) :
       x \in Range(given[v]) \/ (pc[Publisher] = "write" /\ x = Len(msgs))

\* The invariant holds in the beginning.
LEMMA InformInvInit == Init => InformInv
  BY DEF Init, InformInv, Undisturbed, Range

\* A change of the list is noticed by the viewers that are still copying.
LEMMA Noticed ==
  ASSUME TypeInv, PlaceInv, mods' = mods + 1, NEW v \in Viewers,
         UNCHANGED <<expected, joined, group, given, cursor>>, pc'[v] = pc[v]
  PROVE  ~Fresh(v)' /\ (Undisturbed(v)' <=> Undisturbed(v))
<1>1. mods \in Nat /\ expected[v] \in Nat /\ expected[v] <= mods
  BY DEF TypeInv, StreamTypes, ViewerTypes, PlaceInv, PlaceOf
<1>2. QED
  BY <1>1 DEF Fresh, Undisturbed

\* Every step keeps viewers informed.
LEMMA InformInvNext ==
  TypeInv /\ PlaceInv /\ InformInv /\ [Next]_vars => InformInv'
<1> SUFFICES ASSUME TypeInv, PlaceInv, [Next]_vars, \A v \in Viewers : InformOf(v)
             PROVE  \A v \in Viewers : InformOf(v)'
  BY DEF InformInv, InformOf
<1>t. /\ status \in [Viewers -> {"new", "asked", "refused", "gone"}]
      /\ cursor \in [Viewers -> Nat] /\ expected \in [Viewers -> Nat]
      /\ joined \in [Viewers -> Nat]
      /\ given \in [Viewers -> Seq(1 .. Len(msgs))]
      /\ pc \in [Writers -> {"idle", "add", "write", "copy", "join"}]
      /\ mods \in Nat /\ Publisher \notin Viewers /\ group \subseteq Viewers
  BY FeedAssumption DEF TypeInv, ViewerTypes, HandlerTypes, StreamTypes
<1>a. ASSUME NEW u \in Viewers,
             UNCHANGED <<pc[u], pc[Publisher], given[u], cursor[u], expected[u], joined[u], mods,
                         configs, msgs>>,
             u \in group' => u \in group
      PROVE  InformOf(u)'
  BY <1>a DEF InformOf, Fresh, Undisturbed
<1>1. ASSUME NEW publishing \in BOOLEAN, SetPublisher(publishing)
      PROVE  \A v \in Viewers : InformOf(v)'
  <2>1. /\ configs' = <<>> /\ mods' = mods + 1
        /\ UNCHANGED <<expected, joined, group, given, cursor, pc>>
    BY <1>1 DEF SetPublisher
  <2>2. Range(configs') = {}
    BY <2>1 DEF Range
  <2>3. QED
    BY <2>1, <2>2, Noticed DEF InformOf
<1>2. ASSUME NEW kind \in Kinds, NEW medium \in Media, Receive(kind, medium)
      PROVE  \A v \in Viewers : InformOf(v)'
  <2>1. /\ pc[Publisher] = "idle"
        /\ UNCHANGED <<expected, joined, group, given, cursor, mods, configs>>
        /\ \A v \in Viewers : pc'[v] = pc[v]
    BY <1>2, <1>t DEF Receive
  <2>2. QED
    BY <2>1 DEF InformOf, Fresh, Undisturbed
<1>3. CASE AddConfig
  <2>1. /\ pc[Publisher] = "add" /\ pc'[Publisher] = "write" /\ msgs' = msgs
        /\ configs' = Append(configs, Len(msgs)) /\ mods' = mods + 1
        /\ UNCHANGED <<expected, joined, group, given, cursor>>
        /\ \A v \in Viewers : pc'[v] = pc[v]
    BY <1>3, <1>t DEF AddConfig
  <2>2. configs \in Seq(1 .. Len(msgs)) /\ Len(msgs) \in 1 .. Len(msgs)
    BY <2>1 DEF TypeInv, StreamTypes, PlaceInv
  <2>3. Range(configs') = Range(configs) \cup {Len(msgs)}
    BY <2>1, <2>2, AppendRange
  <2>4. QED
    BY <2>1, <2>3, Noticed DEF InformOf
<1>4. CASE Broadcast
  <2>1. /\ pc[Publisher] = "write" /\ pc'[Publisher] = "idle"
        /\ UNCHANGED <<expected, joined, group, cursor, mods, configs, msgs>>
        /\ \A v \in Viewers : pc'[v] = pc[v]
    BY <1>4, <1>t DEF Broadcast
  <2>2. ASSUME NEW v \in Viewers PROVE InformOf(v)'
    <3>1. CASE v \in group
      <4>1. Len(msgs) \in 1 .. Len(msgs) /\ given[v] \in Seq(1 .. Len(msgs))
        BY <2>1, <1>t DEF PlaceInv, TypeInv, StreamTypes
      <4>2. given'[v] = Append(given[v], Len(msgs))
        BY <1>4, <3>1 DEF Broadcast
      <4>3. Range(given'[v]) = Range(given[v]) \cup {Len(msgs)}
        BY <4>1, <4>2, AppendRange
      <4>4. QED
        BY <2>1, <4>3 DEF InformOf, Fresh, Undisturbed
    <3>2. CASE v \notin group
      <4>1. given'[v] = given[v]
        BY <1>4, <3>2 DEF Broadcast
      <4>2. QED
        BY <2>1, <3>2, <4>1 DEF InformOf, Fresh, Undisturbed
    <3>3. QED
      BY <3>1, <3>2
  <2>3. QED
    BY <2>2
<1>5. ASSUME NEW v \in Viewers, Get(v) PROVE \A u \in Viewers : InformOf(u)'
  <2>1. \A u \in Viewers : u # v => InformOf(u)'
    BY <1>5, <1>a, <1>t DEF Get
  <2>2. InformOf(v)'
    <3>1. v \notin group /\ cursor[v] = 0 /\ pc[v] = "idle"
      BY <1>5 DEF Get, PlaceInv, PlaceOf
    <3>2. pc'[v] \in {"idle", "copy"} /\ UNCHANGED <<group, cursor>>
      BY <1>5, <1>t, <3>1 DEF Get
    <3>3. QED
      BY <3>1, <3>2 DEF InformOf, Undisturbed
  <2>3. QED
    BY <2>1, <2>2
<1>6. ASSUME NEW v \in Viewers, CopyHeader(v) PROVE \A u \in Viewers : InformOf(u)'
  <2>1. \A u \in Viewers : u # v => InformOf(u)'
    BY <1>6, <1>a, <1>t DEF CopyHeader
  <2>2. InformOf(v)'
    <3> DEFINE x == configs[cursor[v] + 1]
    <3>1. cursor[v] <= Len(configs) /\ cursor[v] # Len(configs) /\ cursor[v] \in Nat
      BY <1>6, <1>t DEF CopyHeader, PlaceInv, PlaceOf
    <3>2. x \in 1 .. Len(msgs) /\ given[v] \in Seq(1 .. Len(msgs))
      BY <3>1, <1>t, Elements DEF TypeInv
    <3>3. given'[v] = Append(given[v], x) /\ cursor'[v] = cursor[v] + 1
          /\ pc[v] = "copy" /\ expected[v] = mods
          /\ UNCHANGED <<group, mods, configs, expected, joined, pc>>
      BY <1>6, <1>t DEF CopyHeader
    <3>4. Range(given'[v]) = Range(given[v]) \cup {x}
      BY <3>2, <3>3, AppendRange, SMTT(30)
    <3>5. v \notin group
      BY <3>3 DEF PlaceInv, PlaceOf
    <3>6. \A i \in 1 .. cursor[v] : configs[i] \in Range(given[v])
      BY <3>3 DEF InformOf, Fresh
    <3>7. \A i \in 1 .. cursor'[v] : configs[i] \in Range(given'[v])
      BY <3>1, <3>3, <3>4, <3>6
    <3>8. QED
      BY <3>3, <3>5, <3>7 DEF InformOf, Undisturbed
  <2>3. QED
    BY <2>1, <2>2
<1>7. ASSUME NEW v \in Viewers, CopyEnds(v) PROVE \A u \in Viewers : InformOf(u)'
  <2>1. \A u \in Viewers : u # v => InformOf(u)'
    BY <1>7, <1>a, <1>t DEF CopyEnds
  <2>2. InformOf(v)'
    <3>1. pc[v] = "copy" /\ pc'[v] = "join" /\ cursor[v] = Len(configs)
          /\ UNCHANGED <<group, mods, configs, expected, given>>
      BY <1>7, <1>t DEF CopyEnds
    <3>2. v \notin group
      BY <3>1 DEF PlaceInv, PlaceOf
    <3>3. Fresh(v) => Range(configs) \subseteq Range(given[v])
      <4>1. DOMAIN configs = 1 .. Len(configs)
        BY Elements DEF TypeInv
      <4>2. \A i \in DOMAIN configs : Fresh(v) => configs[i] \in Range(given[v])
        BY <3>1, <4>1 DEF InformOf
      <4>3. QED
        BY <4>2 DEF Range
    <3>4. QED
      BY <3>1, <3>2, <3>3 DEF InformOf, Undisturbed, Fresh
  <2>3. QED
    BY <2>1, <2>2
<1>8. ASSUME NEW v \in Viewers, Join(v) PROVE \A u \in Viewers : InformOf(u)'
  <2>1. \A u \in Viewers : u # v => InformOf(u)'
    BY <1>8, <1>a, <1>t DEF Join
  <2>2. InformOf(v)'
    <3>1. pc[v] = "join" /\ pc'[v] = "idle" /\ joined'[v] = mods
          /\ UNCHANGED <<mods, configs, expected, given>>
      BY <1>8, <1>t DEF Join
    <3>2. QED
      BY <3>1 DEF InformOf, Undisturbed, Fresh
  <2>3. QED
    BY <2>1, <2>2
<1>9. ASSUME NEW v \in Viewers, CopyThrows(v) \/ Leave(v) PROVE \A u \in Viewers : InformOf(u)'
  <2>1. \A u \in Viewers : u # v => InformOf(u)'
    BY <1>9, <1>a, <1>t DEF CopyThrows, Leave
  <2>2. InformOf(v)'
    <3>1. pc'[v] = "idle" /\ v \notin group'
      BY <1>9, <1>t DEF CopyThrows, Leave, PlaceInv, PlaceOf
    <3>2. QED
      BY <3>1 DEF InformOf, Undisturbed
  <2>3. QED
    BY <2>1, <2>2
<1>10. ASSUME NEW v \in Viewers, TakeUp(v) PROVE \A u \in Viewers : InformOf(u)'
  BY <1>10, <1>a DEF TakeUp
<1>11. ASSUME NEW w \in Writers, Encode(w) \/ TagSize(w) \/ CopyBody(w) \/ MoveIndex(w)
       PROVE \A v \in Viewers : InformOf(v)'
  BY <1>11, <1>a DEF Encode, TagSize, CopyBody, MoveIndex
<1>12. CASE UNCHANGED vars
  BY <1>12, <1>a DEF vars
<1>13. QED
  BY <1>1, <1>2, <1>3, <1>4, <1>5, <1>6, <1>7, <1>8, <1>9, <1>10, <1>11, <1>12 DEF Next
\* What DecodeInv says of one viewer.
DecodeOf(v) ==
  /\ status[v] = "new" \/ pc[v] # "idle" =>
       \A i \in DOMAIN given[v] : msgs[given[v][i]].needs = 0
  /\ Undisturbed(v) => \A i \in DOMAIN given[v] :
       LET k == msgs[given[v][i]].needs
       IN k # 0 => \E j \in 1 .. (i - 1) : given[v][j] = k

\* The invariant holds in the beginning.
LEMMA DecodeInvInit == Init => DecodeInv
  BY DEF Init, DecodeInv, Decodable, Undisturbed

\* Every step keeps media behind the sequence header that it relies on.
LEMMA DecodeInvNext ==
  TypeInv /\ PlaceInv /\ MsgInv /\ ListInv /\ InformInv /\ DecodeInv /\ [Next]_vars => DecodeInv'
<1> SUFFICES ASSUME TypeInv, PlaceInv, MsgInv, ListInv, InformInv, [Next]_vars,
                    \A v \in Viewers : DecodeOf(v)
             PROVE  \A v \in Viewers : DecodeOf(v)'
  BY DEF DecodeInv, Decodable, DecodeOf
<1>t. /\ status \in [Viewers -> {"new", "asked", "refused", "gone"}]
      /\ given \in [Viewers -> Seq(1 .. Len(msgs))]
      /\ pc \in [Writers -> {"idle", "add", "write", "copy", "join"}]
      /\ expected \in [Viewers -> Nat] /\ joined \in [Viewers -> Nat]
      /\ Publisher \notin Viewers /\ group \subseteq Viewers
  BY FeedAssumption DEF TypeInv, ViewerTypes, HandlerTypes
<1>a. ASSUME NEW u \in Viewers,
             UNCHANGED <<pc[u], status[u], given[u], expected[u], joined[u], msgs>>,
             u \in group' => u \in group
      PROVE  DecodeOf(u)'
  BY <1>a DEF DecodeOf, Undisturbed
<1>g. ASSUME NEW v \in Viewers
      PROVE  /\ Len(given[v]) \in Nat /\ DOMAIN given[v] = 1 .. Len(given[v])
             /\ \A i \in DOMAIN given[v] : given[v][i] \in 1 .. Len(msgs)
  BY <1>t
<1>1. ASSUME NEW publishing \in BOOLEAN, SetPublisher(publishing)
      PROVE  \A v \in Viewers : DecodeOf(v)'
  BY <1>1, <1>a DEF SetPublisher
<1>2. ASSUME NEW kind \in Kinds, NEW medium \in Media, Receive(kind, medium)
      PROVE  \A v \in Viewers : DecodeOf(v)'
  <2>1. \A i \in 1 .. Len(msgs) : msgs'[i] = msgs[i]
    <3>1. [kind |-> kind, medium |-> medium, session |-> session,
           needs |-> Needs(kind, medium)] \in Messages
      BY NeedsOlder DEF TypeInv, StreamTypes
    <3>2. msgs \in Seq(Messages)
      BY DEF TypeInv, StreamTypes
    <3>3. QED
      BY <1>2, <3>1, <3>2, AppendRange DEF Receive
  <2>2. /\ UNCHANGED <<status, given, expected, joined, group>>
        /\ \A v \in Viewers : pc'[v] = pc[v]
    BY <1>2, <1>t DEF Receive
  <2>3. QED
    BY <2>1, <2>2, <1>g DEF DecodeOf, Undisturbed
<1>3. CASE AddConfig
  BY <1>3, <1>t, <1>a DEF AddConfig
<1>4. CASE Broadcast
  <2> DEFINE m == Len(msgs)
  <2>1. /\ pc[Publisher] = "write"
        /\ UNCHANGED <<expected, joined, group, status, configs, msgs>>
        /\ \A v \in Viewers : pc'[v] = pc[v]
    BY <1>4, <1>t DEF Broadcast
  <2>2. m \in 1 .. m /\ m \in DOMAIN msgs
    BY <2>1, Elements DEF PlaceInv, TypeInv
  <2>3. msgs[m].needs # 0 => msgs[m].needs \in Range(configs) /\ msgs[m].needs # m
    BY <2>1, <2>2 DEF ListInv, MsgInv
  <2>4. ASSUME NEW v \in group PROVE DecodeOf(v)'
    <3>1. v \in Viewers /\ given[v] \in Seq(1 .. m)
      BY <1>t
    <3>2. given'[v] = Append(given[v], m)
      BY <1>4, <3>1 DEF Broadcast
    <3>3. /\ Len(given'[v]) = Len(given[v]) + 1 /\ DOMAIN given'[v] = 1 .. Len(given[v]) + 1
          /\ \A i \in 1 .. Len(given[v]) : given'[v][i] = given[v][i]
          /\ given'[v][Len(given[v]) + 1] = m
      BY <2>2, <3>1, <3>2, AppendRange
    <3>4. status[v] # "new" /\ pc[v] = "idle"
      BY <3>1 DEF PlaceInv, PlaceOf
    <3>5. ASSUME Undisturbed(v), NEW i \in DOMAIN given'[v], msgs[given'[v][i]].needs # 0
          PROVE  \E j \in 1 .. (i - 1) : given'[v][j] = msgs[given'[v][i]].needs
      <4>1. CASE i \in DOMAIN given[v]
        <5>1. given'[v][i] = given[v][i]
          BY <1>g, <3>1, <3>3, <4>1
        <5>2. PICK j \in 1 .. (i - 1) : given[v][j] = msgs[given[v][i]].needs
          BY <3>1, <3>5, <4>1, <5>1 DEF DecodeOf
        <5>3. given'[v][j] = given[v][j]
          BY <1>g, <3>1, <3>3, <4>1
        <5>4. QED
          BY <5>1, <5>2, <5>3
      <4>2. CASE i = Len(given[v]) + 1
        <5>1. msgs[m].needs \in Range(given[v])
          BY <2>3, <3>1, <3>3, <3>5, <4>2 DEF InformInv
        <5>2. PICK j \in DOMAIN given[v] : given[v][j] = msgs[m].needs
          BY <5>1 DEF Range
        <5>3. j \in 1 .. (i - 1) /\ given'[v][j] = given[v][j]
          BY <1>g, <3>1, <3>3, <4>2
        <5>4. QED
          BY <3>3, <4>2, <5>2, <5>3
      <4>3. i \in 1 .. Len(given[v]) + 1 /\ Len(given[v]) \in Nat
            /\ DOMAIN given[v] = 1 .. Len(given[v])
        BY <1>g, <3>1, <3>3, <3>5
      <4>4. i \in DOMAIN given[v] \/ i = Len(given[v]) + 1
        BY ONLY <4>3
      <4>5. QED
        BY <4>1, <4>2, <4>4
    <3>6. QED
      BY <2>1, <3>1, <3>4, <3>5 DEF DecodeOf, Undisturbed
  <2>5. ASSUME NEW v \in Viewers, v \notin group PROVE DecodeOf(v)'
    <3>1. given'[v] = given[v]
      BY <1>4, <2>5 DEF Broadcast
    <3>2. QED
      BY <2>1, <3>1, <1>a
  <2>6. QED
    BY <2>4, <2>5
<1>5. ASSUME NEW v \in Viewers, Get(v) PROVE \A u \in Viewers : DecodeOf(u)'
  <2>1. \A u \in Viewers : u # v => DecodeOf(u)'
    BY <1>5, <1>a, <1>t DEF Get
  <2>2. DecodeOf(v)'
    <3>1. CASE meta = 0
      <4>1. pc'[v] = "idle" /\ status'[v] = "refused" /\ v \notin group'
        BY <1>5, <1>t, <3>1 DEF Get, PlaceInv, PlaceOf
      <4>2. QED
        BY <4>1 DEF DecodeOf, Undisturbed
    <3>2. CASE meta # 0
      <4>1. given'[v] = <<meta>> /\ v \notin group' /\ msgs' = msgs
        BY <1>5, <1>t, <3>2 DEF Get, PlaceInv, PlaceOf
      <4>2. meta \in DOMAIN msgs /\ msgs[meta].kind = "meta"
        BY <3>2, Elements DEF TypeInv, StreamTypes, MsgInv
      <4>3. msgs[meta].needs = 0
        BY <4>2 DEF MsgInv
      <4>4. QED
        BY <4>1, <4>3 DEF DecodeOf, Undisturbed
    <3>3. QED
      BY <3>1, <3>2
  <2>3. QED
    BY <2>1, <2>2
<1>6. ASSUME NEW v \in Viewers, CopyHeader(v) PROVE \A u \in Viewers : DecodeOf(u)'
  <2>1. \A u \in Viewers : u # v => DecodeOf(u)'
    BY <1>6, <1>a, <1>t DEF CopyHeader
  <2>2. DecodeOf(v)'
    <3> DEFINE x == configs[cursor[v] + 1]
    <3>1. cursor[v] <= Len(configs) /\ cursor[v] # Len(configs) /\ cursor[v] \in Nat
      BY <1>6 DEF CopyHeader, PlaceInv, PlaceOf, TypeInv, ViewerTypes
    <3>2. x \in 1 .. Len(msgs) /\ given[v] \in Seq(1 .. Len(msgs)) /\ msgs[x].kind = "config"
          /\ x \in DOMAIN msgs
      BY <3>1, <1>t, Elements DEF TypeInv, MsgInv
    <3>3. msgs[x].needs = 0
      BY <3>2 DEF MsgInv
    <3>4. given'[v] = Append(given[v], x) /\ pc[v] = "copy" /\ pc'[v] = "copy" /\ v \notin group'
          /\ UNCHANGED msgs
      BY <1>6, <1>t DEF CopyHeader, PlaceInv, PlaceOf
    <3>5. /\ DOMAIN given'[v] = 1 .. Len(given[v]) + 1
          /\ \A i \in 1 .. Len(given[v]) : given'[v][i] = given[v][i]
          /\ given'[v][Len(given[v]) + 1] = x
      BY <3>2, <3>4, AppendRange
    <3>6. \A i \in DOMAIN given[v] : msgs[given[v][i]].needs = 0
      BY <3>4 DEF DecodeOf
    <3>7. \A i \in DOMAIN given'[v] : msgs[given'[v][i]].needs = 0
      BY <1>g, <3>3, <3>5, <3>6
    <3>8. QED
      BY <3>4, <3>7 DEF DecodeOf, Undisturbed
  <2>3. QED
    BY <2>1, <2>2
<1>7. ASSUME NEW v \in Viewers, CopyThrows(v) \/ CopyEnds(v) \/ Join(v) \/ Leave(v)
      PROVE \A u \in Viewers : DecodeOf(u)'
  <2>1. \A u \in Viewers : u # v => DecodeOf(u)'
    BY <1>7, <1>a, <1>t DEF CopyThrows, CopyEnds, Join, Leave
  <2>2. CASE CopyThrows(v) \/ Leave(v)
    <3>1. pc'[v] = "idle" /\ status'[v] # "new" /\ v \notin group'
      BY <2>2, <1>t DEF CopyThrows, Leave, PlaceInv, PlaceOf
    <3>2. QED
      BY <2>1, <3>1 DEF DecodeOf, Undisturbed
  <2>3. CASE CopyEnds(v)
    <3>1. pc[v] = "copy" /\ v \notin group' /\ UNCHANGED <<given, msgs>>
      BY <2>3 DEF CopyEnds, PlaceInv, PlaceOf
    <3>2. QED
      BY <2>1, <3>1 DEF DecodeOf, Undisturbed
  <2>4. CASE Join(v)
    <3>1. pc[v] = "join" /\ UNCHANGED <<given, msgs>>
      BY <2>4 DEF Join
    <3>2. QED
      BY <2>1, <3>1 DEF DecodeOf
  <2>5. QED
    BY <1>7, <2>2, <2>3, <2>4
<1>8. ASSUME NEW v \in Viewers, TakeUp(v) PROVE \A u \in Viewers : DecodeOf(u)'
  BY <1>8, <1>a DEF TakeUp
<1>9. ASSUME NEW w \in Writers, Encode(w) \/ TagSize(w) \/ CopyBody(w) \/ MoveIndex(w)
      PROVE \A v \in Viewers : DecodeOf(v)'
  BY <1>9, <1>a DEF Encode, TagSize, CopyBody, MoveIndex
<1>10. CASE UNCHANGED vars
  BY <1>10, <1>a DEF vars
<1>11. QED
  BY <1>1, <1>2, <1>3, <1>4, <1>5, <1>6, <1>7, <1>8, <1>9, <1>10 DEF Next

-----------------------------------------------------------------------------
(* Theorems. *)

\* So all of them hold always.
LEMMA FeedInvariant == Spec => []IInv
<1>1. Init => IInv
  BY TypeInvInit, PlaceInvInit, RaceInvInit, MsgInvInit, InformInvInit, DecodeInvInit DEF IInv
<1>2. IInv /\ [Next]_vars => IInv'
  BY TypeInvNext, PlaceInvNext, RaceInvNext, MsgInvNext, InformInvNext, DecodeInvNext DEF IInv
<1>3. QED
  BY <1>1, <1>2, PTL DEF Spec

\* A tag is torn only by the race itself: one that no other handler's write of
\* the same message overlapped is whole, however often the message was written
\* before, by whom, and however those writes ended. (DataMessage.encode)
THEOREM TagsTornByOverlap == Spec => []TornByOverlap
<1>1. IInv => TornByOverlap
  BY DEF IInv, RaceInv
<1>2. QED
  BY <1>1, FeedInvariant, PTL

\* A viewer that joined undisturbed has been given every sequence header that
\* is in the list, those added since included, as soon as the publisher's
\* handler is through with them. (channelRead0 of both handlers, broadcast)
THEOREM ViewersInformed == Spec => []Informed
<1>1. IInv => Informed
  BY DEF IInv, InformInv, Informed
<1>2. QED
  BY <1>1, FeedInvariant, PTL

\* Such a viewer never gets media ahead of the sequence header that the media
\* relies on, across publications and republications.
\* (channelRead0 of both handlers, setPublisher)
THEOREM MediaDecodable == Spec => []Decodable
<1>1. IInv => Decodable
  BY DEF IInv, DecodeInv
<1>2. QED
  BY <1>1, FeedInvariant, PTL
=============================================================================
