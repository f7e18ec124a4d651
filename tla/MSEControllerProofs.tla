-------------------------- MODULE MSEControllerProofs --------------------------
(***************************************************************************)
(* What MSEController guarantees for any load, any number of seeks and any  *)
(* number of events that wait.                                             *)
(***************************************************************************)
EXTENDS MSEController, Integers, FiniteSetTheorems, NaturalsInduction,
        WellFoundedInduction, TLAPS

Segments == [n: 0 .. Duration, load: Nat]

Buffers ==
  [there: BOOLEAN, op: {"idle", "append", "remove"}, seg: Segments, range: SUBSET Nat,
   buffered: SUBSET Segments, ends: Nat, inited: BOOLEAN]

Controllers ==
  [sb: [Types -> Buffers], pending: [Types -> Seq(Segments)],
   ranges: [Types -> Seq(SUBSET Nat)], inits: Seq(Types), lastInit: [Types -> BOOLEAN],
   idr: Seq(Nat), full: BOOLEAN, eos: BOOLEAN, duration: BOOLEAN,
   appended: [Types -> Seq(Segments)], unmade: SUBSET Types, skipped: BOOLEAN,
   refused: BOOLEAN, early: BOOLEAN]

Feeds == [left: Seq(Types \X (0 .. Duration)), complete: BOOLEAN]

TypeInv ==
  /\ source \in {"closed", "open", "ended", "hung", "detached"}
  /\ opening \in {"awaited", "due", "done"}
  /\ m \in Controllers /\ feed \in Feeds /\ config \in Configs
  /\ now \in Nat /\ load \in Nat /\ back \in BOOLEAN
  /\ brought \in [Types -> Seq(Segments)]

\* The duration is put right for an audio/mpeg track under Safari only.
Mends == config.safari /\ config.mpeg

\* Only a buffer that is there has had an operation, or holds something, or has
\* ranges to remove.
Sound(x) ==
  /\ x \in Controllers
  /\ \A t \in Types :
       (\/ x.sb[t].inited \/ x.sb[t].op # "idle" \/ x.sb[t].ends > 0 \/ x.ranges[t] # <<>>
        \/ x.sb[t].buffered # {} \/ x.appended[t] # <<>>)
       => x.sb[t].there

\* For each init segment that was taken its buffer is there, or was not made.
Known(x) == \A t \in Types : x.lastInit[t] => x.sb[t].there \/ t \in x.unmade

\* All that is to be removed, or being removed, lies behind the position.
Behind(x, t) ==
  /\ \A n \in x.sb[t].range : n < now
  /\ \A i \in DOMAIN x.ranges[t] : \A n \in x.ranges[t][i] : n < now

BehindInv == load = 0 /\ ~back => \A t \in Types : Behind(m, t)

MediaOf(S) == {s \in S : s.n # Init0}

\* After a seek each thing buffered is in a range to be removed, and nothing of
\* the new load is appended; before, and when that is done, a buffer holds what
\* was appended of this load.
ClearedBuffer(b, pending, appended, ranges, l) ==
  /\ \A i \in DOMAIN pending : pending[i].load = l
  /\ \A i \in DOMAIN appended : appended[i].load = l
  /\ b.op = "append" =>
       /\ ranges = <<>> /\ b.seg.load = l
       /\ MediaOf(Range(appended)) = b.buffered \cup MediaOf({b.seg})
  /\ b.op = "idle" /\ ranges = <<>> => MediaOf(Range(appended)) = b.buffered
  /\ b.op = "remove" \/ ranges # <<>> =>
       /\ MediaOf(Range(appended)) = {}
       /\ \A s \in b.buffered : \/ b.op = "remove" /\ s.n \in b.range
                               \/ \E i \in DOMAIN ranges : s.n \in ranges[i]

Cleared(x, t, l) == ClearedBuffer(x.sb[t], x.pending[t], x.appended[t], x.ranges[t], l)

\* No buffer that could take an append has ranges to be removed first.
Ready(x) == \A t \in Types : x.sb[t].op = "idle" => x.ranges[t] = <<>>

ClearInv ==
  ~config.auto /\ Alive =>
    /\ \A t \in Types : m.sb[t].there \/ load = 0 => Cleared(m, t, load)
    /\ load = 0 => \A t \in Types : m.ranges[t] = <<>>

\* Its init segment was taken, or waits, or is the first of the track to come.
Led(t, i) ==
  \/ m.sb[t].there \/ t \in m.unmade \/ t \in Range(m.inits)
  \/ \E j \in 1 .. i : feed.left[j] = <<t, Init0>>

\* How the source's opening, the load and the buffers go together.
PhaseInv ==
  Alive =>
    /\ source = "closed" <=> opening = "awaited"
    /\ source = "closed" => /\ \A t \in Types : ~m.sb[t].there
                            /\ feed.left = Feed \/ HasPendingSegments(m)
    /\ source = "ended" => ~AnyUpdating(m)
    /\ opening # "done" => load = 0
    /\ opening = "done" => m.inits = <<>>
    /\ load > 0 => /\ \A t \in Types : m.sb[t].there \/ t \in m.unmade
                   /\ \A i \in DOMAIN feed.left : feed.left[i][2] # Init0
    /\ \A t \in Types : m.pending[t] # <<>> =>
         m.sb[t].there \/ t \in m.unmade \/ t \in Range(m.inits)
    /\ Known(m)
    /\ \A i \in DOMAIN feed.left : Led(feed.left[i][1], i)
    /\ feed.complete => feed.left = <<>>
    /\ (m.eos \/ source = "ended") /\ load = 0 => feed.complete
    /\ m.duration => Mends

\* An operation is under way, or its event to be handled.
Busy(x) == \E t \in Types : Updating(x, t) \/ x.sb[t].ends > 0

\* The end of the stream has been reached with nothing left, or is noted while
\* an event is still to come that leads to it, or only an empty segment was taken.
StallInv ==
  Alive /\ ~m.refused /\ ~m.early /\ m.unmade = {} /\ ~Mends =>
    /\ source = "ended" => ~HasPendingSegments(m) /\ ~HasPendingRemoveRanges(m)
    /\ feed.complete /\ source # "ended" =>
         /\ m.eos
         /\ Busy(m) \/ m.skipped \/ (opening # "done" /\ HasPendingSegments(m))

IInv ==
  /\ TypeInv /\ Sound(m) /\ NothingLost /\ BehindInv /\ ClearInv /\ PhaseInv /\ StallInv

-----------------------------------------------------------------------------
(* Data. *)

\* The fields of a controller.
LEMMA Fields ==
  ASSUME NEW x \in Controllers, NEW t \in Types
  PROVE  /\ x.sb \in [Types -> Buffers] /\ x.sb[t] \in Buffers
         /\ x.pending \in [Types -> Seq(Segments)] /\ x.pending[t] \in Seq(Segments)
         /\ x.ranges \in [Types -> Seq(SUBSET Nat)] /\ x.ranges[t] \in Seq(SUBSET Nat)
         /\ x.appended \in [Types -> Seq(Segments)] /\ x.appended[t] \in Seq(Segments)
         /\ x.inits \in Seq(Types) /\ x.lastInit \in [Types -> BOOLEAN] /\ x.idr \in Seq(Nat)
         /\ x.full \in BOOLEAN /\ x.eos \in BOOLEAN /\ x.duration \in BOOLEAN
         /\ x.refused \in BOOLEAN /\ x.early \in BOOLEAN /\ x.skipped \in BOOLEAN
         /\ x.unmade \subseteq Types
BY DEF Controllers

\* The fields of a source buffer.
LEMMA BufferFields ==
  ASSUME NEW b \in Buffers
  PROVE  /\ b.there \in BOOLEAN /\ b.inited \in BOOLEAN /\ b.op \in {"idle", "append", "remove"}
         /\ b.seg \in Segments /\ b.range \subseteq Nat /\ b.buffered \subseteq Segments
         /\ b.ends \in Nat
BY DEF Buffers

\* Controllers with one of their fields changed.
LEMMA Changed ==
  ASSUME NEW x \in Controllers
  PROVE  /\ \A v \in [Types -> Buffers] : [x EXCEPT !.sb = v] \in Controllers
         /\ \A v \in [Types -> Seq(Segments)] :
              [x EXCEPT !.pending = v] \in Controllers /\ [x EXCEPT !.appended = v] \in Controllers
         /\ \A v \in [Types -> Seq(SUBSET Nat)] : [x EXCEPT !.ranges = v] \in Controllers
         /\ \A v \in Seq(Types) : [x EXCEPT !.inits = v] \in Controllers
         /\ \A v \in [Types -> BOOLEAN] : [x EXCEPT !.lastInit = v] \in Controllers
         /\ \A v \in Seq(Nat) : [x EXCEPT !.idr = v] \in Controllers
         /\ \A v \in SUBSET Types : [x EXCEPT !.unmade = v] \in Controllers
         /\ \A v \in BOOLEAN : /\ [x EXCEPT !.full = v] \in Controllers
                               /\ [x EXCEPT !.skipped = v] \in Controllers
                               /\ [x EXCEPT !.eos = v] \in Controllers
                               /\ [x EXCEPT !.duration = v] \in Controllers
                               /\ [x EXCEPT !.refused = v] \in Controllers
                               /\ [x EXCEPT !.early = v] \in Controllers
<1>1. /\ \A v \in [Types -> Buffers] : [x EXCEPT !.sb = v] \in Controllers
      /\ \A v \in [Types -> Seq(Segments)] : [x EXCEPT !.pending = v] \in Controllers
  BY DEF Controllers
<1>2. /\ \A v \in [Types -> Seq(Segments)] : [x EXCEPT !.appended = v] \in Controllers
      /\ \A v \in [Types -> Seq(SUBSET Nat)] : [x EXCEPT !.ranges = v] \in Controllers
      /\ \A v \in Seq(Types) : [x EXCEPT !.inits = v] \in Controllers
  BY DEF Controllers
<1>3. /\ \A v \in [Types -> BOOLEAN] : [x EXCEPT !.lastInit = v] \in Controllers
      /\ \A v \in Seq(Nat) : [x EXCEPT !.idr = v] \in Controllers
      /\ \A v \in SUBSET Types : [x EXCEPT !.unmade = v] \in Controllers
  BY DEF Controllers
<1>4. /\ \A v \in BOOLEAN : [x EXCEPT !.full = v] \in Controllers
      /\ \A v \in BOOLEAN : [x EXCEPT !.skipped = v] \in Controllers
      /\ \A v \in BOOLEAN : [x EXCEPT !.eos = v] \in Controllers
  BY DEF Controllers
<1>5. /\ \A v \in BOOLEAN : [x EXCEPT !.duration = v] \in Controllers
      /\ \A v \in BOOLEAN : [x EXCEPT !.refused = v] \in Controllers
      /\ \A v \in BOOLEAN : [x EXCEPT !.early = v] \in Controllers
  BY DEF Controllers
<1>6. QED
  BY <1>1, <1>2, <1>3, <1>4, <1>5

\* What goes with a buffer that is there, of one type.
LEMMA SoundAt ==
  ASSUME NEW x, Sound(x), NEW t \in Types
  PROVE  /\ x.sb[t].inited => x.sb[t].there
         /\ x.sb[t].op # "idle" => x.sb[t].there
         /\ x.sb[t].ends > 0 => x.sb[t].there
         /\ x.ranges[t] # <<>> => x.sb[t].there
         /\ x.sb[t].buffered # {} => x.sb[t].there
         /\ x.appended[t] # <<>> => x.sb[t].there
BY Zenon DEF Sound

\* And of all.
LEMMA SoundBy ==
  ASSUME NEW x \in Controllers,
         \A t \in Types : /\ x.sb[t].inited => x.sb[t].there
                          /\ x.sb[t].op # "idle" => x.sb[t].there
                          /\ x.sb[t].ends > 0 => x.sb[t].there
                          /\ x.ranges[t] # <<>> => x.sb[t].there
                          /\ x.sb[t].buffered # {} => x.sb[t].there
                          /\ x.appended[t] # <<>> => x.sb[t].there
  PROVE  Sound(x)
<1>1. ASSUME NEW t \in Types,
             \/ x.sb[t].inited \/ x.sb[t].op # "idle" \/ x.sb[t].ends > 0
             \/ x.ranges[t] # <<>> \/ x.sb[t].buffered # {} \/ x.appended[t] # <<>>
      PROVE  x.sb[t].there
  BY <1>1
<1>2. QED
  BY <1>1, Zenon DEF Sound

\* A queue that is longer by one.
LEMMA Pushed ==
  ASSUME NEW S, NEW s \in Seq(S), NEW c \in S
  PROVE  /\ Append(s, c) \in Seq(S) /\ Append(s, c) # <<>>
         /\ \A i \in DOMAIN s : i \in DOMAIN Append(s, c) /\ Append(s, c)[i] = s[i]
         /\ \A i \in DOMAIN Append(s, c) : i \in DOMAIN s \/ Append(s, c)[i] = c
         /\ Range(Append(s, c)) = Range(s) \cup {c}
<1>1. /\ Append(s, c) \in Seq(S) /\ Len(Append(s, c)) = Len(s) + 1
      /\ DOMAIN Append(s, c) = DOMAIN s \cup {Len(s) + 1} /\ Append(s, c)[Len(s) + 1] = c
      /\ \A i \in DOMAIN s : Append(s, c)[i] = s[i]
  OBVIOUS
<1>2. Append(s, c) # <<>>
  <2>1. Len(Append(s, c)) # Len(<<>>)
    BY <1>1
  <2>2. QED
    BY <2>1, Zenon
<1>3. QED
  BY <1>1, <1>2 DEF Range

\* A queue whose head has been taken.
LEMMA Popped ==
  ASSUME NEW S, NEW s \in Seq(S), s # <<>>
  PROVE  /\ Tail(s) \in Seq(S) /\ Head(s) = s[1] /\ s[1] \in S /\ 1 \in DOMAIN s
         /\ \A i \in DOMAIN Tail(s) : i + 1 \in DOMAIN s /\ Tail(s)[i] = s[i + 1]
         /\ \A i \in DOMAIN s : i # 1 => i - 1 \in DOMAIN Tail(s) /\ Tail(s)[i - 1] = s[i]
OBVIOUS

\* Taking the head of one queue to the end of another keeps them in a row.
LEMMA HeadMoves ==
  ASSUME NEW S, NEW a \in Seq(S), NEW s \in Seq(S), s # <<>>
  PROVE  Append(a, Head(s)) \o Tail(s) = a \o s
OBVIOUS

\* A segment added to what waits is added to the row.
LEMMA PushedRow ==
  ASSUME NEW S, NEW a \in Seq(S), NEW s \in Seq(S), NEW c \in S
  PROVE  a \o Append(s, c) = Append(a \o s, c)
OBVIOUS

-----------------------------------------------------------------------------
(* One operation of one buffer. *)

\* x with an append of the first waiting segment of t, or with a removal.
Appending(x, t) ==
  [x.sb[t] EXCEPT !.op = "append", !.seg = Head(x.pending[t])]
Removing(x, t) ==
  [x.sb[t] EXCEPT !.op = "remove", !.range = Head(x.ranges[t])]

Stays(x, y) ==
  /\ y.inits = x.inits /\ y.lastInit = x.lastInit /\ y.eos = x.eos /\ y.early = x.early
  /\ y.duration = x.duration /\ y.unmade = x.unmade

Appends(x, y, t) ==
  /\ x.sb[t].there /\ x.sb[t].op = "idle" /\ x.pending[t] # <<>>
  /\ y.sb = [x.sb EXCEPT ![t] = Appending(x, t)]
  /\ y.pending = [x.pending EXCEPT ![t] = Tail(x.pending[t])]
  /\ y.appended = [x.appended EXCEPT ![t] = Append(x.appended[t], Head(x.pending[t]))]
  /\ y.ranges = x.ranges /\ y.refused = x.refused

\* An empty segment is taken off the queue; nothing begins.
Skips(x, y, t) ==
  /\ x.sb[t].there /\ x.sb[t].op = "idle" /\ x.pending[t] # <<>>
  /\ Empty(t, Head(x.pending[t])) /\ (y.skipped \/ AnyUpdating(x))
  /\ y.sb = x.sb
  /\ y.pending = [x.pending EXCEPT ![t] = Tail(x.pending[t])]
  /\ y.appended = [x.appended EXCEPT ![t] = Append(x.appended[t], Head(x.pending[t]))]
  /\ y.ranges = x.ranges /\ y.refused = x.refused

Removes(x, y, t) ==
  /\ x.sb[t].there /\ x.sb[t].op = "idle" /\ x.ranges[t] # <<>>
  /\ y.sb = [x.sb EXCEPT ![t] = Removing(x, t)]
  /\ y.ranges = [x.ranges EXCEPT ![t] = Tail(x.ranges[t])]
  /\ y.pending = x.pending /\ y.appended = x.appended /\ y.refused = x.refused

Rests(x, y) ==
  /\ y.sb = x.sb /\ y.pending = x.pending /\ y.appended = x.appended /\ y.ranges = x.ranges
  /\ y.skipped = x.skipped

\* appendBuffer takes the first segment, or it is skipped, or refused, or there
\* is none to take.
LEMMA AppendOfStep ==
  ASSUME NEW x \in Controllers, NEW t \in Types, NEW out \in {"ok", "quota", "error"}
  PROVE  LET y == AppendOf(x, t, out)
         IN  /\ y \in Controllers /\ Stays(x, y)
             /\ \/ Appends(x, y, t) \/ Skips(x, y, t)
                \/ Rests(x, y) /\ y.refused
                \/ /\ Rests(x, y) /\ y.refused = x.refused
                   /\ ~x.sb[t].there \/ Updating(x, t) \/ x.pending[t] = <<>>
<1> DEFINE seg == Head(x.pending[t])
           y == AppendOf(x, t, out)
<1>0. SUFFICES /\ y \in Controllers /\ Stays(x, y)
               /\ \/ Appends(x, y, t) \/ Skips(x, y, t)
                  \/ Rests(x, y) /\ y.refused
                  \/ /\ Rests(x, y) /\ y.refused = x.refused
                     /\ ~x.sb[t].there \/ Updating(x, t) \/ x.pending[t] = <<>>
  OBVIOUS
<1>1. CASE ~x.sb[t].there \/ Updating(x, t) \/ x.pending[t] = <<>>
  <2>1. y = x
    BY <1>1 DEF AppendOf
  <2>2. QED
    BY <1>1, <2>1 DEF Stays, Rests
<1>e. CASE /\ ~(~x.sb[t].there \/ Updating(x, t) \/ x.pending[t] = <<>>)
           /\ Empty(t, seg)
  <2>0. x.pending[t] \in Seq(Segments) /\ x.pending[t] # <<>> /\ x.sb[t] \in Buffers
        /\ x.sb[t].op = "idle" /\ x.sb[t].there
    BY <1>e, Fields, BufferFields DEF Updating
  <2>1. seg \in Segments /\ Tail(x.pending[t]) \in Seq(Segments)
    BY <2>0, Popped
  <2> DEFINE v == ~AnyUpdating(x)
             a == [x EXCEPT !.pending = [x.pending EXCEPT ![t] = Tail(x.pending[t])]]
             b == [a EXCEPT !.appended = [x.appended EXCEPT ![t] = Append(x.appended[t], seg)]]
             c == [b EXCEPT !.skipped = v]
  <2>2. y = c
    <3>1. y = [x EXCEPT !.pending[t] = Tail(@), !.appended[t] = Append(@, seg), !.skipped = v]
      BY <1>e, Zenon DEF AppendOf
    <3> HIDE DEF y, seg, v
    <3>2. QED
      BY <3>1 DEF Controllers
  <2>3. v \in BOOLEAN
    BY DEF AnyUpdating
  <2> HIDE DEF v
  <2>4. a \in Controllers
    BY <2>1, Fields, Changed
  <2>5. b \in Controllers
    <3>1. Append(x.appended[t], seg) \in Seq(Segments)
      BY <2>1, Fields, Pushed
    <3>2. [x.appended EXCEPT ![t] = Append(x.appended[t], seg)] \in [Types -> Seq(Segments)]
      BY <3>1, Fields
    <3> HIDE DEF a
    <3>3. QED
      BY <2>4, <3>2, Changed
  <2>6. c \in Controllers
    <3> HIDE DEF b
    <3>1. QED
      BY <2>3, <2>5, Changed
  <2>7. Stays(x, c)
    BY DEF Stays, Controllers
  <2>8. c.skipped = v /\ c.sb = x.sb /\ c.ranges = x.ranges /\ c.refused = x.refused
        /\ c.pending = [x.pending EXCEPT ![t] = Tail(x.pending[t])]
        /\ c.appended = [x.appended EXCEPT ![t] = Append(x.appended[t], seg)]
    BY DEF Controllers
  <2>9. v \/ AnyUpdating(x)
    BY DEF v
  <2> HIDE DEF y, c
  <2>10. Skips(x, c, t)
    BY <1>e, <2>0, <2>8, <2>9 DEF Skips
  <2>11. QED
    BY <2>2, <2>6, <2>7, <2>10
<1>2. CASE /\ ~(~x.sb[t].there \/ Updating(x, t) \/ x.pending[t] = <<>>)
           /\ ~Empty(t, seg) /\ out # "ok"
  <2>1. y = IF out = "quota" THEN [[x EXCEPT !.full = TRUE] EXCEPT !.refused = TRUE]
            ELSE [x EXCEPT !.refused = TRUE]
    BY <1>2 DEF AppendOf, Controllers
  <2> HIDE DEF y
  <2>2. y \in Controllers
    BY <2>1, Changed
  <2>3. Stays(x, y) /\ Rests(x, y) /\ y.refused
    BY <2>1 DEF Stays, Rests, Controllers
  <2>4. QED
    BY <2>2, <2>3
<1>3. CASE /\ ~(~x.sb[t].there \/ Updating(x, t) \/ x.pending[t] = <<>>)
           /\ ~Empty(t, seg) /\ out = "ok"
  <2>0. x.pending[t] \in Seq(Segments) /\ x.pending[t] # <<>> /\ x.sb[t] \in Buffers
        /\ x.sb[t].op = "idle" /\ x.sb[t].there
    BY <1>3, Fields, BufferFields DEF Updating
  <2>1. seg \in Segments /\ Tail(x.pending[t]) \in Seq(Segments)
    BY <2>0, Popped
  <2>2. Appending(x, t) \in Buffers
    BY <2>0, <2>1 DEF Appending, Buffers
  <2> DEFINE a == [x EXCEPT !.sb = [x.sb EXCEPT ![t] = Appending(x, t)]]
             b == [a EXCEPT !.pending = [x.pending EXCEPT ![t] = Tail(x.pending[t])]]
             f == [b EXCEPT !.full = FALSE]
             c == [f EXCEPT !.skipped = FALSE]
             d == [c EXCEPT !.appended = [x.appended EXCEPT ![t] = Append(x.appended[t], seg)]]
             e == [d EXCEPT !.idr = IF t = "video" /\ seg.n # Init0 THEN Append(x.idr, seg.n) ELSE x.idr]
  <2>3. y = e
    <3>1. y = [x EXCEPT !.sb[t] = [@ EXCEPT !.op = "append", !.seg = seg],
                        !.pending[t] = Tail(@), !.full = FALSE, !.skipped = FALSE,
                        !.appended[t] = Append(@, seg),
                        !.idr = IF t = "video" /\ seg.n # Init0 THEN Append(@, seg.n) ELSE @]
      BY <1>3, Zenon DEF AppendOf
    <3>2. QED
      BY <3>1 DEF Controllers, Appending
  <2>4. a \in Controllers
    BY <2>2, Fields, Changed
  <2>5. b \in Controllers
    BY <2>1, <2>4, Fields, Changed
  <2>6. d \in Controllers
    <3>0. f \in Controllers
      BY <2>5, Changed
    <3>1. c \in Controllers
      BY <3>0, Changed
    <3>2. Append(x.appended[t], seg) \in Seq(Segments)
      BY <2>1, Fields, Pushed
    <3>3. [x.appended EXCEPT ![t] = Append(x.appended[t], seg)] \in [Types -> Seq(Segments)]
      BY <3>2, Fields
    <3>4. QED
      BY <3>1, <3>3, Changed
  <2>7. e \in Controllers
    <3>1. seg.n \in Nat /\ x.idr \in Seq(Nat)
      BY <2>1, Fields DEF Segments
    <3>2. Append(x.idr, seg.n) \in Seq(Nat)
      BY <3>1, Pushed
    <3>3. (IF t = "video" /\ seg.n # Init0 THEN Append(x.idr, seg.n) ELSE x.idr) \in Seq(Nat)
      BY <3>1, <3>2
    <3> HIDE DEF d
    <3>4. QED
      BY <3>3, <2>6, Changed
  <2>8. Stays(x, e)
    BY DEF Stays, Controllers
  <2>9. Appends(x, e, t)
    BY <2>0 DEF Appends, Controllers
  <2> HIDE DEF y, e
  <2>10. QED
    BY <2>3, <2>7, <2>8, <2>9
<1>4. QED
  BY <1>1, <1>e, <1>2, <1>3

\* remove takes the first range, or has none to take.
LEMMA RemoveOfStep ==
  ASSUME NEW x \in Controllers, NEW t \in Types
  PROVE  LET y == RemoveOf(x, t)
         IN  /\ y \in Controllers /\ Stays(x, y)
             /\ \/ Removes(x, y, t)
                \/ y = x /\ (~x.sb[t].there \/ Updating(x, t) \/ x.ranges[t] = <<>>)
<1> DEFINE y == RemoveOf(x, t)
<1>0. SUFFICES /\ y \in Controllers /\ Stays(x, y)
               /\ \/ Removes(x, y, t)
                  \/ y = x /\ (~x.sb[t].there \/ Updating(x, t) \/ x.ranges[t] = <<>>)
  OBVIOUS
<1>1. CASE ~x.sb[t].there \/ Updating(x, t) \/ x.ranges[t] = <<>>
  <2>1. y = x
    BY <1>1 DEF RemoveOf
  <2>2. QED
    BY <1>1, <2>1 DEF Stays
<1>2. CASE ~(~x.sb[t].there \/ Updating(x, t) \/ x.ranges[t] = <<>>)
  <2>0. x.ranges[t] \in Seq(SUBSET Nat) /\ x.ranges[t] # <<>> /\ x.sb[t] \in Buffers
        /\ x.sb[t].op = "idle" /\ x.sb[t].there
    BY <1>2, Fields, BufferFields DEF Updating
  <2>1. Head(x.ranges[t]) \in SUBSET Nat /\ Tail(x.ranges[t]) \in Seq(SUBSET Nat)
    BY <2>0, Popped
  <2>2. Removing(x, t) \in Buffers
    BY <2>0, <2>1 DEF Removing, Buffers
  <2> DEFINE a == [x EXCEPT !.sb = [x.sb EXCEPT ![t] = Removing(x, t)]]
             c == [a EXCEPT !.ranges = [x.ranges EXCEPT ![t] = Tail(x.ranges[t])]]
             b == [c EXCEPT !.skipped = FALSE]
  <2>3. y = b
    BY <1>2 DEF RemoveOf, Controllers, Removing
  <2>4. a \in Controllers
    BY <2>2, Fields, Changed
  <2>5. b \in Controllers
    <3>1. c \in Controllers
      BY <2>1, <2>4, Fields, Changed
    <3> HIDE DEF c
    <3>2. QED
      BY <3>1, Changed
  <2>6. Stays(x, b) /\ Removes(x, b, t)
    BY <2>0 DEF Stays, Removes, Controllers
  <2> HIDE DEF y, b
  <2>7. QED
    BY <2>3, <2>5, <2>6
<1>3. QED
  BY <1>1, <1>2

\* What appends, removals and arrivals of a step do to a controller: what they
\* take from the queues they give to the buffers, in order.
Row(x, u) == x.appended[u] \o x.pending[u]

Forward(x, y) ==
  /\ y.inits = x.inits /\ y.eos = x.eos /\ y.early = x.early
  /\ x.refused => y.refused
  /\ y.duration => x.duration \/ Mends
  /\ x.unmade \subseteq y.unmade /\ (Known(x) => Known(y))
  /\ x.skipped => y.skipped \/ AnyUpdating(y)
  /\ \A u \in Types :
       /\ x.sb[u].there => y.sb[u].there
       /\ y.sb[u].ends = x.sb[u].ends
       /\ Updating(x, u) => Updating(y, u)
       /\ Row(y, u) = Row(x, u)
       /\ x.pending[u] # <<>> => y.pending[u] # <<>> \/ AnyUpdating(y) \/ y.skipped
       /\ y.pending[u] # <<>> => x.pending[u] # <<>>

SameThere(x, y) ==
  /\ y.lastInit = x.lastInit /\ y.unmade = x.unmade
  /\ \A u \in Types : y.sb[u].there = x.sb[u].there

\* Nothing but ranges that were to be removed is to be removed.
StillBehind(x, y) == \A u \in Types : Behind(x, u) => Behind(y, u)

\* A buffer's place in the round after a seek is kept.
StillCleared(x, y) == \A u \in Types : \A l \in Nat : Cleared(x, u, l) => Cleared(y, u, l)

\* Standing still is going forward.
LEMMA ForwardRefl ==
  ASSUME NEW x
  PROVE  Forward(x, x) /\ SameThere(x, x) /\ StillBehind(x, x) /\ StillCleared(x, x)
BY DEF Forward, SameThere, StillBehind, StillCleared

\* Going forward twice is going forward.
LEMMA ForwardTrans ==
  ASSUME NEW x, NEW y, NEW z, Forward(x, y), Forward(y, z)
  PROVE  Forward(x, z)
<1>1. AnyUpdating(y) => AnyUpdating(z)
  BY Zenon DEF Forward, AnyUpdating
<1>2. /\ z.inits = x.inits /\ z.eos = x.eos /\ z.early = x.early /\ (x.refused => z.refused)
      /\ z.duration => x.duration \/ Mends
      /\ Known(x) => Known(z)
      /\ x.skipped => z.skipped \/ AnyUpdating(z)
  BY <1>1, Zenon DEF Forward
<1>3. x.unmade \subseteq z.unmade
  BY DEF Forward
<1>4. ASSUME NEW u \in Types
      PROVE  /\ x.sb[u].there => z.sb[u].there
             /\ z.sb[u].ends = x.sb[u].ends
             /\ Updating(x, u) => Updating(z, u)
             /\ Row(z, u) = Row(x, u)
             /\ x.pending[u] # <<>> => z.pending[u] # <<>> \/ AnyUpdating(z) \/ z.skipped
             /\ z.pending[u] # <<>> => x.pending[u] # <<>>
  BY <1>1, Zenon DEF Forward
<1>5. QED
  BY <1>2, <1>3, <1>4, Zenon DEF Forward

\* A controller of which only flags change goes forward.
LEMMA RestsForward ==
  ASSUME NEW x, NEW y \in Controllers, Sound(x), Stays(x, y), Rests(x, y),
         x.refused => y.refused
  PROVE  /\ Sound(y) /\ Forward(x, y) /\ SameThere(x, y)
         /\ StillBehind(x, y) /\ StillCleared(x, y) /\ (Ready(x) => Ready(y))
<1>1. Sound(y) /\ Forward(x, y) /\ SameThere(x, y)
  BY Zenon DEF Sound, Forward, SameThere, Stays, Rests, Row, Updating, Known, AnyUpdating
<1>2. StillBehind(x, y) /\ (Ready(x) => Ready(y))
  BY Zenon DEF StillBehind, Behind, Rests, Ready
<1>3. StillCleared(x, y)
  <2>1. ASSUME NEW u \in Types, NEW l \in Nat, Cleared(x, u, l) PROVE Cleared(y, u, l)
    BY <2>1 DEF Cleared, Rests
  <2>2. QED
    BY <2>1 DEF StillCleared
<1>4. QED
  BY <1>1, <1>2, <1>3

\* The buffer of an append, and the other one.
LEMMA AppendsBuffers ==
  ASSUME NEW x \in Controllers, NEW y \in Controllers, NEW t \in Types, Appends(x, y, t)
  PROVE  /\ y.sb[t] = Appending(x, t) /\ y.sb[t].op = "append"
         /\ y.sb[t].seg = Head(x.pending[t])
         /\ y.sb[t].there = x.sb[t].there /\ y.sb[t].ends = x.sb[t].ends
         /\ y.sb[t].inited = x.sb[t].inited /\ y.sb[t].range = x.sb[t].range
         /\ y.sb[t].buffered = x.sb[t].buffered
         /\ y.pending[t] = Tail(x.pending[t])
         /\ y.appended[t] = Append(x.appended[t], Head(x.pending[t]))
         /\ \A u \in Types \ {t} :
              y.sb[u] = x.sb[u] /\ y.pending[u] = x.pending[u] /\ y.appended[u] = x.appended[u]
<1>1. x.sb \in [Types -> Buffers] /\ x.sb[t] \in Buffers
      /\ x.pending \in [Types -> Seq(Segments)] /\ x.appended \in [Types -> Seq(Segments)]
  BY Fields
<1>2. y.sb[t] = Appending(x, t) /\ y.pending[t] = Tail(x.pending[t])
      /\ y.appended[t] = Append(x.appended[t], Head(x.pending[t]))
      /\ \A u \in Types \ {t} :
              y.sb[u] = x.sb[u] /\ y.pending[u] = x.pending[u] /\ y.appended[u] = x.appended[u]
  BY <1>1 DEF Appends
<1>3. QED
  BY <1>1, <1>2 DEF Appending, Buffers

\* The buffer of a removal, and the other one.
LEMMA RemovesBuffers ==
  ASSUME NEW x \in Controllers, NEW y \in Controllers, NEW t \in Types, Removes(x, y, t)
  PROVE  /\ y.sb[t] = Removing(x, t) /\ y.sb[t].op = "remove"
         /\ y.sb[t].range = Head(x.ranges[t])
         /\ y.sb[t].there = x.sb[t].there /\ y.sb[t].ends = x.sb[t].ends
         /\ y.sb[t].inited = x.sb[t].inited /\ y.sb[t].buffered = x.sb[t].buffered
         /\ y.ranges[t] = Tail(x.ranges[t])
         /\ \A u \in Types \ {t} : y.sb[u] = x.sb[u] /\ y.ranges[u] = x.ranges[u]
<1>1. x.sb \in [Types -> Buffers] /\ x.sb[t] \in Buffers
      /\ x.ranges \in [Types -> Seq(SUBSET Nat)]
  BY Fields
<1>2. y.sb[t] = Removing(x, t) /\ y.ranges[t] = Tail(x.ranges[t])
      /\ \A u \in Types \ {t} : y.sb[u] = x.sb[u] /\ y.ranges[u] = x.ranges[u]
  BY <1>1 DEF Removes
<1>3. QED
  BY <1>1, <1>2 DEF Removing, Buffers

\* An append goes forward.
LEMMA AppendsForward ==
  ASSUME NEW x \in Controllers, NEW y \in Controllers, NEW t \in Types,
         Sound(x), Stays(x, y), Appends(x, y, t)
  PROVE  Sound(y) /\ Forward(x, y) /\ SameThere(x, y) /\ StillBehind(x, y)
<1>0. /\ x.sb[t].there /\ x.sb[t].op = "idle" /\ x.pending[t] # <<>>
      /\ y.ranges = x.ranges /\ y.refused = x.refused
  BY DEF Appends
<1>a. /\ y.sb[t].there = x.sb[t].there /\ y.sb[t].ends = x.sb[t].ends /\ y.sb[t].op = "append"
      /\ y.sb[t].inited = x.sb[t].inited /\ y.sb[t].range = x.sb[t].range
      /\ y.sb[t].buffered = x.sb[t].buffered /\ y.sb[t].seg = Head(x.pending[t])
      /\ y.pending[t] = Tail(x.pending[t])
      /\ y.appended[t] = Append(x.appended[t], Head(x.pending[t]))
  BY AppendsBuffers
<1>b. \A u \in Types \ {t} :
        y.sb[u] = x.sb[u] /\ y.pending[u] = x.pending[u] /\ y.appended[u] = x.appended[u]
  BY AppendsBuffers
<1>c. x.pending[t] \in Seq(Segments) /\ x.appended[t] \in Seq(Segments)
  BY Fields
<1>1. Row(y, t) = Row(x, t)
  <2>1. Append(x.appended[t], Head(x.pending[t])) \o Tail(x.pending[t]) = x.appended[t] \o x.pending[t]
    BY <1>0, <1>c, HeadMoves
  <2>2. QED
    BY <1>a, <2>1, Zenon DEF Row
<1>2. ASSUME NEW u \in Types \ {t}
      PROVE  y.sb[u] = x.sb[u] /\ y.pending[u] = x.pending[u] /\ Row(y, u) = Row(x, u)
  BY <1>b DEF Row
<1>3. Sound(y) /\ SameThere(x, y)
  <2>1. ASSUME NEW u \in Types
        PROVE  /\ y.sb[u].there = x.sb[u].there /\ y.sb[u].inited = x.sb[u].inited
               /\ y.ranges[u] = x.ranges[u] /\ y.sb[u].ends = x.sb[u].ends
               /\ y.sb[u].buffered = x.sb[u].buffered
               /\ y.appended[u] # <<>> => x.appended[u] # <<>> \/ x.sb[u].there
               /\ y.sb[u].op # "idle" => x.sb[u].op # "idle" \/ x.sb[u].there
    BY <1>0, <1>a, <1>b
  <2>2. SameThere(x, y)
    BY <2>1 DEF SameThere, Stays
  <2>3. Sound(y)
    BY <2>1, SoundAt, SoundBy
  <2>4. QED
    BY <2>2, <2>3
<1>4. ASSUME NEW u \in Types
      PROVE  /\ x.sb[u].there => y.sb[u].there
             /\ y.sb[u].ends = x.sb[u].ends
             /\ Updating(x, u) => Updating(y, u)
             /\ Row(y, u) = Row(x, u)
             /\ x.pending[u] # <<>> => y.pending[u] # <<>> \/ AnyUpdating(y) \/ y.skipped
             /\ y.pending[u] # <<>> => x.pending[u] # <<>>
  <2>1. CASE u = t
    BY <1>0, <1>1, <1>a, <2>1 DEF Updating, AnyUpdating
  <2>2. CASE u # t
    BY <1>2, <2>2 DEF Updating
  <2>3. QED
    BY <2>1, <2>2
<1>5. Forward(x, y)
  <2>1. AnyUpdating(y)
    BY <1>a DEF AnyUpdating, Updating
  <2>2. Known(x) => Known(y)
    BY <1>3 DEF Known, SameThere
  <2>3. QED
    BY <1>0, <1>4, <2>1, <2>2 DEF Forward, Stays
<1>6. StillBehind(x, y)
  <2>1. ASSUME NEW u \in Types PROVE y.sb[u].range = x.sb[u].range /\ y.ranges[u] = x.ranges[u]
    BY <1>0, <1>a, <1>b
  <2>2. QED
    BY <2>1 DEF StillBehind, Behind
<1>7. QED
  BY <1>3, <1>5, <1>6

\* An append to a buffer with nothing to be removed from it first.
LEMMA AppendsCleared ==
  ASSUME NEW x \in Controllers, NEW y \in Controllers, NEW t \in Types,
         Appends(x, y, t), x.ranges[t] = <<>>
  PROVE  StillCleared(x, y)
<1>0. /\ x.sb[t].there /\ x.sb[t].op = "idle" /\ x.pending[t] # <<>> /\ y.ranges = x.ranges
  BY DEF Appends
<1>a. /\ y.sb[t].there = x.sb[t].there /\ y.sb[t].ends = x.sb[t].ends /\ y.sb[t].op = "append"
      /\ y.sb[t].inited = x.sb[t].inited /\ y.sb[t].range = x.sb[t].range
      /\ y.sb[t].buffered = x.sb[t].buffered /\ y.sb[t].seg = Head(x.pending[t])
      /\ y.pending[t] = Tail(x.pending[t])
      /\ y.appended[t] = Append(x.appended[t], Head(x.pending[t]))
  BY AppendsBuffers
<1>b. \A u \in Types \ {t} :
        y.sb[u] = x.sb[u] /\ y.pending[u] = x.pending[u] /\ y.appended[u] = x.appended[u]
  BY AppendsBuffers
<1> DEFINE seg == Head(x.pending[t])
<1>1. /\ x.pending[t] \in Seq(Segments) /\ x.appended[t] \in Seq(Segments)
      /\ seg \in Segments
  BY <1>0, Fields, Popped
<1>2. ASSUME NEW l \in Nat, Cleared(x, t, l) PROVE Cleared(y, t, l)
  <2>1. /\ \A i \in DOMAIN x.pending[t] : x.pending[t][i].load = l
        /\ \A i \in DOMAIN x.appended[t] : x.appended[t][i].load = l
        /\ MediaOf(Range(x.appended[t])) = x.sb[t].buffered
    BY <1>0, <1>2 DEF Cleared, ClearedBuffer
  <2>2. seg.load = l /\ \A i \in DOMAIN y.pending[t] : y.pending[t][i].load = l
    <3>1. /\ Head(x.pending[t]) = x.pending[t][1] /\ 1 \in DOMAIN x.pending[t]
          /\ \A i \in DOMAIN Tail(x.pending[t]) :
               i + 1 \in DOMAIN x.pending[t] /\ Tail(x.pending[t])[i] = x.pending[t][i + 1]
      BY <1>0, <1>1, Popped
    <3>2. QED
      BY <1>a, <2>1, <3>1
  <2>3. /\ \A i \in DOMAIN y.appended[t] : y.appended[t][i].load = l
        /\ Range(y.appended[t]) = Range(x.appended[t]) \cup {seg}
    <3>1. /\ Range(Append(x.appended[t], seg)) = Range(x.appended[t]) \cup {seg}
          /\ \A i \in DOMAIN x.appended[t] : Append(x.appended[t], seg)[i] = x.appended[t][i]
          /\ \A i \in DOMAIN Append(x.appended[t], seg) :
               i \in DOMAIN x.appended[t] \/ Append(x.appended[t], seg)[i] = seg
      BY <1>1, Pushed
    <3> HIDE DEF seg
    <3>2. y.appended[t] = Append(x.appended[t], seg)
      BY <1>a DEF seg
    <3>3. QED
      BY <2>1, <2>2, <3>1, <3>2
  <2>4. MediaOf(Range(y.appended[t])) = y.sb[t].buffered \cup MediaOf({y.sb[t].seg})
    BY <1>a, <2>1, <2>3 DEF MediaOf
  <2>5. y.sb[t].op = "append" /\ y.ranges[t] = <<>> /\ y.sb[t].seg = seg
    BY <1>0, <1>a
  <2> HIDE DEF seg
  <2>6. QED
    BY <2>2, <2>3, <2>4, <2>5 DEF Cleared, ClearedBuffer
<1>3. ASSUME NEW u \in Types \ {t}, NEW l \in Nat, Cleared(x, u, l) PROVE Cleared(y, u, l)
  <2>1. y.sb[u] = x.sb[u] /\ y.pending[u] = x.pending[u] /\ y.appended[u] = x.appended[u]
        /\ y.ranges[u] = x.ranges[u]
    BY <1>0, <1>b
  <2>2. QED
    BY <1>3, <2>1 DEF Cleared
<1>4. QED
  BY <1>2, <1>3 DEF StillCleared

\* The queues of a type whose empty segment is skipped, and the others.
LEMMA SkipsQueues ==
  ASSUME NEW x \in Controllers, NEW y \in Controllers, NEW t \in Types, Skips(x, y, t)
  PROVE  /\ y.pending[t] = Tail(x.pending[t])
         /\ y.appended[t] = Append(x.appended[t], Head(x.pending[t]))
         /\ \A u \in Types \ {t} : y.pending[u] = x.pending[u] /\ y.appended[u] = x.appended[u]
<1>1. x.pending \in [Types -> Seq(Segments)] /\ x.appended \in [Types -> Seq(Segments)]
  BY Fields
<1>2. QED
  BY <1>1 DEF Skips

\* Skipping an empty segment goes forward.
LEMMA SkipsForward ==
  ASSUME NEW x \in Controllers, NEW y \in Controllers, NEW t \in Types,
         Sound(x), Stays(x, y), Skips(x, y, t)
  PROVE  Sound(y) /\ Forward(x, y) /\ SameThere(x, y) /\ StillBehind(x, y)
<1>0. /\ x.sb[t].there /\ x.pending[t] # <<>> /\ y.sb = x.sb
      /\ y.ranges = x.ranges /\ y.refused = x.refused /\ (y.skipped \/ AnyUpdating(x))
  BY Zenon DEF Skips
<1>a. /\ y.pending[t] = Tail(x.pending[t])
      /\ y.appended[t] = Append(x.appended[t], Head(x.pending[t]))
      /\ \A u \in Types \ {t} : y.pending[u] = x.pending[u] /\ y.appended[u] = x.appended[u]
  BY SkipsQueues
<1>c. x.pending[t] \in Seq(Segments) /\ x.appended[t] \in Seq(Segments)
  BY Fields
<1>u. /\ AnyUpdating(y) <=> AnyUpdating(x)
      /\ \A u \in Types : Updating(y, u) <=> Updating(x, u)
  BY <1>0 DEF AnyUpdating, Updating
<1>1. Row(y, t) = Row(x, t)
  <2>1. Append(x.appended[t], Head(x.pending[t])) \o Tail(x.pending[t]) = x.appended[t] \o x.pending[t]
    BY <1>0, <1>c, HeadMoves
  <2>2. QED
    BY <1>a, <2>1, Zenon DEF Row
<1>2. ASSUME NEW u \in Types
      PROVE  /\ Row(y, u) = Row(x, u)
             /\ y.pending[u] # <<>> => x.pending[u] # <<>>
             /\ y.appended[u] # <<>> => x.appended[u] # <<>> \/ x.sb[u].there
  <2>1. CASE u = t
    BY <1>0, <1>1, <2>1
  <2>2. CASE u # t
    BY <1>a, <2>2 DEF Row
  <2>3. QED
    BY <2>1, <2>2
<1>3. Sound(y) /\ SameThere(x, y)
  BY <1>0, <1>2 DEF Sound, SameThere, Stays
<1>4. Known(x) => Known(y)
  BY <1>3 DEF Known, SameThere
<1>5. y.skipped \/ AnyUpdating(y)
  BY <1>0, <1>u
<1>6. Forward(x, y)
  BY <1>0, <1>2, <1>4, <1>5, <1>u DEF Forward, Stays
<1>7. StillBehind(x, y)
  BY <1>0 DEF StillBehind, Behind
<1>8. QED
  BY <1>3, <1>6, <1>7

\* An empty segment is no media.
LEMMA SkipsCleared ==
  ASSUME NEW x \in Controllers, NEW y \in Controllers, NEW t \in Types, Skips(x, y, t)
  PROVE  StillCleared(x, y)
<1> DEFINE seg == Head(x.pending[t])
<1>0. /\ x.pending[t] # <<>> /\ y.sb = x.sb /\ y.ranges = x.ranges /\ seg.n = Init0
  BY Zenon DEF Skips, Empty
<1>a. /\ y.pending[t] = Tail(x.pending[t])
      /\ y.appended[t] = Append(x.appended[t], Head(x.pending[t]))
      /\ \A u \in Types \ {t} : y.pending[u] = x.pending[u] /\ y.appended[u] = x.appended[u]
  BY SkipsQueues
<1>1. /\ x.pending[t] \in Seq(Segments) /\ x.appended[t] \in Seq(Segments)
      /\ seg \in Segments
  BY <1>0, Fields, Popped
<1>2. ASSUME NEW l \in Nat, Cleared(x, t, l) PROVE Cleared(y, t, l)
  <2> DEFINE b == x.sb[t]
             r == x.ranges[t]
             p == x.pending[t]
             a == x.appended[t]
             q == y.pending[t]
             c == y.appended[t]
  <2>1. ClearedBuffer(b, p, a, r, l)
    BY <1>2 DEF Cleared
  <2>2. seg.load = l /\ \A i \in DOMAIN q : q[i].load = l
    <3>0. \A i \in DOMAIN p : p[i].load = l
      BY <2>1 DEF ClearedBuffer
    <3>1. /\ seg = p[1] /\ 1 \in DOMAIN p
          /\ \A i \in DOMAIN Tail(p) : i + 1 \in DOMAIN p /\ Tail(p)[i] = p[i + 1]
      BY <1>0, <1>1, Popped
    <3>2. QED
      BY <1>a, <3>0, <3>1
  <2>3. /\ \A i \in DOMAIN c : c[i].load = l
        /\ MediaOf(Range(c)) = MediaOf(Range(a))
    <3>0. \A i \in DOMAIN a : a[i].load = l
      BY <2>1 DEF ClearedBuffer
    <3>1. /\ Range(Append(a, seg)) = Range(a) \cup {seg}
          /\ \A i \in DOMAIN a : Append(a, seg)[i] = a[i]
          /\ \A i \in DOMAIN Append(a, seg) : i \in DOMAIN a \/ Append(a, seg)[i] = seg
      BY <1>1, Pushed
    <3>2. c = Append(a, seg)
      BY <1>a
    <3> HIDE DEF seg, c, a
    <3>3. QED
      BY <1>0, <2>2, <3>0, <3>1, <3>2 DEF MediaOf
  <2> HIDE DEF b, r, p, a, q, c
  <2>4. ClearedBuffer(b, q, c, r, l)
    BY <2>1, <2>2, <2>3 DEF ClearedBuffer
  <2>5. QED
    BY <1>0, <2>4 DEF Cleared, b, r, q, c
<1>3. ASSUME NEW u \in Types \ {t}, NEW l \in Nat, Cleared(x, u, l) PROVE Cleared(y, u, l)
  BY <1>0, <1>a, <1>3 DEF Cleared
<1>4. QED
  BY <1>2, <1>3 DEF StillCleared

\* A removal goes forward, and keeps the buffers cleared.
LEMMA RemovesForward ==
  ASSUME NEW x \in Controllers, NEW y \in Controllers, NEW t \in Types,
         Sound(x), Stays(x, y), Removes(x, y, t)
  PROVE  Sound(y) /\ Forward(x, y) /\ SameThere(x, y) /\ StillBehind(x, y) /\ StillCleared(x, y)
<1>0. /\ x.sb[t].there /\ x.sb[t].op = "idle" /\ x.ranges[t] # <<>>
      /\ y.pending = x.pending /\ y.appended = x.appended /\ y.refused = x.refused
  BY DEF Removes
<1>1. x.ranges[t] \in Seq(SUBSET Nat)
  BY Fields
<1>2. ASSUME NEW u \in Types \ {t} PROVE y.sb[u] = x.sb[u] /\ y.ranges[u] = x.ranges[u]
  BY RemovesBuffers
<1>a. /\ y.sb[t].op = "remove" /\ y.sb[t].range = Head(x.ranges[t])
      /\ y.sb[t].there = x.sb[t].there /\ y.sb[t].ends = x.sb[t].ends
      /\ y.sb[t].inited = x.sb[t].inited /\ y.sb[t].buffered = x.sb[t].buffered
      /\ y.ranges[t] = Tail(x.ranges[t])
  BY RemovesBuffers
<1>3. Sound(y) /\ SameThere(x, y)
  <2>1. ASSUME NEW u \in Types
        PROVE  /\ y.sb[u].there = x.sb[u].there /\ y.sb[u].inited = x.sb[u].inited
               /\ y.ranges[u] # <<>> => x.ranges[u] # <<>>
               /\ y.sb[u].ends = x.sb[u].ends
               /\ y.sb[u].buffered = x.sb[u].buffered /\ y.appended[u] = x.appended[u]
               /\ y.sb[u].op # "idle" => x.sb[u].op # "idle" \/ x.sb[u].there
    BY <1>0, <1>2, <1>a
  <2>2. SameThere(x, y)
    BY <2>1 DEF SameThere, Stays
  <2>3. Sound(y)
    BY <2>1, SoundAt, SoundBy
  <2>4. QED
    BY <2>2, <2>3
<1>4. ASSUME NEW u \in Types
      PROVE  /\ x.sb[u].there => y.sb[u].there
             /\ y.sb[u].ends = x.sb[u].ends
             /\ Updating(x, u) => Updating(y, u)
  <2>1. CASE u = t
    BY <1>0, <2>1, <1>a DEF Updating
  <2>2. CASE u # t
    BY <1>2, <2>2 DEF Updating
  <2>3. QED
    BY <2>1, <2>2
<1>5. Forward(x, y)
  <2>1. AnyUpdating(y)
    BY <1>a DEF AnyUpdating, Updating
  <2>2. Known(x) => Known(y)
    BY <1>3 DEF Known, SameThere
  <2>3. QED
    BY <1>0, <1>4, <2>1, <2>2 DEF Forward, Stays, Row
<1>6. \A i \in DOMAIN Tail(x.ranges[t]) : i + 1 \in DOMAIN x.ranges[t] /\ Tail(x.ranges[t])[i] = x.ranges[t][i + 1]
  BY <1>0, <1>1, Popped
<1>7. Head(x.ranges[t]) = x.ranges[t][1] /\ 1 \in DOMAIN x.ranges[t]
  BY <1>0, <1>1, Popped
<1>8. StillBehind(x, y)
  <2>1. ASSUME Behind(x, t) PROVE Behind(y, t)
    BY <1>6, <1>7, <2>1, <1>a DEF Behind
  <2>2. ASSUME NEW u \in Types \ {t}, Behind(x, u) PROVE Behind(y, u)
    BY <1>2, <2>2 DEF Behind
  <2>3. QED
    BY <2>1, <2>2 DEF StillBehind
<1>9. ASSUME NEW l \in Nat, Cleared(x, t, l) PROVE Cleared(y, t, l)
  <2>1. y.sb[t].op = "remove" /\ y.pending[t] = x.pending[t]
        /\ y.appended[t] = x.appended[t] /\ y.sb[t].buffered = x.sb[t].buffered
        /\ y.sb[t].range = x.ranges[t][1] /\ y.ranges[t] = Tail(x.ranges[t])
    BY <1>0, <1>7, <1>a
  <2>2. ASSUME NEW s \in y.sb[t].buffered
        PROVE  s.n \in y.sb[t].range \/ \E i \in DOMAIN y.ranges[t] : s.n \in y.ranges[t][i]
    <3>1. PICK i \in DOMAIN x.ranges[t] : s.n \in x.ranges[t][i]
      BY <1>0, <1>9, <2>1 DEF Cleared, ClearedBuffer
    <3>2. i # 1 => i - 1 \in DOMAIN y.ranges[t] /\ y.ranges[t][i - 1] = x.ranges[t][i]
      BY <1>0, <1>1, <2>1, Popped
    <3>3. QED
      BY <2>1, <3>1, <3>2
  <2>3. QED
    <3>1. /\ \A i \in DOMAIN y.pending[t] : y.pending[t][i].load = l
          /\ \A i \in DOMAIN y.appended[t] : y.appended[t][i].load = l
          /\ MediaOf(Range(y.appended[t])) = {}
      BY <1>0, <1>9, <2>1 DEF Cleared, ClearedBuffer
    <3>2. QED
      BY <2>1, <2>2, <3>1, Zenon DEF Cleared, ClearedBuffer
<1>10. ASSUME NEW u \in Types \ {t}, NEW l \in Nat, Cleared(x, u, l) PROVE Cleared(y, u, l)
  BY <1>0, <1>2, <1>10 DEF Cleared
<1>11. QED
  BY <1>3, <1>5, <1>8, <1>9, <1>10 DEF StillCleared

-----------------------------------------------------------------------------
(* The loops over the buffers. *)

\* An append is under way, or the first segment that waited was empty.
Given(x, y, t) ==
  Updating(y, t) \/ (Empty(t, Head(x.pending[t])) /\ (AnyUpdating(y) \/ y.skipped))

\* What AppendOf does for one type.
LEMMA AppendOfForward ==
  ASSUME NEW x, NEW t \in Types, NEW out \in {"ok", "quota", "error"}, Sound(x)
  PROVE  LET y == AppendOf(x, t, out)
         IN  /\ Sound(y) /\ Forward(x, y) /\ SameThere(x, y) /\ StillBehind(x, y)
             /\ y.ranges = x.ranges
             /\ Ready(x) => Ready(y) /\ StillCleared(x, y)
             /\ ~y.refused /\ x.sb[t].there /\ x.pending[t] # <<>> => Given(x, y, t)
             /\ \A u \in Types \ {t} : y.pending[u] = x.pending[u]
<1> DEFINE y == AppendOf(x, t, out)
<1>0. SUFFICES /\ Sound(y) /\ Forward(x, y) /\ SameThere(x, y) /\ StillBehind(x, y)
               /\ y.ranges = x.ranges
               /\ Ready(x) => Ready(y) /\ StillCleared(x, y)
               /\ ~y.refused /\ x.sb[t].there /\ x.pending[t] # <<>> => Given(x, y, t)
               /\ \A u \in Types \ {t} : y.pending[u] = x.pending[u]
  OBVIOUS
<1>1. x \in Controllers
  BY DEF Sound
<1>2. /\ y \in Controllers /\ Stays(x, y)
      /\ \/ Appends(x, y, t) \/ Skips(x, y, t)
         \/ Rests(x, y) /\ y.refused
         \/ /\ Rests(x, y) /\ y.refused = x.refused
            /\ ~x.sb[t].there \/ Updating(x, t) \/ x.pending[t] = <<>>
  BY <1>1, AppendOfStep
<1> HIDE DEF y
<1>3. CASE Appends(x, y, t)
  <2>1. Sound(y) /\ Forward(x, y) /\ SameThere(x, y) /\ StillBehind(x, y)
    BY <1>1, <1>2, <1>3, AppendsForward
  <2>2. y.ranges = x.ranges /\ x.sb[t].op = "idle"
    BY <1>3 DEF Appends
  <2>3. /\ y.sb[t].op = "append"
        /\ \A u \in Types \ {t} : y.sb[u] = x.sb[u] /\ y.pending[u] = x.pending[u]
    BY <1>1, <1>2, <1>3, AppendsBuffers
  <2>4. ASSUME Ready(x) PROVE Ready(y) /\ StillCleared(x, y)
    <3>1. x.ranges[t] = <<>>
      BY <2>2, <2>4 DEF Ready
    <3>2. StillCleared(x, y)
      BY <1>1, <1>2, <1>3, <3>1, AppendsCleared
    <3>3. Ready(y)
      BY <2>2, <2>3, <2>4 DEF Ready
    <3>4. QED
      BY <3>2, <3>3
  <2>5. Given(x, y, t)
    BY <2>3 DEF Given, Updating
  <2>6. QED
    BY <2>1, <2>2, <2>3, <2>4, <2>5
<1>s. CASE Skips(x, y, t)
  <2>1. Sound(y) /\ Forward(x, y) /\ SameThere(x, y) /\ StillBehind(x, y) /\ StillCleared(x, y)
    BY <1>1, <1>2, <1>s, SkipsForward, SkipsCleared
  <2>2. y.ranges = x.ranges /\ y.sb = x.sb
    BY <1>s DEF Skips
  <2>3. Ready(x) => Ready(y)
    BY <2>2 DEF Ready
  <2>4. \A u \in Types \ {t} : y.pending[u] = x.pending[u]
    BY <1>1, <1>2, <1>s, SkipsQueues
  <2>5. Given(x, y, t)
    <3>1. AnyUpdating(y) <=> AnyUpdating(x)
      BY <2>2 DEF AnyUpdating, Updating
    <3>2. Empty(t, Head(x.pending[t])) /\ (y.skipped \/ AnyUpdating(x))
      BY <1>s, Zenon DEF Skips
    <3>3. QED
      BY <3>1, <3>2 DEF Given
  <2>6. QED
    BY <2>1, <2>2, <2>3, <2>4, <2>5
<1>4. CASE Rests(x, y) /\ (x.refused => y.refused)
  <2>1. /\ Sound(y) /\ Forward(x, y) /\ SameThere(x, y)
        /\ StillBehind(x, y) /\ StillCleared(x, y) /\ (Ready(x) => Ready(y))
    BY <1>2, <1>4, RestsForward
  <2>2. y.ranges = x.ranges
    BY <1>4 DEF Rests
  <2>3. CASE \/ Rests(x, y) /\ y.refused
             \/ /\ Rests(x, y) /\ y.refused = x.refused
                /\ ~x.sb[t].there \/ Updating(x, t) \/ x.pending[t] = <<>>
    <3>1. ~y.refused /\ x.sb[t].there /\ x.pending[t] # <<>> => Given(x, y, t)
      BY <2>3 DEF Updating, Rests, Given
    <3>2. \A u \in Types \ {t} : y.pending[u] = x.pending[u]
      BY <1>4 DEF Rests
    <3>3. QED
      BY <2>1, <2>2, <3>1, <3>2
  <2>4. QED
    BY <1>2, <1>3, <1>s, <2>3
<1>5. QED
  BY <1>2, <1>3, <1>s, <1>4

\* What DoAppendSegments does.
LEMMA AppendsAll ==
  ASSUME NEW x, NEW o \in Outcomes, Sound(x)
  PROVE  LET y == DoAppendSegments(x, o)
         IN  /\ Sound(y) /\ Forward(x, y) /\ SameThere(x, y) /\ StillBehind(x, y)
             /\ y.ranges = x.ranges
             /\ Ready(x) => Ready(y) /\ StillCleared(x, y)
             /\ \A t \in Types : ~y.refused /\ x.sb[t].there /\ x.pending[t] # <<>> => Given(x, y, t)
<1> DEFINE y1 == AppendOf(x, "video", o["video"])
           y == AppendOf(y1, "audio", o["audio"])
<1>0. o["video"] \in {"ok", "quota", "error"} /\ o["audio"] \in {"ok", "quota", "error"}
      /\ "video" \in Types /\ "audio" \in Types /\ \A t \in Types : t = "video" \/ t = "audio"
  BY DEF Outcomes, Types
<1>1. /\ Sound(y1) /\ Forward(x, y1) /\ SameThere(x, y1) /\ StillBehind(x, y1)
      /\ y1.ranges = x.ranges
      /\ Ready(x) => Ready(y1) /\ StillCleared(x, y1)
      /\ ~y1.refused /\ x.sb["video"].there /\ x.pending["video"] # <<>> => Given(x, y1, "video")
      /\ y1.pending["audio"] = x.pending["audio"]
  <2>1. "audio" \in Types \ {"video"}
    BY <1>0
  <2>2. QED
    BY <1>0, <2>1, AppendOfForward
<1> HIDE DEF y1
<1>2. /\ Sound(y) /\ Forward(y1, y) /\ SameThere(y1, y) /\ StillBehind(y1, y)
      /\ y.ranges = y1.ranges
      /\ Ready(y1) => Ready(y) /\ StillCleared(y1, y)
      /\ ~y.refused /\ y1.sb["audio"].there /\ y1.pending["audio"] # <<>> => Given(y1, y, "audio")
  BY <1>0, <1>1, AppendOfForward
<1> HIDE DEF y
<1>3. Forward(x, y)
  BY <1>1, <1>2, ForwardTrans
<1>4. SameThere(x, y) /\ StillBehind(x, y) /\ (Ready(x) => StillCleared(x, y))
  BY <1>1, <1>2, Zenon DEF SameThere, StillBehind, StillCleared
<1>5. ASSUME NEW t \in Types, ~y.refused, x.sb[t].there, x.pending[t] # <<>> PROVE Given(x, y, t)
  <2>0. /\ ~y1.refused /\ y1.sb[t].there /\ (Updating(y1, t) => Updating(y, t))
        /\ (AnyUpdating(y1) => AnyUpdating(y)) /\ (y1.skipped => y.skipped \/ AnyUpdating(y))
    BY <1>1, <1>2, <1>5, Zenon DEF Forward, AnyUpdating
  <2>1. CASE t = "video"
    BY <1>1, <1>5, <2>0, <2>1 DEF Given
  <2>2. CASE t = "audio"
    BY <1>1, <1>2, <1>5, <2>0, <2>2 DEF Given
  <2>3. QED
    BY <1>0, <2>1, <2>2
<1>6. DoAppendSegments(x, o) = y
  BY DEF DoAppendSegments, y, y1
<1>7. QED
  BY <1>1, <1>2, <1>3, <1>4, <1>5, <1>6

\* What RemoveOf does for one type.
LEMMA RemoveOfForward ==
  ASSUME NEW x, NEW t \in Types, Sound(x)
  PROVE  LET y == RemoveOf(x, t)
         IN  /\ Sound(y) /\ Forward(x, y) /\ SameThere(x, y)
             /\ StillBehind(x, y) /\ StillCleared(x, y)
             /\ y.pending = x.pending /\ y.appended = x.appended /\ y.refused = x.refused
             /\ x.sb[t].there => Updating(y, t) \/ y.ranges[t] = <<>>
             /\ x.ranges[t] # <<>> => Updating(y, t)
             /\ x.ranges[t] = <<>> => y.ranges[t] = <<>>
             /\ \A u \in Types \ {t} : y.ranges[u] = x.ranges[u]
<1> DEFINE y == RemoveOf(x, t)
<1>0. SUFFICES
             /\ Sound(y) /\ Forward(x, y) /\ SameThere(x, y)
             /\ StillBehind(x, y) /\ StillCleared(x, y)
             /\ y.pending = x.pending /\ y.appended = x.appended /\ y.refused = x.refused
             /\ x.sb[t].there => Updating(y, t) \/ y.ranges[t] = <<>>
             /\ x.ranges[t] # <<>> => Updating(y, t)
             /\ x.ranges[t] = <<>> => y.ranges[t] = <<>>
             /\ \A u \in Types \ {t} : y.ranges[u] = x.ranges[u]
  OBVIOUS
<1>1. x \in Controllers
  BY DEF Sound
<1>2. /\ y \in Controllers /\ Stays(x, y)
      /\ \/ Removes(x, y, t)
         \/ y = x /\ (~x.sb[t].there \/ Updating(x, t) \/ x.ranges[t] = <<>>)
  BY <1>1, RemoveOfStep
<1> HIDE DEF y
<1>3. CASE Removes(x, y, t)
  <2>1. Sound(y) /\ Forward(x, y) /\ SameThere(x, y) /\ StillBehind(x, y) /\ StillCleared(x, y)
    BY <1>1, <1>2, <1>3, RemovesForward
  <2>2. y.sb[t].op = "remove" /\ \A u \in Types \ {t} : y.ranges[u] = x.ranges[u]
    BY <1>1, <1>2, <1>3, RemovesBuffers
  <2>3. /\ y.pending = x.pending /\ y.appended = x.appended /\ y.refused = x.refused
        /\ x.ranges[t] # <<>>
    BY <1>3 DEF Removes
  <2>4. Updating(y, t)
    BY <2>2 DEF Updating
  <2>5. QED
    BY <2>1, <2>2, <2>3, <2>4
<1>4. CASE y = x /\ (~x.sb[t].there \/ Updating(x, t) \/ x.ranges[t] = <<>>)
  <2>1. x.ranges[t] # <<>> => x.sb[t].there
    BY SoundAt
  <2>2. QED
    BY <1>4, <2>1, ForwardRefl
<1>5. QED
  BY <1>2, <1>3, <1>4

\* What DoRemoveRanges does.
LEMMA RemovesAll ==
  ASSUME NEW x, Sound(x)
  PROVE  LET y == DoRemoveRanges(x)
         IN  /\ Sound(y) /\ Forward(x, y) /\ SameThere(x, y)
             /\ StillBehind(x, y) /\ StillCleared(x, y)
             /\ y.pending = x.pending /\ y.appended = x.appended /\ y.refused = x.refused
             /\ \A t \in Types : /\ x.sb[t].there => Updating(y, t) \/ y.ranges[t] = <<>>
                                 /\ x.ranges[t] # <<>> => Updating(y, t)
                                 /\ x.ranges[t] = <<>> => y.ranges[t] = <<>>
<1> DEFINE y1 == RemoveOf(x, "video")
           y == RemoveOf(y1, "audio")
<1>0. "video" \in Types /\ "audio" \in Types /\ \A t \in Types : t = "video" \/ t = "audio"
  BY DEF Types
<1>1. /\ Sound(y1) /\ Forward(x, y1) /\ SameThere(x, y1)
      /\ StillBehind(x, y1) /\ StillCleared(x, y1)
      /\ y1.pending = x.pending /\ y1.appended = x.appended /\ y1.refused = x.refused
      /\ x.sb["video"].there => Updating(y1, "video") \/ y1.ranges["video"] = <<>>
      /\ x.ranges["video"] # <<>> => Updating(y1, "video")
      /\ x.ranges["video"] = <<>> => y1.ranges["video"] = <<>>
      /\ y1.ranges["audio"] = x.ranges["audio"]
  <2>1. "audio" \in Types \ {"video"}
    BY <1>0
  <2>2. QED
    BY <1>0, <2>1, RemoveOfForward
<1> HIDE DEF y1
<1>2. /\ Sound(y) /\ Forward(y1, y) /\ SameThere(y1, y)
      /\ StillBehind(y1, y) /\ StillCleared(y1, y)
      /\ y.pending = y1.pending /\ y.appended = y1.appended /\ y.refused = y1.refused
      /\ y1.sb["audio"].there => Updating(y, "audio") \/ y.ranges["audio"] = <<>>
      /\ y1.ranges["audio"] # <<>> => Updating(y, "audio")
      /\ y1.ranges["audio"] = <<>> => y.ranges["audio"] = <<>>
      /\ y.ranges["video"] = y1.ranges["video"]
  <2>1. "video" \in Types \ {"audio"}
    BY <1>0
  <2>2. QED
    BY <1>0, <1>1, <2>1, RemoveOfForward
<1> HIDE DEF y
<1>3. Forward(x, y)
  BY <1>1, <1>2, ForwardTrans
<1>4. SameThere(x, y) /\ StillBehind(x, y) /\ StillCleared(x, y)
  BY <1>1, <1>2, Zenon DEF SameThere, StillBehind, StillCleared
<1>5. Updating(y1, "video") => Updating(y, "video")
  BY <1>0, <1>2 DEF Forward
<1>6. x.sb["audio"].there => y1.sb["audio"].there
  BY <1>0, <1>1 DEF SameThere
<1>7. DoRemoveRanges(x) = y
  BY DEF DoRemoveRanges, y, y1
<1>8. ASSUME NEW t \in Types
      PROVE  /\ x.sb[t].there => Updating(y, t) \/ y.ranges[t] = <<>>
             /\ x.ranges[t] # <<>> => Updating(y, t)
             /\ x.ranges[t] = <<>> => y.ranges[t] = <<>>
  <2>1. CASE t = "video"
    BY <1>1, <1>2, <1>5, <2>1
  <2>2. CASE t = "audio"
    BY <1>1, <1>2, <1>6, <2>2
  <2>3. QED
    BY <1>0, <2>1, <2>2
<1>9. QED
  BY <1>1, <1>2, <1>3, <1>4, <1>7, <1>8

-----------------------------------------------------------------------------
(* Init segments, and what arrives. *)

\* Putting the duration right leaves queues and buffers alone.
LEMMA UpdatesDuration ==
  ASSUME NEW x, Sound(x)
  PROVE  LET y == UpdateDuration(x)
         IN  /\ Sound(y) /\ Forward(x, y) /\ SameThere(x, y) /\ StillBehind(x, y)
             /\ y.ranges = x.ranges /\ y.pending = x.pending /\ y.appended = x.appended
             /\ y.sb = x.sb /\ StillCleared(x, y)
             /\ Ready(x) => Ready(y)
<1> DEFINE d == [x EXCEPT !.duration = FALSE]
<1>1. x \in Controllers
  BY DEF Sound
<1>2. d \in Controllers /\ d.duration = FALSE /\ Rests(x, d) /\ d.inits = x.inits
      /\ d.lastInit = x.lastInit /\ d.eos = x.eos /\ d.early = x.early /\ d.refused = x.refused
      /\ d.unmade = x.unmade
  <2>1. d \in Controllers
    BY <1>1, Changed
  <2>2. QED
    BY <1>1, <2>1 DEF Controllers, Rests
<1> HIDE DEF d
<1>3. Sound(d) /\ Forward(x, d) /\ SameThere(x, d)
  BY <1>2 DEF Sound, Forward, SameThere, Rests, Row, Updating, Known, AnyUpdating
<1>4. StillBehind(x, d) /\ (Ready(x) => Ready(d)) /\ StillCleared(x, d)
  BY <1>2 DEF StillBehind, Behind, Rests, Ready, StillCleared, Cleared
<1>5. UpdateDuration(x) = d \/ UpdateDuration(x) = x
  BY DEF UpdateDuration, d
<1>6. QED
  BY <1>2, <1>3, <1>4, <1>5, ForwardRefl DEF Rests

\* The controller after an init segment of t has made its buffer.
Made(x, t) == [x EXCEPT !.lastInit[t] = TRUE, !.sb[t].there = TRUE]

\* Making a buffer goes forward.
LEMMA MadeForward ==
  ASSUME NEW x, NEW t \in Types, Sound(x)
  PROVE  LET y == Made(x, t)
         IN  /\ Sound(y) /\ Forward(x, y) /\ StillBehind(x, y) /\ StillCleared(x, y)
             /\ y.ranges = x.ranges /\ y.pending = x.pending /\ y.sb[t].there
             /\ y.unmade = x.unmade
             /\ Ready(x) => Ready(y)
<1>1. x \in Controllers
  BY DEF Sound
<1> DEFINE b == [x.sb[t] EXCEPT !.there = TRUE]
           a == [x EXCEPT !.lastInit = [x.lastInit EXCEPT ![t] = TRUE]]
           y == [a EXCEPT !.sb = [x.sb EXCEPT ![t] = b]]
<1>2. x.sb \in [Types -> Buffers] /\ x.sb[t] \in Buffers /\ x.lastInit \in [Types -> BOOLEAN]
  BY <1>1, Fields
<1>3. /\ b \in Buffers /\ b.there /\ b.op = x.sb[t].op /\ b.seg = x.sb[t].seg
      /\ b.range = x.sb[t].range /\ b.buffered = x.sb[t].buffered /\ b.ends = x.sb[t].ends
      /\ b.inited = x.sb[t].inited
  BY <1>2 DEF Buffers
<1> HIDE DEF b
<1>4. Made(x, t) = y
  BY <1>1 DEF Made, Controllers, b
<1>5. y \in Controllers
  <2>1. a \in Controllers
    BY <1>1, <1>2, Changed
  <2> HIDE DEF a
  <2>2. [x.sb EXCEPT ![t] = b] \in [Types -> Buffers]
    BY <1>2, <1>3
  <2>3. QED
    BY <2>1, <2>2, Changed
<1>6. /\ y.inits = x.inits /\ y.eos = x.eos /\ y.early = x.early /\ y.refused = x.refused
      /\ y.duration = x.duration /\ y.ranges = x.ranges /\ y.pending = x.pending
      /\ y.appended = x.appended /\ y.unmade = x.unmade /\ y.skipped = x.skipped
      /\ y.sb[t] = b /\ \A u \in Types \ {t} : y.sb[u] = x.sb[u]
      /\ \A u \in Types \ {t} : y.lastInit[u] = x.lastInit[u]
  BY <1>1, <1>2 DEF Controllers
<1> HIDE DEF y
<1>7. ASSUME NEW u \in Types
      PROVE  /\ y.sb[u].op = x.sb[u].op /\ y.sb[u].seg = x.sb[u].seg
             /\ y.sb[u].range = x.sb[u].range /\ y.sb[u].buffered = x.sb[u].buffered
             /\ y.sb[u].ends = x.sb[u].ends
             /\ y.sb[u].inited = x.sb[u].inited
             /\ x.sb[u].there => y.sb[u].there
  BY <1>3, <1>6
<1>8. Sound(y)
  <2>1. ASSUME NEW u \in Types, x.sb[u].there PROVE y.sb[u].there
    BY <1>7, <2>1
  <2>2. QED
    BY <1>5, <1>6, <1>7, <2>1, SoundAt, SoundBy
<1>9. Forward(x, y) /\ StillBehind(x, y) /\ (Ready(x) => Ready(y))
  <2>1. Known(x) => Known(y)
    <3>1. ASSUME Known(x), NEW u \in Types, y.lastInit[u] PROVE y.sb[u].there \/ u \in y.unmade
      <4>1. CASE u = t
        BY <1>3, <1>6, <4>1
      <4>2. CASE u # t
        BY <1>6, <3>1, <4>2 DEF Known
      <4>3. QED
        BY <4>1, <4>2
    <3>2. QED
      BY <3>1 DEF Known
  <2>2. AnyUpdating(x) <=> AnyUpdating(y)
    BY <1>7 DEF AnyUpdating, Updating
  <2>3. Forward(x, y)
    BY <1>6, <1>7, <2>1, <2>2 DEF Forward, Row, Updating
  <2>4. StillBehind(x, y) /\ (Ready(x) => Ready(y))
    BY <1>6, <1>7 DEF StillBehind, Behind, Ready
  <2>5. QED
    BY <2>3, <2>4
<1>10. StillCleared(x, y)
  <2>1. ASSUME NEW u \in Types, NEW l \in Nat, Cleared(x, u, l) PROVE Cleared(y, u, l)
    <3>1. ClearedBuffer(x.sb[u], x.pending[u], x.appended[u], x.ranges[u], l)
      BY <2>1 DEF Cleared
    <3>2. ClearedBuffer(y.sb[u], x.pending[u], x.appended[u], x.ranges[u], l)
      BY <1>7, <3>1 DEF ClearedBuffer
    <3>3. QED
      BY <1>6, <3>2 DEF Cleared
  <2>2. QED
    BY <2>1 DEF StillCleared
<1>11. QED
  BY <1>3, <1>4, <1>6, <1>8, <1>9, <1>10

\* The controller after the browser has not made the buffer of t.
Unmade(x, t) == [x EXCEPT !.lastInit[t] = TRUE, !.unmade = @ \cup {t}]

\* That goes forward as well; what waits for the buffer waits on.
LEMMA UnmadeForward ==
  ASSUME NEW x, NEW t \in Types, Sound(x)
  PROVE  LET y == Unmade(x, t)
         IN  /\ Sound(y) /\ Forward(x, y) /\ StillBehind(x, y) /\ StillCleared(x, y)
             /\ Rests(x, y) /\ y.inits = x.inits /\ y.eos = x.eos /\ y.early = x.early
             /\ y.duration = x.duration /\ y.refused = x.refused
             /\ y.unmade = x.unmade \cup {t}
             /\ Ready(x) => Ready(y)
<1>1. x \in Controllers
  BY DEF Sound
<1> DEFINE a == [x EXCEPT !.lastInit = [x.lastInit EXCEPT ![t] = TRUE]]
           y == [a EXCEPT !.unmade = x.unmade \cup {t}]
<1>2. x.lastInit \in [Types -> BOOLEAN] /\ x.unmade \subseteq Types
  BY <1>1, Fields
<1>3. Unmade(x, t) = y
  BY <1>1 DEF Unmade, Controllers
<1>4. y \in Controllers
  <2>1. a \in Controllers
    BY <1>1, <1>2, Changed
  <2> HIDE DEF a
  <2>2. QED
    BY <1>2, <2>1, Changed
<1>5. /\ Rests(x, y) /\ y.inits = x.inits /\ y.eos = x.eos /\ y.early = x.early
      /\ y.duration = x.duration /\ y.refused = x.refused
      /\ y.unmade = x.unmade \cup {t}
      /\ \A u \in Types \ {t} : y.lastInit[u] = x.lastInit[u]
  BY <1>1, <1>2 DEF Controllers, Rests
<1> HIDE DEF y
<1>6. Known(x) => Known(y)
  BY <1>5, Zenon DEF Known, Rests
<1>7. Sound(y)
  BY <1>4, <1>5, Zenon DEF Sound, Rests
<1>8. Forward(x, y)
  BY <1>5, <1>6 DEF Forward, Rests, Row, Updating, AnyUpdating
<1>9. StillBehind(x, y) /\ StillCleared(x, y) /\ (Ready(x) => Ready(y))
  BY <1>5 DEF StillBehind, Behind, StillCleared, Cleared, Ready, Rests
<1>10. QED
  BY <1>3, <1>5, <1>7, <1>8, <1>9

\* An init segment that waits already, when the source is open.
LEMMA InitOpened ==
  ASSUME NEW x, NEW t \in Types, NEW fails \in BOOLEAN, NEW o \in Outcomes, Sound(x)
  PROVE  LET y == InitOnOpen(x, t, TRUE, fails, o)
         IN  /\ Sound(y) /\ Forward(x, y) /\ StillBehind(x, y)
             /\ y.ranges = x.ranges /\ (y.sb[t].there \/ t \in y.unmade)
             /\ Ready(x) => Ready(y) /\ StillCleared(x, y)
<1>f. CASE ~x.sb[t].there /\ fails
  <2>1. InitOnOpen(x, t, TRUE, fails, o) = Unmade(x, t)
    <3>1. InitOnOpen(x, t, TRUE, fails, o)
            = [[x EXCEPT !.lastInit[t] = TRUE] EXCEPT !.unmade = @ \cup {t}]
      BY <1>f, Zenon DEF InitOnOpen
    <3>2. QED
      BY <3>1 DEF Unmade
  <2> DEFINE z == Unmade(x, t)
  <2>2. /\ Sound(z) /\ Forward(x, z) /\ StillBehind(x, z) /\ StillCleared(x, z)
        /\ Rests(x, z) /\ z.unmade = x.unmade \cup {t} /\ (Ready(x) => Ready(z))
    BY UnmadeForward
  <2>3. z.ranges = x.ranges /\ t \in z.unmade
    BY <2>2 DEF Rests
  <2> HIDE DEF z
  <2>4. QED
    BY <2>1, <2>2, <2>3 DEF z
<1>g. SUFFICES ASSUME ~(~x.sb[t].there /\ fails)
               PROVE  LET y == InitOnOpen(x, t, TRUE, fails, o)
                      IN  /\ Sound(y) /\ Forward(x, y) /\ StillBehind(x, y)
                          /\ y.ranges = x.ranges /\ y.sb[t].there
                          /\ Ready(x) => Ready(y) /\ StillCleared(x, y)
  BY <1>f
<1> DEFINE a == Made(x, t)
           b == IF x.sb[t].there /\ ~Updating(a, t) THEN DoAppendSegments(a, o) ELSE a
           c == [b EXCEPT !.duration = TRUE]
           d == UpdateDuration(c)
           Goal(y) == /\ Sound(y) /\ Forward(x, y) /\ StillBehind(x, y)
                      /\ y.ranges = x.ranges /\ y.sb[t].there
                      /\ Ready(x) => Ready(y) /\ StillCleared(x, y)
<1>1. InitOnOpen(x, t, TRUE, fails, o) = IF Mends /\ t = "audio" THEN d ELSE b
  <2>1. a = [x EXCEPT !.lastInit[t] = TRUE, !.sb[t].there = TRUE, !.pending[t] = @]
    <3>1. x \in Controllers
      BY DEF Sound
    <3>2. QED
      BY <3>1 DEF Made, Controllers
  <2>2. QED
    BY <1>g, <2>1 DEF InitOnOpen, Mends
<1>2. Goal(a)
  BY MadeForward
<1> HIDE DEF a
<1>3. Goal(b)
  <2>1. CASE x.sb[t].there /\ ~Updating(a, t)
    <3> DEFINE e == DoAppendSegments(a, o)
    <3>1. /\ Sound(e) /\ Forward(a, e) /\ StillBehind(a, e) /\ e.ranges = a.ranges
          /\ Ready(a) => Ready(e) /\ StillCleared(a, e)
      BY <1>2, AppendsAll
    <3> HIDE DEF e
    <3>2. Forward(x, e)
      BY <1>2, <3>1, ForwardTrans
    <3>3. StillBehind(x, e) /\ e.ranges = x.ranges
      BY <1>2, <3>1 DEF StillBehind
    <3>4. Ready(x) => Ready(e) /\ StillCleared(x, e)
      BY <1>2, <3>1 DEF StillCleared
    <3>5. e.sb[t].there
      BY <1>2, <3>1 DEF Forward
    <3>6. b = e
      BY <2>1 DEF e
    <3> HIDE DEF b
    <3>7. QED
      BY <3>1, <3>2, <3>3, <3>4, <3>5, <3>6
  <2>2. CASE ~(x.sb[t].there /\ ~Updating(a, t))
    <3>1. b = a
      BY <2>2
    <3>2. QED
      BY <1>2, <3>1
  <2>3. QED
    BY <2>1, <2>2
<1> HIDE DEF b
<1>4. CASE ~(Mends /\ t = "audio")
  BY <1>1, <1>3, <1>4
<1>5. CASE Mends /\ t = "audio"
  <2>1. b \in Controllers
    BY <1>3 DEF Sound
  <2>2. /\ c \in Controllers /\ Rests(b, c) /\ c.inits = b.inits /\ c.eos = b.eos
        /\ c.early = b.early /\ c.refused = b.refused /\ c.unmade = b.unmade
        /\ c.lastInit = b.lastInit
    <3>1. c \in Controllers
      BY <2>1, Changed
    <3>2. QED
      BY <2>1, <3>1 DEF Controllers, Rests
  <2> HIDE DEF c
  <2>3. Sound(c) /\ Forward(b, c) /\ StillBehind(b, c) /\ StillCleared(b, c) /\ (Ready(b) => Ready(c))
    <3>1. Sound(c)
      BY <1>3, <2>2 DEF Sound, Rests
    <3>2. Forward(b, c)
      BY <1>5, <2>2 DEF Forward, Rests, Row, Updating, Known, AnyUpdating
    <3>3. StillBehind(b, c) /\ StillCleared(b, c) /\ (Ready(b) => Ready(c))
      BY <2>2 DEF StillBehind, Behind, StillCleared, Cleared, Ready, Rests
    <3>4. QED
      BY <3>1, <3>2, <3>3
  <2>4. /\ Sound(d) /\ Forward(c, d) /\ StillBehind(c, d) /\ d.ranges = c.ranges
        /\ d.sb = c.sb /\ StillCleared(c, d) /\ (Ready(c) => Ready(d))
    BY <2>3, UpdatesDuration
  <2> HIDE DEF d
  <2>5. Forward(x, d)
    BY <1>3, <2>3, <2>4, ForwardTrans
  <2>6. d.ranges = x.ranges /\ d.sb[t].there
    BY <1>3, <2>2, <2>4 DEF Rests
  <2>7. StillBehind(x, d) /\ (Ready(x) => Ready(d) /\ StillCleared(x, d))
    BY <1>3, <2>3, <2>4 DEF StillBehind, StillCleared
  <2>8. QED
    BY <1>1, <1>5, <2>4, <2>5, <2>6, <2>7
<1>6. QED
  BY <1>4, <1>5

\* A segment that has come to wait.
Queued(x, t, s) == [x EXCEPT !.pending[t] = Append(@, s)]

\* What a segment that comes to wait changes.
LEMMA Queues ==
  ASSUME NEW x, NEW t \in Types, NEW s \in Segments, Sound(x)
  PROVE  LET y == Queued(x, t, s)
         IN  /\ Sound(y) /\ Stays(x, y) /\ y.refused = x.refused /\ y.skipped = x.skipped
             /\ y.sb = x.sb /\ y.ranges = x.ranges /\ y.appended = x.appended
             /\ y.pending[t] # <<>> /\ \A u \in Types \ {t} : y.pending[u] = x.pending[u]
             /\ Row(y, t) = Append(Row(x, t), s) /\ \A u \in Types \ {t} : Row(y, u) = Row(x, u)
             /\ StillBehind(x, y) /\ (Ready(x) => Ready(y))
             /\ \A u \in Types : Cleared(x, u, s.load) => Cleared(y, u, s.load)
<1>1. x \in Controllers
  BY DEF Sound
<1>2. /\ x.pending \in [Types -> Seq(Segments)] /\ x.pending[t] \in Seq(Segments)
      /\ x.appended[t] \in Seq(Segments)
  BY <1>1, Fields
<1> DEFINE p == Append(x.pending[t], s)
           y == [x EXCEPT !.pending = [x.pending EXCEPT ![t] = p]]
<1>3. /\ p \in Seq(Segments) /\ p # <<>>
      /\ \A i \in DOMAIN x.pending[t] : p[i] = x.pending[t][i]
      /\ \A i \in DOMAIN p : i \in DOMAIN x.pending[t] \/ p[i] = s
  BY <1>2, Pushed
<1>4. x.appended[t] \o p = Append(Row(x, t), s)
  <2>1. x.appended[t] \o Append(x.pending[t], s) = Append(x.appended[t] \o x.pending[t], s)
    <3>1. \A a, q \in Seq(Segments) : a \o Append(q, s) = Append(a \o q, s)
      BY PushedRow
    <3>2. QED
      BY <1>2, <3>1
  <2>2. QED
    BY <2>1, Zenon DEF Row
<1> HIDE DEF p
<1>5. Queued(x, t, s) = y
  BY DEF Queued, p
<1>6. y \in Controllers
  <2>1. [x.pending EXCEPT ![t] = p] \in [Types -> Seq(Segments)]
    BY <1>2, <1>3
  <2>2. QED
    BY <1>1, <2>1, Changed
<1>7. /\ Stays(x, y) /\ y.refused = x.refused /\ y.skipped = x.skipped
      /\ y.sb = x.sb /\ y.ranges = x.ranges /\ y.appended = x.appended
      /\ y.pending[t] = p /\ \A u \in Types \ {t} : y.pending[u] = x.pending[u]
  BY <1>1, <1>2 DEF Controllers, Stays
<1> HIDE DEF y
<1>8. Sound(y) /\ StillBehind(x, y) /\ (Ready(x) => Ready(y))
  BY <1>6, <1>7 DEF Sound, StillBehind, Behind, Ready
<1>9. Row(y, t) = Append(Row(x, t), s) /\ \A u \in Types \ {t} : Row(y, u) = Row(x, u)
  <2>1. Row(y, t) = x.appended[t] \o p
    BY <1>7, Zenon DEF Row
  <2>2. \A u \in Types \ {t} : Row(y, u) = Row(x, u)
    BY <1>7 DEF Row
  <2>3. QED
    BY <1>4, <2>1, <2>2, Zenon
<1>10. ASSUME NEW u \in Types, Cleared(x, u, s.load) PROVE Cleared(y, u, s.load)
  <2>1. CASE u = t
    <3>1. ClearedBuffer(x.sb[t], x.pending[t], x.appended[t], x.ranges[t], s.load)
      BY <1>10, <2>1 DEF Cleared
    <3>2. \A i \in DOMAIN p : p[i].load = s.load
      BY <1>3, <3>1 DEF ClearedBuffer
    <3>3. ClearedBuffer(x.sb[t], p, x.appended[t], x.ranges[t], s.load)
      BY <3>1, <3>2 DEF ClearedBuffer
    <3>4. QED
      BY <1>7, <2>1, <3>3 DEF Cleared
  <2>2. CASE u # t
    BY <1>7, <1>10, <2>2 DEF Cleared
  <2>3. QED
    BY <2>1, <2>2
<1>11. QED
  BY <1>3, <1>5, <1>7, <1>8, <1>9, <1>10

\* A nonempty set of naturals has a least element.
LEMMA LeastNat ==
  ASSUME NEW S, S \subseteq Nat, S # {}
  PROVE  \E x \in S : \A y \in S : x <= y
<1>1. PICK x \in S : \A y \in S : ~(<<y, x>> \in OpToRel(<, Nat))
  BY NatLessThanWellFounded, WFMin
<1>2. \A y \in S : ~(y < x)
  BY <1>1 DEF OpToRel
<1>3. QED
  BY <1>2

\* The loop over the init segments that waited for the source.
OpenedStep(x, failing, o, f, i) ==
  IF i = 0 THEN x ELSE InitOnOpen(f[i - 1], x.inits[i], TRUE, i \in failing, o)

\* The loop is what its body says of each of its rounds.
LEMMA OpenedLoop ==
  ASSUME NEW x \in Controllers, NEW failing, NEW o
  PROVE  \A i \in 0 .. Len(x.inits) : Opened(x, failing, o)[i] = OpenedStep(x, failing, o, Opened(x, failing, o), i)
<1> DEFINE n == Len(x.inits)
           Good(k) == \E g : \A i \in 0 .. n : i <= k => g[i] = OpenedStep(x, failing, o, g, i)
<1>0. n \in Nat
  BY Fields
<1> HIDE DEF n
<1>1. Good(0)
  <2> DEFINE g == [i \in 0 .. n |-> x]
  <2>1. \A i \in 0 .. n : i <= 0 => g[i] = OpenedStep(x, failing, o, g, i)
    <3>1. ASSUME NEW i \in 0 .. n, i <= 0 PROVE i = 0 /\ g[i] = x
      BY <1>0, <3>1
    <3> HIDE DEF g
    <3>2. QED
      BY <3>1 DEF OpenedStep
  <2> HIDE DEF g
  <2>2. QED
    BY <2>1
<1>2. ASSUME NEW k \in Nat, Good(k) PROVE Good(k + 1)
  <2>1. PICK g : \A i \in 0 .. n : i <= k => g[i] = OpenedStep(x, failing, o, g, i)
    BY <1>2
  <2> DEFINE h == [i \in 0 .. n |-> OpenedStep(x, failing, o, g, i)]
  <2>2. ASSUME NEW i \in 0 .. n, i <= k + 1 PROVE h[i] = OpenedStep(x, failing, o, h, i)
    <3>1. CASE i = 0
      BY <3>1 DEF OpenedStep
    <3>2. CASE i # 0
      <4>1. i - 1 \in 0 .. n /\ i - 1 <= k
        BY <1>0, <2>2, <3>2
      <4>2. h[i - 1] = g[i - 1]
        BY <2>1, <4>1
      <4>3. h[i] = OpenedStep(x, failing, o, g, i)
        OBVIOUS
      <4> HIDE DEF h
      <4>4. QED
        BY <3>2, <4>2, <4>3 DEF OpenedStep
    <3>3. QED
      BY <3>1, <3>2
  <2> HIDE DEF h
  <2>3. QED
    BY <2>2
<1>3. \A k \in Nat : Good(k)
  <2> DEFINE S == {k \in Nat : ~Good(k)}
  <2> HIDE DEF Good
  <2>1. SUFFICES ASSUME S # {} PROVE FALSE
    OBVIOUS
  <2>2. PICK k \in S : \A j \in S : k <= j
    BY <2>1, LeastNat
  <2>3. k # 0
    BY <1>1
  <2>4. k - 1 \in Nat /\ Good(k - 1)
    BY <2>2, <2>3
  <2>5. Good((k - 1) + 1)
    BY <1>2, <2>4
  <2>6. QED
    BY <2>5
<1>4. PICK g : \A i \in 0 .. n : i <= n => g[i] = OpenedStep(x, failing, o, g, i)
  BY <1>0, <1>3
<1> DEFINE h == [i \in 0 .. n |-> g[i]]
<1>5. h = [i \in 0 .. n |-> OpenedStep(x, failing, o, h, i)]
  <2>1. ASSUME NEW i \in 0 .. n PROVE g[i] = OpenedStep(x, failing, o, h, i)
    <3>1. g[i] = OpenedStep(x, failing, o, g, i)
      BY <1>0, <1>4
    <3>2. i # 0 => h[i - 1] = g[i - 1]
      BY <1>0
    <3> HIDE DEF h
    <3>3. QED
      BY <3>1, <3>2 DEF OpenedStep
  <2>2. QED
    BY <2>1
<1> HIDE DEF h
<1>6. Opened(x, failing, o) = [i \in 0 .. n |-> OpenedStep(x, failing, o, Opened(x, failing, o), i)]
  BY <1>5 DEF Opened, OpenedStep, n
<1>7. QED
  BY <1>6 DEF n

\* After it all their buffers are there, or could not be made.
LEMMA OpensAll ==
  ASSUME NEW x, NEW failing, NEW o \in Outcomes, Sound(x)
  PROVE  LET y == Opened(x, failing, o)[Len(x.inits)]
         IN  /\ Sound(y) /\ Forward(x, y) /\ StillBehind(x, y) /\ y.ranges = x.ranges
             /\ Ready(x) => Ready(y) /\ StillCleared(x, y)
             /\ \A t \in Range(x.inits) : y.sb[t].there \/ t \in y.unmade
<1> DEFINE n == Len(x.inits)
           f == Opened(x, failing, o)
           Good(i) == /\ Sound(f[i]) /\ Forward(x, f[i]) /\ StillBehind(x, f[i])
                      /\ f[i].ranges = x.ranges
                      /\ Ready(x) => Ready(f[i]) /\ StillCleared(x, f[i])
                      /\ \A j \in 1 .. i : f[i].sb[x.inits[j]].there \/ x.inits[j] \in f[i].unmade
<1>0. x \in Controllers /\ x.inits \in Seq(Types) /\ n \in Nat
  <2>1. x \in Controllers
    BY DEF Sound
  <2>2. x.inits \in Seq(Types)
    BY <2>1 DEF Controllers
  <2>3. QED
    BY <2>1, <2>2
<1>1. \A i \in 0 .. n : f[i] = OpenedStep(x, failing, o, f, i)
  BY <1>0, OpenedLoop
<1> HIDE DEF f
<1>2. Good(0)
  <2>1. f[0] = x
    <3>1. 0 \in 0 .. n
      BY <1>0
    <3> HIDE DEF n
    <3>2. QED
      BY <1>1, <3>1 DEF OpenedStep
  <2>2. QED
    BY <2>1, ForwardRefl
<1>3. ASSUME NEW i \in 1 .. n, Good(i - 1) PROVE Good(i)
  <2> DEFINE w == f[i - 1]
             t == x.inits[i]
             y == f[i]
  <2>1. t \in Types /\ f[i] = InitOnOpen(w, t, TRUE, i \in failing, o)
    <3>1. i \in 0 .. n /\ i # 0
      BY <1>0
    <3>2. f[i] = OpenedStep(x, failing, o, f, i)
      BY <1>1, <3>1
    <3>3. QED
      BY <1>0, <3>1, <3>2 DEF OpenedStep
  <2>2. /\ Sound(w) /\ Forward(x, w) /\ StillBehind(x, w) /\ w.ranges = x.ranges
        /\ Ready(x) => Ready(w) /\ StillCleared(x, w)
        /\ \A j \in 1 .. i - 1 : w.sb[x.inits[j]].there \/ x.inits[j] \in w.unmade
    BY <1>3
  <2> HIDE DEF w, t, Good
  <2>3. /\ Sound(y) /\ Forward(w, y) /\ StillBehind(w, y)
        /\ y.ranges = w.ranges /\ (y.sb[t].there \/ t \in y.unmade)
        /\ Ready(w) => Ready(y) /\ StillCleared(w, y)
    <3> DEFINE fails == i \in failing
    <3>1. y = InitOnOpen(w, t, TRUE, fails, o) /\ t \in Types /\ Sound(w) /\ fails \in BOOLEAN
      BY <2>1, <2>2 DEF w
    <3> HIDE DEF fails
    <3> HIDE DEF y
    <3>2. QED
      BY <3>1, InitOpened
  <2> HIDE DEF y
  <2>4. Forward(x, y)
    BY <2>2, <2>3, ForwardTrans
  <2>5. StillBehind(x, y) /\ y.ranges = x.ranges /\ (Ready(x) => Ready(y) /\ StillCleared(x, y))
    BY <2>2, <2>3 DEF StillBehind, StillCleared
  <2>6. ASSUME NEW j \in 1 .. i PROVE y.sb[x.inits[j]].there \/ x.inits[j] \in y.unmade
    <3>1. x.inits[j] \in Types
      BY <1>0
    <3>2. CASE j = i
      BY <2>3, <3>2 DEF t
    <3>3. CASE j # i
      <4>1. j \in 1 .. i - 1
        BY <3>3
      <4>2. w.sb[x.inits[j]].there \/ x.inits[j] \in w.unmade
        BY <2>2, <4>1
      <4>3. QED
        BY <2>3, <3>1, <4>2 DEF Forward
    <3>4. QED
      BY <3>2, <3>3
  <2>7. QED
    BY <2>3, <2>4, <2>5, <2>6 DEF Good, y
<1>4. \A i \in 0 .. n : Good(i)
  <2> DEFINE S == {i \in 0 .. n : ~Good(i)}
  <2> HIDE DEF Good
  <2>1. SUFFICES ASSUME S # {} PROVE FALSE
    OBVIOUS
  <2>2. S \subseteq Nat
    BY <1>0
  <2>3. PICK i \in S : \A j \in S : i <= j
    BY <2>1, <2>2, LeastNat
  <2>4. i # 0
    BY <1>2
  <2>5. i \in 1 .. n /\ i - 1 \in 0 .. n
    BY <1>0, <2>4
  <2>6. i - 1 \notin S
    BY <1>0, <2>3, <2>5
  <2>7. Good(i - 1)
    BY <2>5, <2>6
  <2>8. Good(i)
    BY <1>3, <2>5, <2>7
  <2>9. QED
    BY <2>8
<1>5. Good(n)
  BY <1>0, <1>4
<1>6. Range(x.inits) = {x.inits[j] : j \in 1 .. n}
  BY <1>0 DEF Range
<1>7. QED
  BY <1>5, <1>6 DEF f

-----------------------------------------------------------------------------
(* Stretches of the time line. *)

\* The durations are naturals, the flags Boolean.
LEMMA Constants ==
  /\ Duration \in Nat /\ MaxBackward \in Nat /\ MinBackward \in Nat /\ Padding \in Nat
  /\ \A c \in Configs : c.auto \in BOOLEAN /\ c.safari \in BOOLEAN /\ c.mpeg \in BOOLEAN
BY MSEAssumption

\* The places of a buffer are on the time line.
LEMMA PlacesOn ==
  ASSUME NEW x \in Controllers, NEW t \in Types
  PROVE  Places(x, t) \subseteq 0 .. Duration
<1>1. x.sb[t].buffered \subseteq Segments
  BY Fields, BufferFields
<1>2. QED
  BY <1>1 DEF Places, Segments

\* A nonempty part of the time line has a last place.
LEMMA LastPlace ==
  ASSUME NEW S, S \subseteq 0 .. Duration, NEW s \in S
  PROVE  Max(S) \in S /\ s <= Max(S)
<1> DEFINE T == {Duration - u : u \in S}
<1>1. Duration \in Nat /\ \A u \in S : u \in Nat /\ u <= Duration
  BY Constants
<1>2. T \subseteq Nat /\ T # {}
  BY <1>1
<1>3. PICK x \in T : \A y \in T : x <= y
  BY <1>2, LeastNat
<1>4. PICK u \in S : x = Duration - u
  BY <1>3
<1>5. ASSUME NEW v \in S PROVE u >= v
  <2>1. Duration - v \in T
    OBVIOUS
  <2>2. Duration - u <= Duration - v
    BY <1>3, <1>4, <2>1
  <2> HIDE DEF T
  <2>3. QED
    BY <1>1, <2>2
<1>6. Max(S) \in S /\ \A v \in S : Max(S) >= v
  BY <1>5 DEF Max
<1>7. Max(S) \in Nat /\ s \in Nat /\ Max(S) >= s
  BY <1>1, <1>6
<1>8. QED
  BY <1>6, <1>7

\* What is removed of a stretch is part of it and behind the position.
LEMMA RemovedBehind ==
  ASSUME NEW run, run \subseteq 0 .. Duration, now \in Nat
  PROVE  ToRemove(run) \subseteq run /\ \A n \in ToRemove(run) : n < now
<1>0. /\ Duration \in Nat /\ MinBackward \in Nat /\ \A n \in run : n \in Nat
  BY Constants
<1>1. ToRemove(run) \in {{n \in run : n < now - MinBackward}, {}}
      \/ (ToRemove(run) = run /\ Max(run) + 1 < now)
  BY DEF ToRemove
<1>2. ASSUME NEW n \in run, n < now - MinBackward PROVE n < now
  BY <1>0, <1>2
<1>3. ASSUME NEW n \in run, Max(run) + 1 < now PROVE n < now
  <2>1. Max(run) \in run /\ n <= Max(run)
    BY LastPlace
  <2>2. Max(run) \in Nat /\ n \in Nat
    BY <1>0, <2>1
  <2>3. QED
    BY <1>3, <2>1, <2>2
<1>4. QED
  BY <1>1, <1>2, <1>3

\* Stretches of a part of the time line.
LEMMA StretchesIn ==
  ASSUME NEW S, S \subseteq 0 .. Duration
  PROVE  /\ Starts(S) \subseteq S /\ IsFiniteSet(S) /\ IsFiniteSet(Starts(S))
         /\ \A a : Stretch(S, a) \subseteq 0 .. Duration
<1>1. IsFiniteSet(0 .. Duration)
  BY Constants, FS_Interval
<1>2. Starts(S) \subseteq S /\ \A a : Stretch(S, a) \subseteq S
  BY DEF Starts, Stretch
<1>3. IsFiniteSet(S)
  BY <1>1, FS_Subset
<1>4. IsFiniteSet(Starts(S))
  BY <1>2, <1>3, FS_Subset
<1>5. QED
  BY <1>2, <1>3, <1>4

\* The ranges of the clean-up.
LEMMA RangesBehind ==
  ASSUME NEW S, S \subseteq 0 .. Duration, now \in Nat
  PROVE  /\ RangesOf(S) \in Seq(SUBSET Nat)
         /\ \A i \in DOMAIN RangesOf(S) : \A n \in RangesOf(S)[i] : n < now
<1> DEFINE starts == {a \in Starts(S) : ToRemove(Stretch(S, a)) # {}}
           k == Cardinality(starts)
           r == [i \in 1 .. k |-> ToRemove(Stretch(S, Nth(starts, i)))]
<1>1. k \in Nat
  <2>1. IsFiniteSet(Starts(S)) /\ starts \in SUBSET Starts(S)
    BY StretchesIn
  <2> HIDE DEF starts
  <2>2. IsFiniteSet(starts)
    BY <2>1, FS_Subset
  <2>3. QED
    BY <2>2, FS_CardinalityType
<1>2. ASSUME NEW i \in 1 .. k
      PROVE  r[i] \in SUBSET Nat /\ \A n \in r[i] : n < now
  <2> DEFINE run == Stretch(S, Nth(starts, i))
  <2>1. run \subseteq 0 .. Duration
    BY StretchesIn
  <2>2. r[i] = ToRemove(run)
    OBVIOUS
  <2> HIDE DEF run, r
  <2>3. ToRemove(run) \subseteq run /\ \A n \in ToRemove(run) : n < now
    BY <2>1, RemovedBehind
  <2>4. run \subseteq Nat
    BY <2>1
  <2>5. QED
    BY <2>2, <2>3, <2>4
<1>3. RangesOf(S) = r
  BY DEF RangesOf
<1> HIDE DEF k
<1>4. DOMAIN r = 1 .. k
  OBVIOUS
<1>5. r \in [1 .. k -> SUBSET Nat]
  BY <1>2
<1> HIDE DEF r
<1>6. r \in Seq(SUBSET Nat)
  BY <1>1, <1>5
<1>7. QED
  BY <1>2, <1>3, <1>4, <1>6

\* The runs of a buffer are a sequence that covers it.
LEMMA NthStart ==
  ASSUME NEW S, S \subseteq Nat, IsFiniteSet(S), NEW a \in S
  PROVE  \E i \in 1 .. Cardinality(S) : Nth(S, i) = a
<1> DEFINE upTo(c) == {b \in S : b <= c}
           i == Cardinality(upTo(a))
<1>1. \A c \in S : upTo(c) \in SUBSET S /\ c \in upTo(c)
  OBVIOUS
<1>2. \A c \in S : IsFiniteSet(upTo(c)) /\ Cardinality(upTo(c)) \in Nat /\ Cardinality(S) \in Nat
                   /\ Cardinality(upTo(c)) <= Cardinality(S)
  <2>1. ASSUME NEW c \in S
        PROVE  IsFiniteSet(upTo(c)) /\ Cardinality(upTo(c)) \in Nat /\ Cardinality(S) \in Nat
               /\ Cardinality(upTo(c)) <= Cardinality(S)
    <3>1. IsFiniteSet(upTo(c)) /\ Cardinality(upTo(c)) <= Cardinality(S)
      BY <1>1, FS_Subset
    <3>2. QED
      BY <3>1, FS_CardinalityType
  <2>2. QED
    BY <2>1
<1>3. ASSUME NEW c \in S, NEW d \in S, c < d PROVE Cardinality(upTo(c)) # Cardinality(upTo(d))
  <2>0. c \in Nat /\ d \in Nat /\ c < d /\ \A b \in S : b \in Nat
    BY <1>3
  <2>1. upTo(c) \in SUBSET upTo(d) /\ d \in upTo(d) /\ d \notin upTo(c)
    <3>1. ASSUME NEW b \in S, b <= c PROVE b <= d
      BY <2>0, <3>1
    <3>2. ~(d <= c)
      BY <2>0
    <3>3. QED
      BY <1>1, <3>1, <3>2
  <2> HIDE DEF upTo
  <2>2. Cardinality(upTo(d)) = Cardinality(upTo(c)) => upTo(d) = upTo(c)
    BY <1>2, <2>1, FS_Subset
  <2>3. QED
    BY <2>1, <2>2
<1>4. i # 0
  <2> HIDE DEF upTo
  <2>1. IsFiniteSet(upTo(a)) /\ upTo(a) # {}
    BY <1>1, <1>2
  <2>2. QED
    BY <2>1, FS_EmptySet
<1>5. \A c \in S : Cardinality(upTo(c)) = i => c = a
  <2>1. \A c \in S : c = a \/ c < a \/ a < c
    OBVIOUS
  <2> HIDE DEF upTo
  <2>2. QED
    BY <1>3, <2>1
<1>6. Nth(S, i) = a
  <2>1. Nth(S, i) = CHOOSE c \in S : Cardinality(upTo(c)) = i
    BY DEF Nth
  <2> HIDE DEF upTo
  <2>2. QED
    BY <1>5, <2>1
<1>7. i \in 1 .. Cardinality(S)
  <2> HIDE DEF upTo
  <2>1. i \in Nat /\ Cardinality(S) \in Nat /\ i <= Cardinality(S)
    BY <1>2
  <2> HIDE DEF i
  <2>2. QED
    BY <1>4, <2>1
<1>8. QED
  BY <1>6, <1>7

\* The runs of a part of the time line are sets of places that cover it.
LEMMA RunsCover ==
  ASSUME NEW S, S \subseteq 0 .. Duration
  PROVE  /\ Runs(S) \in Seq(SUBSET Nat)
         /\ \A n \in S : \E i \in DOMAIN Runs(S) : n \in Runs(S)[i]
<1> DEFINE k == Cardinality(Starts(S))
<1>0. S \subseteq Nat /\ Starts(S) \subseteq S /\ IsFiniteSet(Starts(S)) /\ k \in Nat
  <2>1. Starts(S) \subseteq S /\ IsFiniteSet(Starts(S))
    BY StretchesIn
  <2>2. QED
    BY <2>1, FS_CardinalityType
<1>1. Runs(S) = [i \in 1 .. k |-> Stretch(S, Nth(Starts(S), i))]
  BY DEF Runs
<1>2. Runs(S) \in Seq(SUBSET Nat)
  <2>1. \A i \in 1 .. k : Stretch(S, Nth(Starts(S), i)) \in SUBSET Nat
    <3>1. \A a : Stretch(S, a) \subseteq 0 .. Duration
      BY StretchesIn
    <3>2. QED
      BY <3>1
  <2> HIDE DEF k
  <2>2. QED
    BY <1>0, <1>1, <2>1
<1>3. ASSUME NEW n \in S PROVE \E i \in DOMAIN Runs(S) : n \in Runs(S)[i]
  <2> DEFINE B == {a \in Nat : a <= n /\ (a .. n) \subseteq S}
  <2>1. n \in Nat /\ n \in B
    BY <1>0
  <2>2. PICK a \in B : \A c \in B : a <= c
    <3>1. B \subseteq Nat /\ B # {}
      BY <2>1
    <3> HIDE DEF B
    <3>2. QED
      BY <3>1, LeastNat
  <2>3. a \in Nat /\ a <= n /\ (a .. n) \subseteq S /\ a \in S
    BY <2>1, <2>2
  <2>4. a - 1 \notin S
    <3>1. SUFFICES ASSUME a - 1 \in S PROVE FALSE
      OBVIOUS
    <3>2. a - 1 \in Nat /\ a - 1 <= n
      BY <1>0, <2>1, <2>3, <3>1
    <3>3. ((a - 1) .. n) \subseteq S
      <4>1. ASSUME NEW c \in (a - 1) .. n PROVE c \in S
        <5>1. c = a - 1 \/ c \in a .. n
          BY <2>1, <2>3, <3>2
        <5>2. QED
          BY <2>3, <3>1, <5>1
      <4>2. QED
        BY <4>1
    <3>4. a - 1 \in B
      BY <3>2, <3>3
    <3>5. a <= a - 1
      BY <2>2, <3>4
    <3>6. QED
      BY <2>3, <3>5
  <2>5. a \in Starts(S) /\ n \in Stretch(S, a)
    BY <2>1, <2>3, <2>4 DEF Starts, Stretch
  <2>6. PICK i \in 1 .. k : Nth(Starts(S), i) = a
    BY <1>0, <2>5, NthStart
  <2> HIDE DEF k
  <2>7. QED
    BY <1>1, <2>5, <2>6
<1>4. QED
  BY <1>2, <1>3

\* The elements of two sequences in a row.
LEMMA InARow ==
  ASSUME NEW S, NEW a \in Seq(S), NEW r \in Seq(S)
  PROVE  /\ a \o r \in Seq(S)
         /\ \A i \in DOMAIN (a \o r) :
              \/ i \in DOMAIN a /\ (a \o r)[i] = a[i]
              \/ \E j \in DOMAIN r : (a \o r)[i] = r[j]
         /\ \A i \in DOMAIN a : i \in DOMAIN (a \o r) /\ (a \o r)[i] = a[i]
         /\ \A j \in DOMAIN r : \E i \in DOMAIN (a \o r) : (a \o r)[i] = r[j]
         /\ a \o r = <<>> => a = <<>> /\ r = <<>>
<1>1. a \o r \in Seq(S) /\ Len(a) \in Nat /\ Len(r) \in Nat /\ Len(a \o r) = Len(a) + Len(r)
  OBVIOUS
<1>2. ASSUME NEW i \in DOMAIN (a \o r)
      PROVE  \/ i \in DOMAIN a /\ (a \o r)[i] = a[i]
             \/ \E j \in DOMAIN r : (a \o r)[i] = r[j]
  <2>1. i \in 1 .. Len(a) + Len(r)
    BY <1>1
  <2>2. CASE i <= Len(a)
    BY <1>1, <2>1, <2>2
  <2>3. CASE ~(i <= Len(a))
    <3>1. i - Len(a) \in DOMAIN r /\ (a \o r)[i] = r[i - Len(a)]
      BY <1>1, <2>1, <2>3
    <3>2. QED
      BY <3>1
  <2>4. QED
    BY <2>2, <2>3
<1>3. \A i \in DOMAIN a : i \in DOMAIN (a \o r) /\ (a \o r)[i] = a[i]
  BY <1>1
<1>4. ASSUME NEW j \in DOMAIN r PROVE \E i \in DOMAIN (a \o r) : (a \o r)[i] = r[j]
  <2>1. Len(a) + j \in DOMAIN (a \o r) /\ (a \o r)[Len(a) + j] = r[j]
    BY <1>1
  <2>2. QED
    BY <2>1
<1>5. a \o r = <<>> => a = <<>> /\ r = <<>>
  OBVIOUS
<1>6. QED
  BY <1>1, <1>2, <1>3, <1>4, <1>5

\* The controller with ranges noted to be removed.
Noted(x, t, r) == [x EXCEPT !.ranges[t] = @ \o r]

\* Ranges noted for one type change no other queue.
LEMMA NotesRanges ==
  ASSUME NEW x, NEW t \in Types, NEW r \in Seq(SUBSET Nat), Sound(x), x.sb[t].there
  PROVE  LET y == Noted(x, t, r)
         IN  /\ Sound(y) /\ Stays(x, y) /\ y.refused = x.refused /\ y.sb = x.sb
             /\ y.pending = x.pending /\ y.appended = x.appended /\ y.skipped = x.skipped
             /\ y.ranges[t] = x.ranges[t] \o r
             /\ \A u \in Types \ {t} : y.ranges[u] = x.ranges[u]
<1>1. x \in Controllers
  BY DEF Sound
<1> DEFINE p == x.ranges[t] \o r
           y == [x EXCEPT !.ranges = [x.ranges EXCEPT ![t] = p]]
<1>2. x.ranges \in [Types -> Seq(SUBSET Nat)] /\ x.ranges[t] \in Seq(SUBSET Nat)
  BY <1>1, Fields
<1>3. p \in Seq(SUBSET Nat)
  BY <1>2, InARow
<1>4. Noted(x, t, r) = y
  BY DEF Noted
<1> HIDE DEF p
<1>5. y \in Controllers
  <2>1. [x.ranges EXCEPT ![t] = p] \in [Types -> Seq(SUBSET Nat)]
    BY <1>2, <1>3
  <2>2. QED
    BY <1>1, <2>1, Changed
<1>6. /\ Stays(x, y) /\ y.refused = x.refused /\ y.sb = x.sb
      /\ y.pending = x.pending /\ y.appended = x.appended /\ y.skipped = x.skipped
      /\ y.ranges[t] = p /\ \A u \in Types \ {t} : y.ranges[u] = x.ranges[u]
  BY <1>1, <1>2 DEF Controllers, Stays
<1> HIDE DEF y
<1>7. Sound(y)
  <2>1. ASSUME NEW u \in Types
        PROVE  y.sb[u] = x.sb[u] /\ y.appended[u] = x.appended[u]
               /\ (y.ranges[u] # <<>> => x.ranges[u] # <<>> \/ x.sb[u].there)
    <3>1. CASE u = t
      BY <1>6, <3>1
    <3>2. CASE u # t
      BY <1>6, <3>2
    <3>3. QED
      BY <3>1, <3>2
  <2>2. QED
    BY <1>5, <2>1, SoundAt, SoundBy
<1>8. QED
  BY <1>4, <1>6, <1>7 DEF p

-----------------------------------------------------------------------------
(* The automatic clean-up. *)

Cleans(x, y) ==
  /\ Sound(y) /\ Forward(x, y) /\ SameThere(x, y) /\ StillBehind(x, y)
  /\ y.pending = x.pending /\ y.refused = x.refused
  /\ \A u \in Types : y.ranges[u] # <<>> => x.ranges[u] # <<>> \/ AnyUpdating(y)

\* What CleanupOf does for one type.
LEMMA CleansOne ==
  ASSUME NEW x, NEW t \in Types, Sound(x), now \in Nat
  PROVE  Cleans(x, CleanupOf(x, t))
<1> DEFINE found == RangesOf(Places(x, t))
           noted == Noted(x, t, found)
           y == CleanupOf(x, t)
<1>0. SUFFICES Cleans(x, y)
  OBVIOUS
<1>1. x \in Controllers
  BY DEF Sound
<1>2. /\ found \in Seq(SUBSET Nat)
      /\ \A i \in DOMAIN found : \A n \in found[i] : n < now
  BY <1>1, PlacesOn, RangesBehind
<1> HIDE DEF found
<1>3. y = IF x.sb[t].there /\ found # <<>>
          THEN IF Updating(noted, t) THEN noted ELSE DoRemoveRanges(noted)
          ELSE x
  BY DEF CleanupOf, Noted, found
<1> HIDE DEF y
<1>4. CASE ~(x.sb[t].there /\ found # <<>>)
  <2>1. y = x
    BY <1>3, <1>4
  <2>2. QED
    BY <2>1, ForwardRefl DEF Cleans
<1>5. CASE x.sb[t].there /\ found # <<>>
  <2>1. /\ Sound(noted) /\ Stays(x, noted) /\ noted.refused = x.refused /\ noted.sb = x.sb
        /\ noted.pending = x.pending /\ noted.appended = x.appended /\ noted.skipped = x.skipped
        /\ noted.ranges[t] = x.ranges[t] \o found
        /\ \A u \in Types \ {t} : noted.ranges[u] = x.ranges[u]
    BY <1>2, <1>5, NotesRanges
  <2> HIDE DEF noted
  <2>2. Forward(x, noted) /\ SameThere(x, noted)
    BY <2>1 DEF Forward, SameThere, Stays, Row, Updating, AnyUpdating, Known
  <2>3. StillBehind(x, noted)
    <3>1. ASSUME Behind(x, t) PROVE Behind(noted, t)
      <4>1. x.ranges[t] \in Seq(SUBSET Nat)
        BY <1>1, Fields
      <4>2. \A i \in DOMAIN (x.ranges[t] \o found) :
              \/ i \in DOMAIN x.ranges[t] /\ (x.ranges[t] \o found)[i] = x.ranges[t][i]
              \/ \E j \in DOMAIN found : (x.ranges[t] \o found)[i] = found[j]
        BY <1>2, <4>1, InARow
      <4>3. ASSUME NEW i \in DOMAIN noted.ranges[t] PROVE \A n \in noted.ranges[t][i] : n < now
        <5>1. CASE i \in DOMAIN x.ranges[t] /\ noted.ranges[t][i] = x.ranges[t][i]
          BY <3>1, <5>1 DEF Behind
        <5>2. CASE \E j \in DOMAIN found : noted.ranges[t][i] = found[j]
          BY <1>2, <5>2
        <5>3. QED
          BY <2>1, <4>2, <5>1, <5>2
      <4>4. QED
        BY <2>1, <3>1, <4>3 DEF Behind
    <3>2. ASSUME NEW u \in Types \ {t}, Behind(x, u) PROVE Behind(noted, u)
      BY <2>1, <3>2 DEF Behind
    <3>3. QED
      BY <3>1, <3>2 DEF StillBehind
  <2>4. CASE Updating(noted, t)
    <3>1. y = noted
      BY <1>3, <1>5, <2>4
    <3>2. AnyUpdating(noted)
      BY <2>4 DEF AnyUpdating
    <3>3. QED
      BY <2>1, <2>2, <2>3, <3>1, <3>2 DEF Cleans
  <2>5. CASE ~Updating(noted, t)
    <3>1. y = DoRemoveRanges(noted)
      BY <1>3, <1>5, <2>5
    <3>2. /\ Sound(y) /\ Forward(noted, y) /\ SameThere(noted, y) /\ StillBehind(noted, y)
          /\ y.pending = noted.pending /\ y.refused = noted.refused
          /\ \A u \in Types : /\ noted.ranges[u] # <<>> => Updating(y, u)
                              /\ noted.ranges[u] = <<>> => y.ranges[u] = <<>>
      BY <2>1, <3>1, RemovesAll
    <3>3. Forward(x, y)
      BY <2>2, <3>2, ForwardTrans
    <3>4. SameThere(x, y) /\ StillBehind(x, y)
      BY <2>2, <2>3, <3>2 DEF SameThere, StillBehind
    <3>5. noted.ranges[t] # <<>>
      <4>1. x.ranges[t] \in Seq(SUBSET Nat)
        BY <1>1, Fields
      <4>2. x.ranges[t] \o found = <<>> => found = <<>>
        BY <1>2, <4>1, InARow
      <4>3. QED
        BY <1>5, <2>1, <4>2
    <3>6. AnyUpdating(y)
      BY <3>2, <3>5 DEF AnyUpdating
    <3>7. QED
      BY <2>1, <3>2, <3>3, <3>4, <3>6 DEF Cleans
  <2>6. QED
    BY <2>4, <2>5
<1>6. QED
  BY <1>4, <1>5

\* What DoCleanup does.
LEMMA CleansAll ==
  ASSUME NEW x, Sound(x), now \in Nat
  PROVE  Cleans(x, DoCleanup(x))
<1> DEFINE y1 == CleanupOf(x, "video")
           y == CleanupOf(y1, "audio")
<1>0. "video" \in Types /\ "audio" \in Types
  BY DEF Types
<1>1. Cleans(x, y1)
  BY <1>0, CleansOne
<1> HIDE DEF y1
<1>2. Cleans(y1, y)
  BY <1>0, <1>1, CleansOne DEF Cleans
<1> HIDE DEF y
<1>3. Forward(x, y)
  BY <1>1, <1>2, ForwardTrans DEF Cleans
<1>4. SameThere(x, y) /\ StillBehind(x, y)
  BY <1>1, <1>2 DEF Cleans, SameThere, StillBehind
<1>5. AnyUpdating(y1) => AnyUpdating(y)
  BY <1>2 DEF Cleans, Forward, AnyUpdating
<1>6. \A u \in Types : y.ranges[u] # <<>> => x.ranges[u] # <<>> \/ AnyUpdating(y)
  BY <1>1, <1>2, <1>5 DEF Cleans
<1>7. Cleans(x, y)
  BY <1>1, <1>2, <1>3, <1>4, <1>6 DEF Cleans
<1>8. QED
  BY <1>7 DEF DoCleanup, y, y1

-----------------------------------------------------------------------------
(* A seek. *)

\* What a seek changes of one buffer only.
OthersKept(x, y, t) ==
  /\ y.inits = x.inits /\ y.lastInit = x.lastInit /\ y.eos = x.eos /\ y.early = x.early
  /\ x.refused => y.refused
  /\ y.duration => x.duration \/ Mends
  /\ y.unmade = x.unmade
  /\ \A u \in Types : y.sb[u].there = x.sb[u].there
  /\ \A u \in Types \ {t} : /\ Updating(x, u) => Updating(y, u)
                            /\ x.pending[u] = <<>> => y.pending[u] = <<>>
                            /\ Row(y, u) = Row(x, u)
                            /\ \A l \in Nat : Cleared(x, u, l) => Cleared(y, u, l)
                            /\ x.ranges[u] = <<>> => y.ranges[u] = <<>>

\* An abort leaves everything else of the buffer.
LEMMA Aborts ==
  ASSUME NEW x, NEW t \in Types, Sound(x)
  PROVE  LET y == Aborted(x, t)
         IN  /\ Sound(y) /\ Stays(x, y) /\ y.refused = x.refused /\ y.idr = x.idr
             /\ y.pending = x.pending /\ y.appended = x.appended /\ y.ranges = x.ranges
             /\ y.sb[t].op # "append" /\ y.sb[t].buffered = x.sb[t].buffered
             /\ y.sb[t].there = x.sb[t].there
             /\ \A u \in Types \ {t} : y.sb[u] = x.sb[u]
<1>1. x \in Controllers
  BY DEF Sound
<1>2. x.sb \in [Types -> Buffers] /\ x.sb[t] \in Buffers
  BY <1>1, Fields
<1>3. CASE x.sb[t].op # "append"
  BY <1>3 DEF Aborted, Stays
<1>4. CASE x.sb[t].op = "append"
  <2> DEFINE b == [x.sb[t] EXCEPT !.op = "idle", !.ends = x.sb[t].ends + 1]
             y == [x EXCEPT !.sb = [x.sb EXCEPT ![t] = b]]
  <2>1. /\ b \in Buffers /\ b.op = "idle" /\ b.buffered = x.sb[t].buffered
        /\ b.there = x.sb[t].there /\ b.inited = x.sb[t].inited
    <3>1. x.sb[t].ends + 1 \in Nat
      BY <1>2, BufferFields
    <3>2. QED
      BY <1>2, <3>1 DEF Buffers
  <2>2. Aborted(x, t) = y
    BY <1>4 DEF Aborted
  <2> HIDE DEF b
  <2>3. y \in Controllers
    <3>1. [x.sb EXCEPT ![t] = b] \in [Types -> Buffers]
      BY <1>2, <2>1
    <3>2. QED
      BY <1>1, <3>1, Changed
  <2>4. /\ Stays(x, y) /\ y.refused = x.refused /\ y.idr = x.idr
        /\ y.pending = x.pending /\ y.appended = x.appended /\ y.ranges = x.ranges
        /\ y.sb[t] = b /\ \A u \in Types \ {t} : y.sb[u] = x.sb[u]
    BY <1>1, <1>2 DEF Controllers, Stays
  <2> HIDE DEF y
  <2>5. Sound(y)
    <3>1. x.sb[t].there
      BY <1>4, SoundAt
    <3>2. ASSUME NEW u \in Types
          PROVE  /\ y.appended[u] = x.appended[u] /\ y.ranges[u] = x.ranges[u]
                 /\ u = t => y.sb[u].there
                 /\ u # t => y.sb[u] = x.sb[u]
      BY <2>1, <2>4, <3>1
    <3>3. QED
      BY <2>3, <3>2, SoundAt, SoundBy
  <2>6. QED
    BY <2>1, <2>2, <2>4, <2>5
<1>5. QED
  BY <1>3, <1>4

\* The buffer is to be emptied: what it holds is noted to be removed.
LEMMA Empties ==
  ASSUME NEW x, NEW t \in Types, Sound(x), x.sb[t].there
  PROVE  LET y == Emptied(x, t)
         IN  /\ Sound(y) /\ OthersKept(x, y, t)
             /\ y.pending[t] = <<>> /\ y.appended[t] = <<>>
             /\ \A u \in Types \ {t} : y.pending[u] = x.pending[u]
             /\ \A l \in Nat : Cleared(y, t, l)
<1> DEFINE a == Aborted(x, t)
           runs == Runs(Places(x, t))
           b == [a EXCEPT !.idr = <<>>]
           c == [b EXCEPT !.pending = [a.pending EXCEPT ![t] = <<>>]]
           d == [c EXCEPT !.appended = [a.appended EXCEPT ![t] = <<>>]]
           y == Noted(d, t, runs)
<1>1. x \in Controllers
  BY DEF Sound
<1>2. /\ Sound(a) /\ Stays(x, a) /\ a.refused = x.refused
      /\ a.pending = x.pending /\ a.appended = x.appended /\ a.ranges = x.ranges
      /\ a.sb[t].op # "append" /\ a.sb[t].buffered = x.sb[t].buffered
      /\ a.sb[t].there = x.sb[t].there
      /\ \A u \in Types \ {t} : a.sb[u] = x.sb[u]
  BY Aborts
<1>3. /\ runs \in Seq(SUBSET Nat)
      /\ \A n \in Places(x, t) : \E i \in DOMAIN runs : n \in runs[i]
  BY <1>1, PlacesOn, RunsCover
<1> HIDE DEF a
<1>4. a \in Controllers /\ a.pending \in [Types -> Seq(Segments)] /\ a.appended \in [Types -> Seq(Segments)]
  BY <1>2, Fields DEF Sound
<1>5. d \in Controllers
  <2>1. b \in Controllers
    <3>1. <<>> \in Seq(Nat)
      OBVIOUS
    <3>2. QED
      BY <1>4, <3>1, Changed
  <2> HIDE DEF b
  <2>2. <<>> \in Seq(Segments)
    OBVIOUS
  <2>3. /\ [a.pending EXCEPT ![t] = <<>>] \in [Types -> Seq(Segments)]
        /\ [a.appended EXCEPT ![t] = <<>>] \in [Types -> Seq(Segments)]
    BY <1>4, <2>2
  <2>4. c \in Controllers
    BY <2>1, <2>3, Changed
  <2> HIDE DEF c
  <2>5. QED
    BY <2>3, <2>4, Changed
<1>6. /\ Stays(a, d) /\ d.refused = a.refused /\ d.sb = a.sb /\ d.ranges = a.ranges
      /\ d.pending[t] = <<>> /\ d.appended[t] = <<>>
      /\ \A u \in Types \ {t} : d.pending[u] = a.pending[u] /\ d.appended[u] = a.appended[u]
  BY <1>4 DEF Controllers, Stays
<1>7. Emptied(x, t) = y
  BY <1>4 DEF Emptied, Noted, a, Controllers
<1> HIDE DEF d, runs
<1>8. Sound(d) /\ d.sb[t].there
  <2>1. d.sb[t].there
    BY <1>2, <1>6
  <2>2. ASSUME NEW u \in Types
        PROVE  /\ d.sb[u] = a.sb[u] /\ d.ranges[u] = a.ranges[u]
               /\ u = t => d.sb[u].there
               /\ u # t => d.appended[u] = a.appended[u]
    BY <1>6, <2>1
  <2>3. Sound(d)
    BY <1>2, <1>5, <2>2, SoundAt, SoundBy
  <2>4. QED
    BY <2>1, <2>3
<1>9. /\ Sound(y) /\ Stays(d, y) /\ y.refused = d.refused /\ y.sb = d.sb
      /\ y.pending = d.pending /\ y.appended = d.appended
      /\ y.ranges[t] = d.ranges[t] \o runs
      /\ \A u \in Types \ {t} : y.ranges[u] = d.ranges[u]
  BY <1>3, <1>8, NotesRanges
<1> HIDE DEF y
<1>10. \A u \in Types \ {t} : /\ y.sb[u] = x.sb[u] /\ y.pending[u] = x.pending[u]
                              /\ y.appended[u] = x.appended[u] /\ y.ranges[u] = x.ranges[u]
  BY <1>2, <1>6, <1>9
<1>11. /\ y.sb[t].there = x.sb[t].there /\ y.sb[t].op # "append"
       /\ y.sb[t].buffered = x.sb[t].buffered
       /\ y.ranges[t] = x.ranges[t] \o runs /\ y.pending[t] = <<>> /\ y.appended[t] = <<>>
  BY <1>2, <1>6, <1>9
<1>12. OthersKept(x, y, t)
  <2>1. /\ y.inits = x.inits /\ y.lastInit = x.lastInit /\ y.eos = x.eos /\ y.early = x.early
        /\ y.refused = x.refused /\ y.duration = x.duration /\ y.unmade = x.unmade
    BY <1>2, <1>6, <1>9 DEF Stays
  <2>2. ASSUME NEW u \in Types \ {t}
        PROVE  /\ Updating(x, u) => Updating(y, u)
               /\ x.pending[u] = <<>> => y.pending[u] = <<>>
               /\ Row(y, u) = Row(x, u)
               /\ \A l \in Nat : Cleared(x, u, l) => Cleared(y, u, l)
               /\ x.ranges[u] = <<>> => y.ranges[u] = <<>>
    BY <1>10 DEF Updating, Row, Cleared
  <2>3. \A u \in Types : y.sb[u].there = x.sb[u].there
    BY <1>10, <1>11
  <2>4. QED
    BY <2>1, <2>2, <2>3 DEF OthersKept
<1>13. ASSUME NEW l \in Nat PROVE Cleared(y, t, l)
  <2>1. x.ranges[t] \in Seq(SUBSET Nat)
    BY <1>1, Fields
  <2>2. /\ \A j \in DOMAIN runs : \E i \in DOMAIN y.ranges[t] : y.ranges[t][i] = runs[j]
        /\ y.ranges[t] = <<>> => runs = <<>>
    <3> DEFINE a0 == x.ranges[t]
    <3>0. a0 \in Seq(SUBSET Nat)
      BY <2>1
    <3>2. y.ranges[t] = a0 \o runs
      BY <1>11
    <3> HIDE DEF a0
    <3>1. /\ \A j \in DOMAIN runs : \E i \in DOMAIN (a0 \o runs) : (a0 \o runs)[i] = runs[j]
          /\ a0 \o runs = <<>> => runs = <<>>
      BY <1>3, <3>0, InARow
    <3>3. QED
      BY <3>1, <3>2, Zenon
  <2>3. ASSUME NEW s \in y.sb[t].buffered PROVE \E i \in DOMAIN y.ranges[t] : s.n \in y.ranges[t][i]
    <3>1. s.n \in Places(x, t)
      BY <1>11, <2>3 DEF Places
    <3>2. QED
      BY <1>3, <2>2, <3>1
  <2>4. y.ranges[t] = <<>> => y.sb[t].buffered = {}
    BY <2>3
  <2>5. MediaOf(Range(<<>>)) = {}
    BY DEF MediaOf, Range
  <2>6. /\ DOMAIN y.pending[t] = {} /\ DOMAIN y.appended[t] = {}
        /\ MediaOf(Range(y.appended[t])) = {}
    BY <1>11, <2>5
  <2>7. y.sb[t].op # "append"
    BY <1>11
  <2> DEFINE b0 == y.sb[t]
             p0 == y.pending[t]
             a0 == y.appended[t]
             r0 == y.ranges[t]
  <2>8. ClearedBuffer(b0, p0, a0, r0, l)
    <3>1. /\ DOMAIN p0 = {} /\ DOMAIN a0 = {} /\ MediaOf(Range(a0)) = {} /\ b0.op # "append"
          /\ r0 = <<>> => b0.buffered = {}
          /\ \A s \in b0.buffered : \E i \in DOMAIN r0 : s.n \in r0[i]
      BY <2>3, <2>4, <2>6, <2>7
    <3> HIDE DEF b0, p0, a0, r0
    <3>2. QED
      BY <3>1 DEF ClearedBuffer
  <2>9. QED
    BY <2>8 DEF Cleared
<1>14. QED
  BY <1>7, <1>9, <1>10, <1>11, <1>12, <1>13

\* The places of a set of naturals are its members.
LEMMA NthIn ==
  ASSUME NEW S, S \subseteq Nat, IsFiniteSet(S), NEW i \in 1 .. Cardinality(S)
  PROVE  Nth(S, i) \in S
<1> DEFINE n == Cardinality(S)
           upTo(c) == {b \in S : b <= c}
           f == [a \in S |-> CHOOSE j \in 1 .. n : Nth(S, j) = a]
           T == {f[a] : a \in S}
<1>0. n \in Nat
  BY FS_CardinalityType
<1>1. ASSUME NEW a \in S PROVE f[a] \in 1 .. n /\ Nth(S, f[a]) = a
  <2>1. \E j \in 1 .. n : Nth(S, j) = a
    BY NthStart
  <2> HIDE DEF n
  <2>2. QED
    BY <2>1
<1> HIDE DEF n
<1>2. f \in [S -> 1 .. n] /\ DOMAIN f = S
  BY <1>1
<1> HIDE DEF f
<1>3. IsFiniteSet(1 .. n) /\ Cardinality(1 .. n) = n
  BY <1>0, FS_Interval
<1>4. f \in Injection(S, 1 .. n)
  <2>1. ASSUME NEW a \in S, NEW b \in S, f[a] = f[b] PROVE a = b
    BY <1>1, <2>1
  <2>2. QED
    BY <1>2, <2>1 DEF Injection, IsInjective
<1>5. f \in Surjection(S, 1 .. n)
  BY <1>3, <1>4, FS_Injection DEF n
<1>6. \E a \in S : f[a] = i
  BY <1>5 DEF Surjection, n
<1>7. QED
  BY <1>1, <1>6

\* What a load from a later place brings has no init segments.
LEMMA LoadsFrom ==
  ASSUME NEW place \in Nat \ {0}
  PROVE  /\ LoadFrom(place) \in Seq(Types \X (0 .. Duration))
         /\ \A i \in DOMAIN LoadFrom(place) : LoadFrom(place)[i][2] # Init0
<1> DEFINE at == {i \in DOMAIN Feed : Feed[i][2] >= place}
           k == Cardinality(at)
           w == [i \in 1 .. k |-> Feed[Nth(at, i)]]
<1>1. Feed \in Seq(Types \X (0 .. Duration)) /\ Duration \in Nat
  BY MSEAssumption
<1>2. IsFiniteSet(at) /\ at \subseteq Nat /\ at \subseteq DOMAIN Feed
  <2>1. DOMAIN Feed = 1 .. Len(Feed) /\ Len(Feed) \in Nat
    BY <1>1
  <2>2. IsFiniteSet(DOMAIN Feed)
    BY <2>1, FS_Interval
  <2>3. at \in SUBSET DOMAIN Feed
    OBVIOUS
  <2> HIDE DEF at
  <2>4. QED
    BY <2>1, <2>2, <2>3, FS_Subset
<1>3. \A j \in at : Feed[j] \in Types \X (0 .. Duration) /\ Feed[j][2] # Init0
  BY <1>1 DEF Init0
<1>4. LoadFrom(place) = w
  BY DEF LoadFrom
<1> HIDE DEF at
<1>5. k \in Nat
  BY <1>2, FS_CardinalityType
<1>6. ASSUME NEW i \in 1 .. k PROVE Nth(at, i) \in at
  BY <1>2, NthIn
<1> HIDE DEF k
<1>7. \A i \in 1 .. k : w[i] \in Types \X (0 .. Duration) /\ w[i][2] # Init0
  BY <1>3, <1>6
<1>8. w \in [1 .. k -> Types \X (0 .. Duration)]
  BY <1>7
<1> HIDE DEF w
<1>9. w \in Seq(Types \X (0 .. Duration)) /\ DOMAIN w = 1 .. k
  BY <1>5, <1>8
<1>10. QED
  BY <1>4, <1>7, <1>9

\* The type after a seek is given its first segment, if it is given one.
Anew(x, t) ==
  IF config.safari /\ x.lastInit[t] THEN <<[n |-> Init0, load |-> load + 1]>> ELSE <<>>

\* What a seek leaves of one type's buffer and queues.
Sought(x, y, t) ==
  /\ Sound(y) /\ OthersKept(x, y, t)
  /\ Row(y, t) = Anew(x, t) /\ Cleared(y, t, load + 1)
  /\ ~Mends /\ ~y.refused /\ ~Updating(y, t) => y.pending[t] = <<>> /\ y.ranges[t] = <<>>

\* What goes forward after a seek of one type keeps the other one.
LEMMA OthersTrans ==
  ASSUME NEW x, NEW y, NEW z, NEW t \in Types, OthersKept(x, y, t),
         Forward(y, z), SameThere(y, z), StillCleared(y, z),
         \A u \in Types : y.ranges[u] = <<>> => z.ranges[u] = <<>>
  PROVE  OthersKept(x, z, t)
<1>1. /\ z.inits = x.inits /\ z.lastInit = x.lastInit /\ z.eos = x.eos /\ z.early = x.early
      /\ x.refused => z.refused
      /\ z.duration => x.duration \/ Mends
      /\ z.unmade = x.unmade
      /\ \A u \in Types : z.sb[u].there = x.sb[u].there
  BY Zenon DEF OthersKept, Forward, SameThere
<1>2. ASSUME NEW u \in Types \ {t}
      PROVE  /\ Updating(x, u) => Updating(z, u)
             /\ x.pending[u] = <<>> => z.pending[u] = <<>>
             /\ Row(z, u) = Row(x, u)
             /\ \A l \in Nat : Cleared(x, u, l) => Cleared(z, u, l)
             /\ x.ranges[u] = <<>> => z.ranges[u] = <<>>
  <2>0. u \in Types
    OBVIOUS
  <2>1. /\ Updating(x, u) => Updating(y, u)
        /\ x.pending[u] = <<>> => y.pending[u] = <<>>
        /\ Row(y, u) = Row(x, u)
        /\ \A l \in Nat : Cleared(x, u, l) => Cleared(y, u, l)
        /\ x.ranges[u] = <<>> => y.ranges[u] = <<>>
    BY DEF OthersKept
  <2>2. /\ Updating(y, u) => Updating(z, u)
        /\ y.pending[u] = <<>> => z.pending[u] = <<>>
        /\ Row(z, u) = Row(y, u)
        /\ \A l \in Nat : Cleared(y, u, l) => Cleared(z, u, l)
        /\ y.ranges[u] = <<>> => z.ranges[u] = <<>>
    BY <2>0 DEF Forward, StillCleared
  <2>3. QED
    BY <2>1, <2>2
<1>3. QED
  BY <1>1, <1>2, Zenon DEF OthersKept

\* What SeekOf does.
LEMMA Seeks ==
  ASSUME NEW x, NEW t \in Types, NEW o \in Outcomes, Sound(x), x.sb[t].there, load \in Nat
  PROVE  Sought(x, SeekOf(x, t, o), t)
<1> DEFINE emptied == Emptied(x, t)
           removed == IF Updating(emptied, t) THEN emptied ELSE DoRemoveRanges(emptied)
           segs    == IF x.lastInit[t] THEN <<[n |-> Init0, load |-> load + 1]>> ELSE removed.pending[t]
           again   == [removed EXCEPT !.pending[t] = segs]
           y == SeekOf(x, t, o)
<1>0. SUFFICES Sought(x, y, t)
  OBVIOUS
<1>1. y = IF ~config.safari THEN removed
          ELSE IF Updating(again, t) THEN again ELSE DoAppendSegments(again, o)
  BY Zenon DEF SeekOf
<1> HIDE DEF y
<1>2. /\ Sound(emptied) /\ OthersKept(x, emptied, t)
      /\ emptied.pending[t] = <<>> /\ emptied.appended[t] = <<>>
      /\ \A u \in Types \ {t} : emptied.pending[u] = x.pending[u]
      /\ \A l \in Nat : Cleared(emptied, t, l)
  BY Empties
<1>2t. emptied.sb[t].there
  BY <1>2 DEF OthersKept
<1> HIDE DEF emptied
<1>3. /\ Sound(removed) /\ removed.sb[t].there /\ OthersKept(x, removed, t)
      /\ removed.pending[t] = <<>> /\ removed.appended[t] = <<>>
      /\ \A u \in Types \ {t} : removed.pending[u] = x.pending[u]
      /\ \A l \in Nat : Cleared(removed, t, l)
      /\ Updating(removed, t) \/ Ready(removed)
      /\ removed.ranges[t] # <<>> => Updating(removed, t)
  <2>1. CASE Updating(emptied, t)
    BY <1>2, <1>2t, <2>1
  <2>2. CASE ~Updating(emptied, t)
    <3> DEFINE z == DoRemoveRanges(emptied)
    <3>1. /\ Sound(z) /\ Forward(emptied, z) /\ SameThere(emptied, z) /\ StillCleared(emptied, z)
          /\ z.pending = emptied.pending /\ z.appended = emptied.appended
          /\ \A u \in Types : /\ emptied.sb[u].there => Updating(z, u) \/ z.ranges[u] = <<>>
                              /\ emptied.ranges[u] = <<>> => z.ranges[u] = <<>>
      BY <1>2, RemovesAll
    <3> HIDE DEF z
    <3>2. OthersKept(x, z, t)
      BY <1>2, <3>1, OthersTrans
    <3>3. z.sb[t].there /\ Ready(z)
      <4>1. z.sb[t].there
        BY <1>2t, <3>1 DEF SameThere
      <4>2. ASSUME NEW u \in Types, z.sb[u].op = "idle" PROVE z.ranges[u] = <<>>
        BY <3>1, <4>2, SoundAt DEF SameThere, Updating
      <4>3. QED
        BY <4>1, <4>2 DEF Ready
    <3>4. \A l \in Nat : Cleared(z, t, l)
      BY <1>2, <3>1 DEF StillCleared
    <3>5. removed = z
      BY <2>2 DEF z
    <3>6. z.ranges[t] # <<>> => Updating(z, t)
      BY <1>2t, <3>1
    <3> HIDE DEF removed
    <3>7. QED
      BY <1>2, <3>1, <3>2, <3>3, <3>4, <3>5, <3>6
  <2>3. QED
    BY <2>1, <2>2
<1> HIDE DEF removed
<1>4. CASE ~config.safari
  <2>1. y = removed
    BY <1>1, <1>4
  <2>2. Row(removed, t) = <<>>
    BY <1>3 DEF Row
  <2>3. Cleared(removed, t, load + 1)
    BY <1>3
  <2>4. QED
    BY <1>3, <1>4, <2>1, <2>2, <2>3 DEF Sought, Anew
<1>5. CASE config.safari
  <2>1. removed \in Controllers /\ removed.pending \in [Types -> Seq(Segments)]
    BY <1>3, Fields DEF Sound
  <2>2. segs \in Seq(Segments) /\ segs = Anew(x, t) /\ \A i \in DOMAIN segs : segs[i].load = load + 1
    <3>1. [n |-> Init0, load |-> load + 1] \in Segments
      BY Constants DEF Segments, Init0
    <3>2. QED
      BY <1>3, <1>5, <3>1 DEF Anew
  <2> HIDE DEF segs
  <2>3. again \in Controllers
    <3>1. [removed.pending EXCEPT ![t] = segs] \in [Types -> Seq(Segments)]
      BY <2>1, <2>2
    <3>2. QED
      BY <2>1, <3>1, Changed
  <2>4. /\ Stays(removed, again) /\ again.refused = removed.refused
        /\ again.sb = removed.sb /\ again.ranges = removed.ranges
        /\ again.appended = removed.appended
        /\ again.pending[t] = segs /\ \A u \in Types \ {t} : again.pending[u] = removed.pending[u]
    BY <2>1 DEF Controllers, Stays
  <2>5. y = IF Updating(again, t) THEN again ELSE DoAppendSegments(again, o)
    BY <1>1, <1>5 DEF segs
  <2> HIDE DEF again
  <2>6. Sound(again) /\ again.sb[t].there
    <3>1. Sound(again)
      BY <1>3, <2>3, <2>4, SoundAt, SoundBy
    <3>2. QED
      BY <1>3, <2>4, <3>1
  <2>7. OthersKept(x, again, t)
    <3>1. OthersKept(x, removed, t)
      BY <1>3
    <3>2. ASSUME NEW u \in Types \ {t}
          PROVE  /\ Updating(removed, u) => Updating(again, u)
                 /\ again.pending[u] = removed.pending[u]
                 /\ Row(again, u) = Row(removed, u)
                 /\ \A l \in Nat : Cleared(removed, u, l) => Cleared(again, u, l)
                 /\ removed.ranges[u] = again.ranges[u]
      BY <2>4 DEF Updating, Row, Cleared
    <3>3. /\ again.inits = removed.inits /\ again.lastInit = removed.lastInit
          /\ again.eos = removed.eos /\ again.early = removed.early
          /\ again.duration = removed.duration /\ again.unmade = removed.unmade
          /\ again.refused = removed.refused
          /\ \A u \in Types : again.sb[u].there = removed.sb[u].there
      BY <2>4 DEF Stays
    <3>4. QED
      BY <3>1, <3>2, <3>3 DEF OthersKept
  <2>8. Row(again, t) = Anew(x, t)
    <3>1. Row(again, t) = <<>> \o segs
      BY <1>3, <2>4, Zenon DEF Row
    <3>2. <<>> \o segs = segs
      BY <2>2
    <3>3. QED
      BY <2>2, <3>1, <3>2, Zenon
  <2>9. Cleared(again, t, load + 1)
    <3>1. Cleared(removed, t, load + 1)
      BY <1>3
    <3>2. QED
      BY <2>2, <2>4, <3>1 DEF Cleared, ClearedBuffer
  <2>10. CASE Updating(again, t)
    BY <1>5, <2>5, <2>6, <2>7, <2>8, <2>9, <2>10 DEF Sought
  <2>11. CASE ~Updating(again, t)
    <3>1. y = DoAppendSegments(again, o)
      BY <2>5, <2>11
    <3>2. Ready(again)
      BY <1>3, <2>4, <2>11 DEF Ready, Updating
    <3>3. /\ Sound(y) /\ Forward(again, y) /\ SameThere(again, y)
          /\ y.ranges = again.ranges /\ StillCleared(again, y)
          /\ ~y.refused /\ again.sb[t].there /\ again.pending[t] # <<>> => Given(again, y, t)
      BY <2>6, <3>1, <3>2, AppendsAll
    <3>4. OthersKept(x, y, t)
      BY <2>7, <3>3, OthersTrans
    <3>5. ~Mends /\ ~y.refused /\ ~Updating(y, t) => y.pending[t] = <<>> /\ y.ranges[t] = <<>>
      <4>1. again.ranges[t] = <<>>
        BY <2>11, <3>2 DEF Ready, Updating
      <4>2. ~Mends => ~Empty(t, Head(again.pending[t]))
        BY <1>5 DEF Empty, Mends
      <4>3. y.pending[t] # <<>> => again.pending[t] # <<>>
        BY <3>3 DEF Forward
      <4>4. QED
        BY <2>6, <3>3, <4>1, <4>2, <4>3 DEF Given
    <3>6. Row(y, t) = Anew(x, t)
      BY <2>8, <3>3 DEF Forward
    <3>7. Cleared(y, t, load + 1)
      <4>1. load + 1 \in Nat
        OBVIOUS
      <4>2. QED
        BY <2>9, <3>3, <4>1 DEF StillCleared
    <3>8. QED
      BY <1>5, <3>3, <3>4, <3>5, <3>6, <3>7 DEF Sought
  <2>12. QED
    BY <2>10, <2>11
<1>6. QED
  BY <1>4, <1>5

-----------------------------------------------------------------------------
(* What a step has to show of the parts of the invariant. *)

\* An operation opens a source that had ended, and no other.
LEMMA Reopens ==
  ASSUME NEW y
  PROVE  /\ Reopened(y) = "ended" => source = "ended" /\ ~AnyUpdating(y)
         /\ Reopened(y) = "closed" <=> source = "closed"
         /\ Reopened(y) \in {source, "open"}
         /\ source # "ended" => Reopened(y) = source
         /\ source = "ended" /\ AnyUpdating(y) => Reopened(y) = "open"
BY DEF Reopened

\* A step that brings nothing and keeps the rows.
LEMMA RowsKept ==
  ASSUME NothingLost, Alive, brought' = brought, m.unmade \subseteq m'.unmade,
         \A u \in Types : u \notin m'.unmade => Row(m', u) = Row(m, u)
  PROVE  NothingLost'
<1>1. ASSUME NEW u \in Types \ m'.unmade PROVE brought[u] = Row(m', u)
  <2>1. u \in Types \ m.unmade /\ Row(m', u) = Row(m, u)
    OBVIOUS
  <2>2. QED
    BY <2>1 DEF NothingLost, Row
<1>2. QED
  BY <1>1, Zenon DEF NothingLost, Row

\* A step at the same position that removes nothing new.
LEMMA BehindKept ==
  ASSUME BehindInv, StillBehind(m, m'), UNCHANGED <<now, load, back>>
  PROVE  BehindInv'
BY DEF BehindInv, StillBehind, Behind

\* A step of the same load that keeps the buffers cleared.
LEMMA ClearKept ==
  ASSUME ClearInv, Alive, UNCHANGED <<config, load>>,
         ~config.auto => \A u \in Types : Cleared(m, u, load) => Cleared(m', u, load),
         ~config.auto /\ load = 0 =>
           \A u \in Types : m.ranges[u] = <<>> => m'.ranges[u] = <<>>,
         load = 0 \/ \A u \in Types : m'.sb[u].there => m.sb[u].there
  PROVE  ClearInv'
BY DEF ClearInv

\* Before the first seek, without the clean-up, nothing waits to be removed.
LEMMA FirstReady ==
  ASSUME ClearInv, Alive, ~config.auto, load = 0
  PROVE  Ready(m)
BY DEF ClearInv, Ready

\* The initial states.
LEMMA InitIInv ==
  ASSUME Init
  PROVE  IInv
<1>1. /\ \A t \in Types : /\ m.sb[t] = NoBuffer /\ m.pending[t] = <<>> /\ m.ranges[t] = <<>>
                          /\ m.appended[t] = <<>>
                          /\ m.lastInit[t] = FALSE
      /\ m.inits = <<>> /\ m.eos = FALSE /\ m.duration = FALSE /\ m.unmade = {}
  BY DEF Init
<1>2. NoBuffer \in Buffers
  <2>1. [n |-> 0, load |-> 0] \in Segments
    BY Constants DEF Segments
  <2>2. QED
    BY <2>1 DEF NoBuffer, Buffers
<1>3. m \in Controllers
  <2>1. /\ [t \in Types |-> NoBuffer] \in [Types -> Buffers]
        /\ [t \in Types |-> <<>>] \in [Types -> Seq(Segments)]
        /\ [t \in Types |-> <<>>] \in [Types -> Seq(SUBSET Nat)]
        /\ [t \in Types |-> FALSE] \in [Types -> BOOLEAN]
        /\ <<>> \in Seq(Types) /\ <<>> \in Seq(Nat)
    BY <1>2
  <2>2. {} \in SUBSET Types /\ FALSE \in BOOLEAN
    OBVIOUS
  <2>3. QED
    BY <2>1, <2>2 DEF Init, Controllers
<1>4. TypeInv
  <2>1. feed \in Feeds
    BY MSEAssumption DEF Init, Feeds
  <2>2. [t \in Types |-> <<>>] \in [Types -> Seq(Segments)]
    OBVIOUS
  <2>3. QED
    BY <1>3, <2>1, <2>2 DEF Init, TypeInv
<1>5. Sound(m) /\ NothingLost /\ BehindInv
  <2>1. Sound(m)
    BY <1>1, <1>3 DEF Sound, NoBuffer
  <2>2. NothingLost
    BY <1>1 DEF Init, NothingLost
  <2>3. BehindInv
    BY <1>1 DEF BehindInv, Behind, NoBuffer
  <2>4. QED
    BY <2>1, <2>2, <2>3
<1>6. ClearInv
  <2>1. ASSUME NEW t \in Types PROVE Cleared(m, t, load)
    <3>1. ClearedBuffer(NoBuffer, <<>>, <<>>, <<>>, load)
      <4>1. MediaOf(Range(<<>>)) = {}
        BY DEF MediaOf, Range
      <4>2. QED
        BY <4>1 DEF ClearedBuffer, NoBuffer
    <3>2. QED
      BY <1>1, <3>1 DEF Cleared
  <2>2. QED
    BY <1>1, <2>1 DEF ClearInv
<1>7. PhaseInv
  <2>1. feed.left = Feed /\ feed.complete = FALSE /\ source = "closed" /\ opening = "awaited" /\ load = 0
    BY DEF Init
  <2>2. ASSUME NEW i \in DOMAIN feed.left PROVE Led(feed.left[i][1], i)
    BY <2>1, MSEAssumption DEF Led, Init0
  <2>3. QED
    BY <1>1, <2>1, <2>2 DEF PhaseInv, NoBuffer, Known
<1>8. StallInv
  BY DEF Init, StallInv
<1>9. QED
  BY <1>3, <1>4, <1>5, <1>6, <1>7, <1>8 DEF IInv

\* The steps that leave the controller alone.
LEMMA SourceOpensIInv ==
  ASSUME IInv, SourceOpens
  PROVE  IInv'
<1>1. /\ source = "closed" /\ source' = "open" /\ opening' = "due"
      /\ UNCHANGED <<m, feed, now, config, load, brought, back>>
  BY DEF SourceOpens
<1>2. Alive /\ Alive'
  BY <1>1 DEF Alive
<1>3. TypeInv' /\ Sound(m')
  BY <1>1 DEF IInv, TypeInv
<1>4. NothingLost' /\ BehindInv'
  BY <1>1, <1>2 DEF IInv, NothingLost, BehindInv, Behind
<1>5. ClearInv'
  BY <1>1, <1>2 DEF IInv, ClearInv, Cleared
<1>6. PhaseInv'
  <2>1. ASSUME NEW t, NEW i, Led(t, i) PROVE Led(t, i)'
    BY <1>1, <2>1 DEF Led
  <2>2. QED
    BY <1>1, <1>2, <2>1 DEF IInv, PhaseInv, AnyUpdating, Updating, HasPendingSegments, Known, Mends
<1>7. StallInv'
  BY <1>1, <1>2 DEF IInv, StallInv, PhaseInv, Busy, Updating, HasPendingSegments, HasPendingRemoveRanges, Mends
<1>8. QED
  BY <1>3, <1>4, <1>5, <1>6, <1>7 DEF IInv

\* The source has ended before its event is handled.
LEMMA HangsIInv ==
  ASSUME IInv, OnSourceOpenHangs
  PROVE  IInv'
<1>1. /\ source' = "hung" /\ opening' = "done"
      /\ UNCHANGED <<m, feed, now, config, load, brought, back>>
  BY DEF OnSourceOpenHangs
<1>2. ~Alive'
  BY <1>1 DEF Alive
<1>3. TypeInv' /\ Sound(m')
  BY <1>1 DEF IInv, TypeInv
<1>4. BehindInv'
  BY <1>1 DEF IInv, BehindInv, Behind
<1>5. NothingLost' /\ ClearInv' /\ PhaseInv' /\ StallInv'
  BY <1>2 DEF NothingLost, ClearInv, PhaseInv, StallInv
<1>6. QED
  BY <1>3, <1>4, <1>5 DEF IInv

\* Playback goes on.
LEMMA PlayIInv ==
  ASSUME IInv, Play
  PROVE  IInv'
<1>1. /\ Alive /\ UNCHANGED <<source, opening, m, feed, config, load, brought>>
      /\ now' \in 1 .. Duration /\ back' = (back \/ now' < now)
  BY DEF Play
<1>2. Alive'
  BY <1>1 DEF Alive
<1>3. TypeInv' /\ Sound(m')
  BY <1>1, Constants DEF IInv, TypeInv
<1>4. BehindInv'
  <2>1. SUFFICES ASSUME load = 0, ~back' PROVE \A t \in Types : Behind(m, t)'
    BY <1>1 DEF BehindInv
  <2>2. now \in Nat /\ now' \in Nat /\ now <= now' /\ \A t \in Types : Behind(m, t)
    <3>1. ~back /\ ~(now' < now)
      BY <1>1, <2>1, Zenon
    <3>2. now \in Nat /\ now' \in Nat /\ BehindInv
      BY <1>1, Constants DEF IInv, TypeInv
    <3>3. QED
      BY <2>1, <3>1, <3>2 DEF BehindInv
  <2>3. ASSUME NEW n \in Nat, n < now PROVE n < now'
    BY <2>2, <2>3
  <2>4. ASSUME NEW t \in Types PROVE Behind(m, t)'
    <3>1. m.ranges[t] \in Seq(SUBSET Nat) /\ m.sb[t].range \subseteq Nat
      BY Fields, BufferFields DEF IInv, TypeInv
    <3>2. \A i \in DOMAIN m.ranges[t] : m.ranges[t][i] \subseteq Nat
      BY <3>1
    <3>3. QED
      BY <1>1, <2>2, <2>3, <3>1, <3>2 DEF Behind
  <2>5. QED
    BY <2>4
<1>5. NothingLost' /\ ClearInv'
  BY <1>1, <1>2 DEF IInv, NothingLost, ClearInv, Cleared
<1>6. PhaseInv'
  <2>1. ASSUME NEW t, NEW i, Led(t, i) PROVE Led(t, i)'
    BY <1>1, <2>1 DEF Led
  <2>2. QED
    BY <1>1, <1>2, <2>1 DEF IInv, PhaseInv, AnyUpdating, Updating, HasPendingSegments, Known, Mends
<1>7. StallInv'
  BY <1>1, <1>2 DEF IInv, StallInv, Busy, Updating, HasPendingSegments, HasPendingRemoveRanges, Mends
<1>8. QED
  BY <1>3, <1>4, <1>5, <1>6, <1>7 DEF IInv

\* The media element is detached.
LEMMA DetachIInv ==
  ASSUME IInv, DetachMediaElement
  PROVE  IInv'
<1>1. /\ source' = "detached" /\ UNCHANGED <<opening, feed, now, config, load, brought, back>>
      /\ m' = [m EXCEPT !.sb = [t \in Types |-> NoBuffer], !.pending = [t \in Types |-> <<>>],
                    !.ranges = [t \in Types |-> <<>>], !.lastInit = [t \in Types |-> FALSE],
                    !.inits = <<>>, !.appended = [t \in Types |-> <<>>], !.full = FALSE, !.idr = <<>>]
  BY DEF DetachMediaElement
<1>2. ~Alive' /\ m \in Controllers
  BY <1>1 DEF Alive, IInv, TypeInv
<1>3. m' \in Controllers
  <2>1. NoBuffer \in Buffers
    <3>1. [n |-> 0, load |-> 0] \in Segments
      BY Constants DEF Segments
    <3>2. QED
      BY <3>1 DEF NoBuffer, Buffers
  <2>2. /\ [t \in Types |-> NoBuffer] \in [Types -> Buffers]
        /\ [t \in Types |-> <<>>] \in [Types -> Seq(Segments)]
        /\ [t \in Types |-> <<>>] \in [Types -> Seq(SUBSET Nat)]
        /\ [t \in Types |-> FALSE] \in [Types -> BOOLEAN]
        /\ <<>> \in Seq(Types) /\ <<>> \in Seq(Nat)
    BY <2>1
  <2>3. QED
    BY <1>1, <1>2, <2>2 DEF Controllers
<1>4. \A t \in Types : m'.sb[t] = NoBuffer /\ m'.ranges[t] = <<>> /\ m'.appended[t] = <<>>
  BY <1>1, <1>2 DEF Controllers
<1>5. TypeInv' /\ Sound(m') /\ BehindInv'
  <2>1. TypeInv'
    BY <1>1, <1>3 DEF IInv, TypeInv
  <2>2. Sound(m')
    BY <1>3, <1>4 DEF Sound, NoBuffer
  <2>3. BehindInv'
    BY <1>4 DEF BehindInv, Behind, NoBuffer
  <2>4. QED
    BY <2>1, <2>2, <2>3
<1>6. NothingLost' /\ ClearInv' /\ PhaseInv' /\ StallInv'
  BY <1>2 DEF NothingLost, ClearInv, PhaseInv, StallInv
<1>7. QED
  BY <1>5, <1>6 DEF IInv

\* The end of the load is marked, or noted.
LEMMA MarksEnd ==
  ASSUME NEW x, NEW complete \in BOOLEAN, Sound(x), source \in {"closed", "open", "ended"}
  PROVE  LET y == EndOfStream(x, complete)
         IN  /\ Sound(y) /\ Rests(x, y) /\ y.inits = x.inits /\ y.duration = x.duration
             /\ y.lastInit = x.lastInit /\ y.unmade = x.unmade
             /\ y.refused = x.refused /\ (x.early => y.early)
             /\ source = "open" =>
                  /\ y.eos = AnyUpdating(x)
                  /\ ~y.early /\ ~AnyUpdating(x) =>
                       complete /\ ~HasPendingSegments(x) /\ ~HasPendingRemoveRanges(x)
             /\ source = "closed" => y.eos = (x.eos \/ HasPendingSegments(x))
             /\ source = "ended" => y.eos = x.eos
<1> DEFINE e == x.early \/ (~AnyUpdating(x) /\ (HasPendingSegments(x) \/ HasPendingRemoveRanges(x) \/ ~complete))
           v == IF source = "open" THEN AnyUpdating(x)
                ELSE x.eos \/ (source = "closed" /\ HasPendingSegments(x))
           a == [x EXCEPT !.eos = v]
           y == IF source = "open" THEN [a EXCEPT !.early = e] ELSE a
<1>1. x \in Controllers /\ x.early \in BOOLEAN /\ x.eos \in BOOLEAN
  BY Fields DEF Sound, Types
<1>2. EndOfStream(x, complete) = y
  BY <1>1 DEF EndOfStream, Controllers
<1>3. v \in BOOLEAN /\ e \in BOOLEAN
  BY <1>1 DEF AnyUpdating
<1>v. /\ source = "open" => v = AnyUpdating(x)
      /\ source = "closed" => v = (x.eos \/ HasPendingSegments(x))
      /\ source = "ended" => v = x.eos
  BY <1>1, Zenon
<1>e. /\ x.early => e
      /\ ~e /\ ~AnyUpdating(x) => complete /\ ~HasPendingSegments(x) /\ ~HasPendingRemoveRanges(x)
  OBVIOUS
<1> HIDE DEF v, e
<1>4. a \in Controllers /\ a.eos = v /\ Rests(x, a) /\ a.inits = x.inits /\ a.duration = x.duration
      /\ a.refused = x.refused /\ a.early = x.early
      /\ a.lastInit = x.lastInit /\ a.unmade = x.unmade
  <2>1. a \in Controllers
    BY <1>1, <1>3, Changed
  <2>2. QED
    BY <1>1, <2>1 DEF Controllers, Rests
<1> HIDE DEF a
<1>5. /\ y \in Controllers /\ y.eos = v /\ Rests(x, y) /\ y.inits = x.inits
      /\ y.duration = x.duration /\ y.refused = x.refused
      /\ y.lastInit = x.lastInit /\ y.unmade = x.unmade
      /\ y.early = IF source = "open" THEN e ELSE x.early
  <2>1. [a EXCEPT !.early = e] \in Controllers
    BY <1>3, <1>4, Changed
  <2> DEFINE z == [a EXCEPT !.early = e]
  <2>2. /\ z.eos = a.eos /\ Rests(a, z) /\ z.inits = a.inits /\ z.duration = a.duration
        /\ z.refused = a.refused /\ z.early = e
        /\ z.lastInit = a.lastInit /\ z.unmade = a.unmade
    BY <1>4 DEF Controllers, Rests
  <2> HIDE DEF z
  <2>3. Rests(x, z)
    BY <1>4, <2>2 DEF Rests
  <2>4. QED
    BY <1>4, <2>1, <2>2, <2>3 DEF z
<1> HIDE DEF y
<1>6. Sound(y)
  BY <1>5 DEF Sound, Rests
<1>7. QED
  BY <1>2, <1>5, <1>6, <1>v, <1>e

\* The transmuxer has brought the last segment.
LEMMA CompleteIInv ==
  ASSUME IInv, LoadingComplete
  PROVE  IInv'
<1>1. /\ Alive /\ ~feed.complete /\ feed.left = <<>>
      /\ feed' = [feed EXCEPT !.complete = TRUE]
      /\ m' = EndOfStream(m, TRUE) /\ source' = EndedBy(m)
      /\ UNCHANGED <<opening, now, config, load, brought, back>>
  BY DEF LoadingComplete
<1>2. TypeInv /\ Sound(m) /\ PhaseInv /\ StallInv /\ NothingLost /\ BehindInv /\ ClearInv
  BY DEF IInv
<1>3. source \in {"closed", "open", "ended"}
  BY <1>1, <1>2 DEF TypeInv, Alive
<1>4. /\ Sound(m') /\ Rests(m, m') /\ m'.inits = m.inits /\ m'.duration = m.duration
      /\ m'.lastInit = m.lastInit /\ m'.unmade = m.unmade
      /\ m'.refused = m.refused /\ (m.early => m'.early)
      /\ source = "open" =>
           /\ m'.eos = AnyUpdating(m)
           /\ ~m'.early /\ ~AnyUpdating(m) => ~HasPendingSegments(m) /\ ~HasPendingRemoveRanges(m)
      /\ source = "closed" => m'.eos = (m.eos \/ HasPendingSegments(m))
  BY <1>1, <1>2, <1>3, MarksEnd
<1>5. /\ source = "open" => source' = IF AnyUpdating(m) THEN "open" ELSE "ended"
      /\ source # "open" => source' = source
  BY <1>1 DEF EndedBy
<1>6. feed' \in Feeds /\ feed'.left = <<>> /\ feed'.complete = TRUE
  BY <1>1, <1>2 DEF TypeInv, Feeds
<1>7. m' \in Controllers
  BY <1>4 DEF Sound
<1>a. /\ \A t \in Types : Updating(m', t) = Updating(m, t)
      /\ AnyUpdating(m') = AnyUpdating(m) /\ Busy(m') = Busy(m)
      /\ HasPendingSegments(m') = HasPendingSegments(m)
      /\ HasPendingRemoveRanges(m') = HasPendingRemoveRanges(m)
      /\ \A t \in Types : Row(m', t) = Row(m, t)
  BY <1>4 DEF Rests, Updating, AnyUpdating, Busy, HasPendingSegments, HasPendingRemoveRanges, Row
<1>b. source' \in {"closed", "open", "ended"} /\ Alive'
  BY <1>3, <1>5 DEF Alive
<1>8. TypeInv'
  BY <1>1, <1>2, <1>6, <1>7, <1>b DEF TypeInv
<1>9. NothingLost' /\ BehindInv' /\ ClearInv'
  <2>1. StillBehind(m, m')
    BY <1>4 DEF StillBehind, Behind, Rests
  <2>2. \A u \in Types : /\ Cleared(m, u, load) => Cleared(m', u, load)
                         /\ m.ranges[u] = <<>> => m'.ranges[u] = <<>>
                         /\ m'.sb[u].there => m.sb[u].there
    BY <1>4 DEF Cleared, Rests
  <2>3. NothingLost'
    BY <1>1, <1>2, <1>4, <1>a, RowsKept
  <2>4. BehindInv'
    BY <1>1, <1>2, <2>1, BehindKept
  <2>5. ClearInv'
    BY <1>1, <1>2, <2>2, ClearKept
  <2>6. QED
    BY <2>3, <2>4, <2>5
<1>10. PhaseInv'
  <2>1. source' = "closed" <=> opening' = "awaited"
    BY <1>1, <1>2, <1>3, <1>5 DEF PhaseInv
  <2>2. source' = "closed" => /\ \A t \in Types : ~m'.sb[t].there
                              /\ feed'.left = Feed \/ HasPendingSegments(m')
    <3>1. source' = "closed" => source = "closed"
      BY <1>5
    <3>2. QED
      BY <1>1, <1>2, <1>4, <1>6, <1>a, <3>1 DEF PhaseInv, Rests
  <2>3. source' = "ended" => ~AnyUpdating(m')
    BY <1>1, <1>2, <1>5, <1>a DEF PhaseInv
  <2>4. /\ opening' # "done" => load' = 0
        /\ opening' = "done" => m'.inits = <<>>
        /\ load' > 0 => \A t \in Types : m'.sb[t].there \/ t \in m'.unmade
        /\ \A t \in Types : m'.pending[t] # <<>> =>
             m'.sb[t].there \/ t \in m'.unmade \/ t \in Range(m'.inits)
        /\ m'.duration => Mends'
    BY <1>1, <1>2, <1>4 DEF PhaseInv, Rests, Mends
  <2>5. DOMAIN feed'.left = {}
    BY <1>6
  <2>6. Known(m')
    BY <1>1, <1>2, <1>4 DEF PhaseInv, Rests, Known
  <2>7. QED
    BY <1>6, <2>1, <2>2, <2>3, <2>4, <2>5, <2>6 DEF PhaseInv
<1>11. StallInv'
  <2>1. SUFFICES ASSUME ~m'.refused, ~m'.early, m'.unmade = {}, ~Mends
                 PROVE  /\ source' = "ended" => ~HasPendingSegments(m') /\ ~HasPendingRemoveRanges(m')
                        /\ source' # "ended" =>
                             /\ m'.eos
                             /\ Busy(m') \/ m'.skipped \/ (opening' # "done" /\ HasPendingSegments(m'))
    BY <1>1 DEF StallInv, Mends
  <2>2. ~m.refused /\ ~m.early /\ m.unmade = {}
    BY <1>4, <2>1
  <2>3. CASE source = "open"
    BY <1>4, <1>5, <1>a, <2>1, <2>3 DEF Busy, AnyUpdating
  <2>4. CASE source = "ended"
    BY <1>1, <1>2, <1>5, <1>a, <2>1, <2>2, <2>4 DEF StallInv
  <2>5. CASE source = "closed"
    <3>1. HasPendingSegments(m)
      BY <1>1, <1>2, <2>5, MSEAssumption DEF PhaseInv
    <3>2. opening' # "done"
      BY <1>1, <1>2, <2>5 DEF PhaseInv
    <3>3. QED
      BY <1>4, <1>5, <1>a, <2>5, <3>1, <3>2
  <2>6. QED
    BY <1>3, <2>3, <2>4, <2>5
<1>12. QED
  BY <1>4, <1>8, <1>9, <1>10, <1>11 DEF IInv

\* The source is open: the init segments that waited make their buffers, and
\* what waited behind them is appended.
LEMMA OpenIInv ==
  ASSUME IInv, OnSourceOpen
  PROVE  IInv'
<1>0. PICK o \in Outcomes, failing \in SUBSET (1 .. Len(m.inits)) :
        m' = LET ready == [Opened(m, failing, o)[Len(m.inits)] EXCEPT !.inits = <<>>]
             IN  IF HasPendingSegments(ready) THEN DoAppendSegments(ready, o) ELSE ready
  BY DEF OnSourceOpen
<1> DEFINE y0    == Opened(m, failing, o)[Len(m.inits)]
           ready == [y0 EXCEPT !.inits = <<>>]
<1>1. /\ Alive /\ opening = "due" /\ opening' = "done" /\ (source # "ended" \/ m.inits = <<>>)
      /\ source' = Reopened(m')
      /\ UNCHANGED <<feed, now, config, load, brought, back>>
  BY DEF OnSourceOpen
<1>2. TypeInv /\ Sound(m) /\ PhaseInv /\ StallInv /\ NothingLost /\ BehindInv /\ ClearInv
  BY DEF IInv
<1>3. source \in {"open", "ended"} /\ load = 0
  BY <1>1, <1>2 DEF TypeInv, Alive, PhaseInv
<1>4. m' = IF HasPendingSegments(ready) THEN DoAppendSegments(ready, o) ELSE ready
  BY <1>0
<1>5. /\ Sound(y0) /\ Forward(m, y0) /\ StillBehind(m, y0) /\ y0.ranges = m.ranges
      /\ Ready(m) => Ready(y0) /\ StillCleared(m, y0)
      /\ \A t \in Range(m.inits) : y0.sb[t].there \/ t \in y0.unmade
  BY <1>2, OpensAll
<1>6. m.inits = <<>> => y0 = m
  <2>1. ASSUME m.inits = <<>> PROVE Opened(m, failing, o)[0] = m
    <3>1. 0 \in 0 .. Len(m.inits) /\ m \in Controllers
      BY <1>2, <2>1 DEF TypeInv
    <3>2. Opened(m, failing, o)[0] = OpenedStep(m, failing, o, Opened(m, failing, o), 0)
      BY <3>1, OpenedLoop
    <3>3. QED
      BY <3>2 DEF OpenedStep
  <2>2. QED
    BY <2>1
<1> HIDE DEF y0
<1>7. /\ ready \in Controllers /\ ready.inits = <<>> /\ Rests(y0, ready)
      /\ ready.lastInit = y0.lastInit /\ ready.eos = y0.eos /\ ready.early = y0.early
      /\ ready.refused = y0.refused /\ ready.duration = y0.duration /\ ready.unmade = y0.unmade
  <2>1. y0 \in Controllers /\ <<>> \in Seq(Types)
    BY <1>5 DEF Sound
  <2>2. ready \in Controllers
    BY <2>1, Changed
  <2>3. QED
    BY <2>1, <2>2 DEF Controllers, Rests
<1> HIDE DEF ready
<1>8. /\ Sound(ready) /\ StillBehind(y0, ready) /\ StillCleared(y0, ready)
      /\ (Ready(y0) => Ready(ready))
  BY <1>5, <1>7 DEF Sound, Rests, StillBehind, Behind, StillCleared, Cleared, Ready
<1>9. /\ Sound(m') /\ StillBehind(ready, m') /\ m'.ranges = ready.ranges
      /\ (Ready(ready) => StillCleared(ready, m'))
      /\ Forward(ready, m')
      /\ \A t \in Types : ~m'.refused /\ ready.sb[t].there /\ ready.pending[t] # <<>> => Given(ready, m', t)
  <2>1. CASE HasPendingSegments(ready)
    BY <1>4, <1>8, <2>1, AppendsAll
  <2>2. CASE ~HasPendingSegments(ready)
    BY <1>4, <1>8, <2>2, ForwardRefl DEF HasPendingSegments
  <2>3. QED
    BY <2>1, <2>2
\* from the controller before to the one after
<1>10. /\ m'.inits = <<>> /\ m'.eos = m.eos /\ m'.early = m.early /\ (m.refused => m'.refused)
       /\ (m'.duration => m.duration \/ Mends) /\ m'.ranges = m.ranges
       /\ m.unmade \subseteq m'.unmade /\ y0.unmade \subseteq m'.unmade
  BY <1>5, <1>7, <1>9 DEF Forward, Rests
<1>k. Known(m) => Known(m')
  <2>1. Known(y0) => Known(ready)
    BY <1>7 DEF Known, Rests
  <2>2. QED
    BY <1>5, <1>9, <2>1 DEF Forward
<1>11. ASSUME NEW t \in Types
       PROVE  /\ m.sb[t].there => m'.sb[t].there
              /\ t \in Range(m.inits) => m'.sb[t].there \/ t \in m'.unmade
              /\ m'.sb[t].ends = m.sb[t].ends
              /\ Updating(m, t) => Updating(m', t)
              /\ Row(m', t) = Row(m, t)
              /\ m'.pending[t] # <<>> => m.pending[t] # <<>>
              /\ m.pending[t] # <<>> => ready.pending[t] # <<>> \/ AnyUpdating(ready) \/ ready.skipped
  <2>1. /\ m.sb[t].there => y0.sb[t].there
        /\ y0.sb[t].ends = m.sb[t].ends
        /\ Updating(m, t) => Updating(y0, t)
        /\ Row(y0, t) = Row(m, t)
        /\ m.pending[t] # <<>> => y0.pending[t] # <<>> \/ AnyUpdating(y0) \/ y0.skipped
        /\ y0.pending[t] # <<>> => m.pending[t] # <<>>
    BY <1>5 DEF Forward
  <2>2. t \in Range(m.inits) => y0.sb[t].there \/ t \in m'.unmade
    BY <1>5, <1>10
  <2>3. /\ ready.sb = y0.sb /\ ready.pending = y0.pending /\ ready.skipped = y0.skipped
        /\ (Updating(ready, t) <=> Updating(y0, t)) /\ Row(ready, t) = Row(y0, t)
        /\ AnyUpdating(ready) <=> AnyUpdating(y0)
    BY <1>7 DEF Rests, Updating, Row, AnyUpdating
  <2>4. /\ ready.sb[t].there => m'.sb[t].there
        /\ m'.sb[t].ends = ready.sb[t].ends
        /\ Updating(ready, t) => Updating(m', t)
        /\ Row(m', t) = Row(ready, t)
        /\ m'.pending[t] # <<>> => ready.pending[t] # <<>>
    BY <1>9 DEF Forward
  <2>5. QED
    BY <2>1, <2>2, <2>3, <2>4
<1>12. /\ source' = "ended" => source = "ended" /\ ~AnyUpdating(m')
       /\ source' # "closed" /\ source' \in {"open", "ended"}
       /\ source = "open" => source' = "open"
       /\ source = "ended" /\ ~AnyUpdating(m') => source' = "ended"
  BY <1>1, <1>3 DEF Reopened
<1>a. Alive'
  BY <1>12 DEF Alive
<1>13. TypeInv'
  BY <1>1, <1>2, <1>9, <1>12 DEF TypeInv, Sound
<1>14. NothingLost' /\ BehindInv' /\ ClearInv'
  <2>1. NothingLost'
    BY <1>1, <1>2, <1>10, <1>11, RowsKept
  <2>2. StillBehind(m, m')
    BY <1>5, <1>8, <1>9 DEF StillBehind
  <2>3. BehindInv'
    BY <1>1, <1>2, <2>2, BehindKept
  <2>4. ~config.auto => \A u \in Types : Cleared(m, u, load) => Cleared(m', u, load)
    <3>1. ASSUME ~config.auto PROVE StillCleared(m, m')
      <4>1. Ready(m)
        BY <1>1, <1>2, <1>3, <3>1, FirstReady
      <4>2. QED
        BY <1>5, <1>8, <1>9, <4>1 DEF StillCleared
    <3>2. load \in Nat
      BY <1>2 DEF TypeInv
    <3>3. QED
      BY <3>1, <3>2 DEF StillCleared
  <2>5. ClearInv'
    BY <1>1, <1>2, <1>3, <1>10, <2>4, ClearKept
  <2>6. QED
    BY <2>1, <2>3, <2>5
<1>15. PhaseInv'
  <2>1. /\ source' = "closed" <=> opening' = "awaited"
        /\ source' = "closed" => /\ \A t \in Types : ~m'.sb[t].there
                                 /\ feed'.left = Feed \/ HasPendingSegments(m')
        /\ source' = "ended" => ~AnyUpdating(m')
        /\ opening' # "done" => load' = 0
        /\ opening' = "done" => m'.inits = <<>>
    BY <1>1, <1>10, <1>12
  <2>2. load' > 0 => /\ \A t \in Types : m'.sb[t].there \/ t \in m'.unmade
                     /\ \A i \in DOMAIN feed'.left : feed'.left[i][2] # Init0
    BY <1>1, <1>3
  <2>3. \A t \in Types : m'.pending[t] # <<>> =>
          m'.sb[t].there \/ t \in m'.unmade \/ t \in Range(m'.inits)
    BY <1>1, <1>2, <1>10, <1>11 DEF PhaseInv
  <2>4. ASSUME NEW i \in DOMAIN feed.left PROVE Led(feed.left[i][1], i)'
    <3>1. Led(feed.left[i][1], i)
      BY <1>1, <1>2 DEF PhaseInv
    <3>2. feed.left[i][1] \in Types
      BY <1>2 DEF TypeInv, Feeds
    <3>3. QED
      BY <1>1, <1>10, <1>11, <3>1, <3>2 DEF Led
  <2>5. /\ feed'.complete => feed'.left = <<>>
        /\ (m'.eos \/ source' = "ended") /\ load' = 0 => feed'.complete
        /\ m'.duration => Mends'
    BY <1>1, <1>2, <1>10, <1>12 DEF PhaseInv, Mends
  <2>6. Known(m')
    BY <1>1, <1>2, <1>k DEF PhaseInv
  <2>7. QED
    BY <1>1, <2>1, <2>2, <2>3, <2>4, <2>5, <2>6 DEF PhaseInv
<1>16. StallInv'
  <2>1. SUFFICES ASSUME ~m'.refused, ~m'.early, m'.unmade = {}, ~Mends
                 PROVE  /\ source' = "ended" => ~HasPendingSegments(m') /\ ~HasPendingRemoveRanges(m')
                        /\ feed.complete /\ source' # "ended" =>
                             /\ m'.eos
                             /\ Busy(m') \/ m'.skipped \/ (opening' # "done" /\ HasPendingSegments(m'))
    BY <1>1 DEF StallInv, Mends
  <2>2. ~m.refused /\ ~m.early /\ m.unmade = {} /\ y0.unmade = {}
    BY <1>10, <2>1
  <2>3. CASE source = "ended"
    <3>1. ~HasPendingSegments(m) /\ ~HasPendingRemoveRanges(m) /\ y0 = m
      BY <1>1, <1>2, <1>6, <2>1, <2>2, <2>3 DEF StallInv
    <3>2. ~HasPendingSegments(ready) /\ ready.sb = m.sb /\ ready.pending = m.pending
      BY <1>7, <3>1 DEF HasPendingSegments, Rests
    <3>3. m' = ready
      BY <1>4, <3>2
    <3>4. ~AnyUpdating(m')
      BY <1>1, <1>2, <2>3, <3>2, <3>3 DEF PhaseInv, AnyUpdating, Updating
    <3>5. ~HasPendingSegments(m') /\ ~HasPendingRemoveRanges(m')
      BY <1>10, <3>1, <3>2, <3>3 DEF HasPendingRemoveRanges
    <3>6. QED
      BY <1>12, <2>3, <3>4, <3>5
  <2>4. CASE source = "open"
    <3>1. SUFFICES ASSUME feed.complete PROVE m'.eos /\ (Busy(m') \/ m'.skipped)
      BY <1>12, <2>4
    <3>b. AnyUpdating(m') => Busy(m')
      BY DEF Busy, AnyUpdating
    <3>a. /\ AnyUpdating(ready) => AnyUpdating(m')
          /\ AnyUpdating(y0) => AnyUpdating(ready)
          /\ ready.skipped => m'.skipped \/ AnyUpdating(m')
          /\ m.skipped => ready.skipped \/ AnyUpdating(ready)
      <4>1. /\ AnyUpdating(ready) => AnyUpdating(m')
            /\ ready.skipped => m'.skipped \/ AnyUpdating(m')
        BY <1>9, Zenon DEF Forward, AnyUpdating
      <4>2. /\ m.skipped => y0.skipped \/ AnyUpdating(y0)
        BY <1>5, Zenon DEF Forward
      <4>3. ready.skipped = y0.skipped /\ (AnyUpdating(y0) => AnyUpdating(ready))
        BY <1>7, Zenon DEF Rests, AnyUpdating, Updating
      <4>4. QED
        BY <4>1, <4>2, <4>3
    <3>2. m.eos /\ (Busy(m) \/ m.skipped \/ HasPendingSegments(m))
      BY <1>1, <1>2, <2>1, <2>2, <2>4, <3>1 DEF StallInv
    <3>3. CASE Busy(m)
      BY <1>10, <1>11, <3>2, <3>3 DEF Busy
    <3>s. CASE m.skipped
      BY <1>10, <3>2, <3>a, <3>b, <3>s
    <3>4. CASE HasPendingSegments(m)
      <4>1. PICK t \in Types : m.pending[t] # <<>>
        BY <3>4 DEF HasPendingSegments
      <4>2. ready.sb[t].there
        <5>1. m.sb[t].there \/ t \in Range(m.inits)
          BY <1>1, <1>2, <2>2, <4>1 DEF PhaseInv
        <5>2. y0.sb[t].there
          BY <1>5, <2>2, <5>1 DEF Forward
        <5>3. QED
          BY <1>7, <5>2 DEF Rests
      <4>3. CASE AnyUpdating(ready) \/ ready.skipped
        BY <1>10, <3>2, <3>a, <3>b, <4>3
      <4>4. CASE ready.pending[t] # <<>>
        <5>1. Given(ready, m', t)
          BY <1>9, <2>1, <4>2, <4>4
        <5>2. AnyUpdating(m') \/ m'.skipped
          BY <5>1 DEF Given, AnyUpdating
        <5>3. QED
          BY <1>10, <3>2, <3>b, <5>2
      <4>5. QED
        BY <1>11, <4>1, <4>3, <4>4
    <3>5. QED
      BY <3>2, <3>3, <3>s, <3>4
  <2>5. QED
    BY <1>3, <2>3, <2>4
<1>17. QED
  BY <1>9, <1>13, <1>14, <1>15, <1>16 DEF IInv

\* An operation of a buffer ends.
LEMMA EndsIInv ==
  ASSUME IInv, NEW t \in Types, OperationEnds(t)
  PROVE  IInv'
<1> DEFINE sb == m.sb[t]
           kept == IF sb.op = "remove" THEN {s \in sb.buffered : s.n \notin sb.range}
                   ELSE IF sb.seg.n = Init0 THEN sb.buffered
                   ELSE {s \in sb.buffered : s.n # sb.seg.n} \cup {sb.seg}
           b == [sb EXCEPT !.op = "idle", !.ends = sb.ends + 1, !.buffered = kept,
                           !.range = {}, !.seg = NoBuffer.seg,
                           !.inited = sb.inited \/ sb.op = "append"]
<1>1. /\ Alive /\ sb.op # "idle" /\ m' = [m EXCEPT !.sb = [m.sb EXCEPT ![t] = b]]
      /\ UNCHANGED <<source, opening, feed, now, config, load, brought, back>>
  BY DEF OperationEnds, Updating
<1>2. TypeInv /\ Sound(m) /\ PhaseInv /\ StallInv /\ NothingLost /\ BehindInv /\ ClearInv
  BY DEF IInv
<1>3. m \in Controllers /\ sb \in Buffers /\ m.sb \in [Types -> Buffers] /\ sb.there
  BY <1>1, <1>2, Fields, SoundAt DEF TypeInv
<1>4. /\ sb.op \in {"idle", "append", "remove"} /\ sb.seg \in Segments /\ sb.range \subseteq Nat
      /\ sb.buffered \subseteq Segments /\ sb.ends \in Nat
  BY <1>3, BufferFields
<1>5. kept \subseteq Segments
  BY <1>4
<1> HIDE DEF kept
<1>6. /\ b \in Buffers /\ b.op = "idle" /\ b.ends = sb.ends + 1 /\ b.buffered = kept
      /\ b.range = {} /\ b.there /\ b.there = sb.there
  <2>1. NoBuffer.seg \in Segments /\ sb.ends + 1 \in Nat /\ (sb.inited \/ sb.op = "append") \in BOOLEAN
    BY <1>3, <1>4, Constants DEF NoBuffer, Segments, Buffers
  <2> DEFINE i == sb.inited \/ sb.op = "append"
  <2>2. b = [sb EXCEPT !.op = "idle", !.ends = sb.ends + 1, !.buffered = kept,
                       !.range = {}, !.seg = NoBuffer.seg, !.inited = i]
    OBVIOUS
  <2>3. i \in BOOLEAN
    BY <2>1
  <2> HIDE DEF b, i
  <2>4. QED
    BY <1>3, <1>5, <2>1, <2>2, <2>3 DEF Buffers
<1> HIDE DEF b
<1>7. m' \in Controllers
  <2>1. [m.sb EXCEPT ![t] = b] \in [Types -> Buffers]
    BY <1>3, <1>6
  <2>2. QED
    BY <1>1, <1>3, <2>1, Changed
<1>8. /\ m'.sb[t] = b /\ \A u \in Types \ {t} : m'.sb[u] = m.sb[u]
      /\ m'.pending = m.pending /\ m'.ranges = m.ranges /\ m'.appended = m.appended
      /\ m'.inits = m.inits /\ m'.eos = m.eos /\ m'.early = m.early
      /\ m'.refused = m.refused /\ m'.duration = m.duration
      /\ m'.lastInit = m.lastInit /\ m'.unmade = m.unmade
  BY <1>1, <1>3 DEF Controllers
<1>9. \A u \in Types : m'.sb[u].there = m.sb[u].there
  BY <1>3, <1>6, <1>8
<1>10. Sound(m') /\ TypeInv'
  <2>1. Sound(m')
    <3>1. ASSUME NEW u \in Types
          PROVE  /\ m'.appended[u] = m.appended[u] /\ m'.ranges[u] = m.ranges[u]
                 /\ u = t => m'.sb[u].there
                 /\ u # t => m'.sb[u] = m.sb[u]
      BY <1>6, <1>8
    <3>2. QED
      BY <1>2, <1>7, <3>1, SoundAt, SoundBy
  <2>2. QED
    BY <1>1, <1>2, <1>7, <2>1 DEF TypeInv
<1>11. Alive' /\ source # "ended" /\ source' # "ended"
  BY <1>1, <1>2 DEF Alive, PhaseInv, AnyUpdating, Updating
<1>12. NothingLost' /\ BehindInv'
  <2>1. \A u \in Types : Row(m', u) = Row(m, u)
    BY <1>8 DEF Row
  <2>2. NothingLost'
    BY <1>1, <1>2, <1>8, <2>1, RowsKept
  <2>3. StillBehind(m, m')
    BY <1>6, <1>8 DEF StillBehind, Behind
  <2>4. BehindInv'
    BY <1>1, <1>2, <2>3, BehindKept
  <2>5. QED
    BY <2>2, <2>4
<1>13. ASSUME Cleared(m, t, load) PROVE Cleared(m', t, load)
  <2> DEFINE p == m.pending[t]
             a == m.appended[t]
             r == m.ranges[t]
  <2>1. ClearedBuffer(sb, p, a, r, load)
    BY <1>13 DEF Cleared
  <2> HIDE DEF sb, p, a, r
  <2>2. CASE sb.op = "append"
    <3>1. /\ \A i \in DOMAIN p : p[i].load = load
          /\ \A i \in DOMAIN a : a[i].load = load
          /\ r = <<>> /\ sb.seg.load = load
          /\ MediaOf(Range(a)) = sb.buffered \cup MediaOf({sb.seg})
      BY <2>1, <2>2 DEF ClearedBuffer
    <3>2. \A s \in sb.buffered : s.load = load
      BY <3>1 DEF MediaOf, Range
    <3>3. \A s \in sb.buffered : s.n = sb.seg.n => s = sb.seg
      <4>1. ASSUME NEW s \in sb.buffered, s.n = sb.seg.n PROVE s = sb.seg
        <5>1. s \in Segments /\ s.load = sb.seg.load
          BY <1>4, <3>1, <3>2
        <5>2. QED
          BY <1>4, <4>1, <5>1 DEF Segments
      <4>2. QED
        BY <4>1
    <3>4. kept = sb.buffered \cup MediaOf({sb.seg})
      BY <2>2, <3>3 DEF kept, MediaOf
    <3>5. ClearedBuffer(b, p, a, r, load)
      BY <1>6, <3>1, <3>4 DEF ClearedBuffer
    <3>6. QED
      BY <1>8, <3>5 DEF Cleared, p, a, r
  <2>3. CASE sb.op = "remove"
    <3>1. /\ \A i \in DOMAIN p : p[i].load = load
          /\ \A i \in DOMAIN a : a[i].load = load
          /\ MediaOf(Range(a)) = {}
          /\ \A s \in sb.buffered : s.n \in sb.range \/ \E i \in DOMAIN r : s.n \in r[i]
      BY <2>1, <2>3 DEF ClearedBuffer
    <3>2. kept = {s \in sb.buffered : s.n \notin sb.range}
      BY <2>3 DEF kept
    <3>3. \A s \in kept : \E i \in DOMAIN r : s.n \in r[i]
      BY <3>1, <3>2
    <3>4. r = <<>> => kept = {}
      BY <3>3
    <3>5. ClearedBuffer(b, p, a, r, load)
      BY <1>6, <3>1, <3>3, <3>4 DEF ClearedBuffer
    <3>6. QED
      BY <1>8, <3>5 DEF Cleared, p, a, r
  <2>4. QED
    BY <1>1, <1>4, <2>2, <2>3 DEF sb
<1>14. ClearInv'
  <2>1. ASSUME NEW u \in Types, Cleared(m, u, load) PROVE Cleared(m', u, load)
    <3>1. CASE u = t
      BY <1>13, <2>1, <3>1
    <3>2. CASE u # t
      BY <1>8, <2>1, <3>2 DEF Cleared
    <3>3. QED
      BY <3>1, <3>2
  <2>2. QED
    BY <1>1, <1>2, <1>8, <1>9, <2>1, ClearKept
<1>15. PhaseInv'
  <2>1. ASSUME NEW i \in DOMAIN feed.left PROVE Led(feed.left[i][1], i)'
    <3>1. Led(feed.left[i][1], i)
      BY <1>1, <1>2 DEF PhaseInv
    <3>2. feed.left[i][1] \in Types
      BY <1>2 DEF TypeInv, Feeds
    <3>3. QED
      BY <1>1, <1>8, <1>9, <3>1, <3>2 DEF Led
  <2>2. HasPendingSegments(m') = HasPendingSegments(m)
    BY <1>8 DEF HasPendingSegments
  <2>3. Known(m')
    BY <1>1, <1>2, <1>8, <1>9 DEF PhaseInv, Known
  <2>4. QED
    BY <1>1, <1>2, <1>8, <1>9, <1>11, <2>1, <2>2, <2>3 DEF PhaseInv, Mends
<1>16. StallInv'
  <2>1. Busy(m')
    BY <1>4, <1>6, <1>8 DEF Busy
  <2>2. QED
    BY <1>1, <1>2, <1>8, <1>11, <2>1 DEF StallInv, Mends
<1>17. QED
  BY <1>10, <1>12, <1>14, <1>15, <1>16 DEF IInv

\* An event of a buffer is taken off those that wait.
LEMMA TakesEvent ==
  ASSUME NEW x, NEW t \in Types, Sound(x), x.sb[t].ends > 0
  PROVE  LET y == [x EXCEPT !.sb[t].ends = @ - 1]
         IN  /\ Sound(y) /\ Stays(x, y) /\ y.refused = x.refused /\ y.skipped = x.skipped
             /\ y.pending = x.pending /\ y.appended = x.appended /\ y.ranges = x.ranges
             /\ \A u \in Types : y.sb[u].there = x.sb[u].there /\ y.sb[u].op = x.sb[u].op
             /\ StillBehind(x, y) /\ StillCleared(x, y)
<1> DEFINE b == [x.sb[t] EXCEPT !.ends = x.sb[t].ends - 1]
           y == [x EXCEPT !.sb = [x.sb EXCEPT ![t] = b]]
<1>1. x \in Controllers
  BY DEF Sound
<1>2. x.sb \in [Types -> Buffers] /\ x.sb[t] \in Buffers /\ x.sb[t].ends \in Nat
  BY <1>1, Fields, BufferFields
<1>3. /\ b \in Buffers /\ b.there = x.sb[t].there /\ b.op = x.sb[t].op /\ b.seg = x.sb[t].seg
      /\ b.range = x.sb[t].range /\ b.buffered = x.sb[t].buffered /\ b.inited = x.sb[t].inited
  <2>1. x.sb[t].ends - 1 \in Nat
    BY <1>2
  <2>2. QED
    BY <1>2, <2>1 DEF Buffers
<1>4. [x EXCEPT !.sb[t].ends = @ - 1] = y
  BY <1>1 DEF Controllers
<1> HIDE DEF b
<1>5. y \in Controllers
  <2>1. [x.sb EXCEPT ![t] = b] \in [Types -> Buffers]
    BY <1>2, <1>3
  <2>2. QED
    BY <1>1, <2>1, Changed
<1>6. /\ Stays(x, y) /\ y.refused = x.refused /\ y.skipped = x.skipped
      /\ y.pending = x.pending /\ y.appended = x.appended /\ y.ranges = x.ranges
      /\ y.sb[t] = b /\ \A u \in Types \ {t} : y.sb[u] = x.sb[u]
  BY <1>1, <1>2 DEF Controllers, Stays
<1> HIDE DEF y
<1>7. ASSUME NEW u \in Types
      PROVE  /\ y.sb[u].there = x.sb[u].there /\ y.sb[u].op = x.sb[u].op
             /\ y.sb[u].seg = x.sb[u].seg /\ y.sb[u].range = x.sb[u].range
             /\ y.sb[u].buffered = x.sb[u].buffered
  BY <1>3, <1>6
<1>8. Sound(y)
  <2>1. x.sb[t].there
    BY SoundAt
  <2>2. ASSUME NEW u \in Types
        PROVE  /\ y.appended[u] = x.appended[u] /\ y.ranges[u] = x.ranges[u]
               /\ u = t => y.sb[u].there
               /\ u # t => y.sb[u] = x.sb[u]
    BY <1>3, <1>6, <2>1
  <2>3. QED
    BY <1>5, <2>2, SoundAt, SoundBy
<1>9. StillBehind(x, y)
  BY <1>6, <1>7 DEF StillBehind, Behind
<1>10. StillCleared(x, y)
  <2>1. ASSUME NEW u \in Types, NEW l \in Nat, Cleared(x, u, l) PROVE Cleared(y, u, l)
    <3>1. ClearedBuffer(x.sb[u], x.pending[u], x.appended[u], x.ranges[u], l)
      BY <2>1 DEF Cleared
    <3>2. ClearedBuffer(y.sb[u], x.pending[u], x.appended[u], x.ranges[u], l)
      BY <1>7, <3>1 DEF ClearedBuffer
    <3>3. QED
      BY <1>6, <3>2 DEF Cleared
  <2>2. QED
    BY <2>1 DEF StillCleared
<1>11. QED
  BY <1>4, <1>6, <1>7, <1>8, <1>9, <1>10

\* What the controller does at an event goes forward.
LEMMA WorksOn ==
  ASSUME NEW x, NEW y, NEW o \in Outcomes, Sound(x), source \in {"closed", "open", "ended"},
         feed.complete \in BOOLEAN,
         \/ y = UpdateDuration(x)
         \/ y = DoRemoveRanges(x)
         \/ y = DoAppendSegments(x, o) /\ ~HasPendingRemoveRanges(x)
         \/ y = EndOfStream(x, feed.complete)
         \/ y = x
  PROVE  /\ Sound(y) /\ StillBehind(x, y) /\ StillCleared(x, y)
         /\ \A u \in Types : /\ Row(y, u) = Row(x, u) /\ y.sb[u].there = x.sb[u].there
                             /\ x.ranges[u] = <<>> => y.ranges[u] = <<>>
                             /\ x.pending[u] # <<>> =>
                                  y.pending[u] # <<>> \/ AnyUpdating(y) \/ y.skipped
                             /\ y.pending[u] # <<>> => x.pending[u] # <<>>
         /\ y.inits = x.inits /\ (y.duration => x.duration \/ Mends)
         /\ y.lastInit = x.lastInit /\ y.unmade = x.unmade
<1>1. CASE y = UpdateDuration(x)
  <2>1. /\ Sound(y) /\ StillBehind(x, y) /\ StillCleared(x, y)
        /\ Forward(x, y) /\ SameThere(x, y) /\ y.ranges = x.ranges
    BY <1>1, UpdatesDuration
  <2>2. QED
    BY <2>1 DEF Forward, SameThere
<1>2. CASE y = DoRemoveRanges(x)
  <2>1. /\ Sound(y) /\ StillBehind(x, y) /\ StillCleared(x, y)
        /\ Forward(x, y) /\ SameThere(x, y)
        /\ \A u \in Types : x.ranges[u] = <<>> => y.ranges[u] = <<>>
    BY <1>2, RemovesAll
  <2>2. QED
    BY <2>1 DEF Forward, SameThere
<1>3. CASE y = DoAppendSegments(x, o) /\ ~HasPendingRemoveRanges(x)
  <2>1. Ready(x)
    BY <1>3 DEF Ready, HasPendingRemoveRanges
  <2>2. /\ Sound(y) /\ StillBehind(x, y) /\ StillCleared(x, y)
        /\ Forward(x, y) /\ SameThere(x, y) /\ y.ranges = x.ranges
    BY <1>3, <2>1, AppendsAll
  <2>3. QED
    BY <2>2 DEF Forward, SameThere
<1>4. CASE y = EndOfStream(x, feed.complete)
  <2>1. /\ Sound(y) /\ Rests(x, y) /\ y.inits = x.inits /\ y.duration = x.duration
        /\ y.lastInit = x.lastInit /\ y.unmade = x.unmade
    BY <1>4, MarksEnd
  <2>2. StillBehind(x, y) /\ StillCleared(x, y)
    BY <2>1 DEF Rests, StillBehind, Behind, StillCleared, Cleared
  <2>3. QED
    BY <2>1, <2>2 DEF Rests, Row
<1>5. CASE y = x
  BY <1>5, ForwardRefl
<1>6. QED
  BY <1>1, <1>2, <1>3, <1>4, <1>5

\* The end of an operation has been reported.
LEMMA UpdateEndIInv ==
  ASSUME IInv, NEW t \in Types, OnUpdateEnd(t)
  PROVE  IInv'
<1> DEFINE x == [m EXCEPT !.sb[t].ends = @ - 1]
           Corrects == x.duration /\ m' = UpdateDuration(x) /\ source' = source
           Clears   == /\ ~x.duration /\ HasPendingRemoveRanges(x)
                       /\ m' = DoRemoveRanges(x) /\ source' = Reopened(m')
           Fills(o) == /\ ~x.duration /\ ~HasPendingRemoveRanges(x) /\ HasPendingSegments(x)
                       /\ m' = DoAppendSegments(x, o) /\ source' = Reopened(m')
           Ends     == /\ ~x.duration /\ ~HasPendingRemoveRanges(x) /\ ~HasPendingSegments(x)
                       /\ m' = IF x.eos THEN EndOfStream(x, feed.complete) ELSE x
                       /\ source' = IF x.eos THEN EndedBy(x) ELSE source
<1>1. /\ Alive /\ m.sb[t].ends > 0
      /\ UNCHANGED <<opening, feed, now, config, load, brought, back>>
  BY DEF OnUpdateEnd
<1>2. TypeInv /\ Sound(m) /\ PhaseInv /\ StallInv /\ NothingLost /\ BehindInv /\ ClearInv
  BY DEF IInv
<1>3. Corrects \/ Clears \/ (\E o \in Outcomes : Fills(o)) \/ Ends
  BY DEF OnUpdateEnd
<1>4. source \in {"open", "ended"} /\ m.sb[t].there
  BY <1>1, <1>2, SoundAt DEF TypeInv, Alive, PhaseInv
<1>5. /\ Sound(x) /\ Stays(m, x) /\ x.refused = m.refused /\ x.skipped = m.skipped
      /\ x.pending = m.pending /\ x.appended = m.appended /\ x.ranges = m.ranges
      /\ \A u \in Types : x.sb[u].there = m.sb[u].there /\ x.sb[u].op = m.sb[u].op
      /\ StillBehind(m, x) /\ StillCleared(m, x)
  BY <1>1, <1>2, TakesEvent
<1> HIDE DEF x
<1>6. /\ HasPendingSegments(x) = HasPendingSegments(m)
      /\ HasPendingRemoveRanges(x) = HasPendingRemoveRanges(m)
      /\ AnyUpdating(x) = AnyUpdating(m)
      /\ x.inits = m.inits /\ x.eos = m.eos /\ x.early = m.early /\ x.duration = m.duration
      /\ x.lastInit = m.lastInit /\ x.unmade = m.unmade
  BY <1>5 DEF HasPendingSegments, HasPendingRemoveRanges, AnyUpdating, Updating, Stays
<1>7. PICK o \in Outcomes : Corrects \/ Clears \/ Fills(o) \/ Ends
  <2>1. \E o : o \in Outcomes
    BY DEF Outcomes
  <2>2. QED
    BY <1>3, <2>1
<1>8. /\ Sound(m') /\ StillBehind(x, m') /\ StillCleared(x, m')
      /\ \A u \in Types : /\ Row(m', u) = Row(x, u) /\ m'.sb[u].there = x.sb[u].there
                          /\ x.ranges[u] = <<>> => m'.ranges[u] = <<>>
                          /\ x.pending[u] # <<>> =>
                               m'.pending[u] # <<>> \/ AnyUpdating(m') \/ m'.skipped
                          /\ m'.pending[u] # <<>> => x.pending[u] # <<>>
      /\ m'.inits = x.inits /\ (m'.duration => x.duration \/ Mends)
      /\ m'.lastInit = x.lastInit /\ m'.unmade = x.unmade
  <2>1. \/ m' = UpdateDuration(x)
        \/ m' = DoRemoveRanges(x)
        \/ m' = DoAppendSegments(x, o) /\ ~HasPendingRemoveRanges(x)
        \/ m' = EndOfStream(x, feed.complete)
        \/ m' = x
    BY <1>7
  <2>2. feed.complete \in BOOLEAN /\ source \in {"closed", "open", "ended"}
    BY <1>2, <1>4 DEF TypeInv, Feeds
  <2>3. QED
    BY <1>5, <2>1, <2>2, WorksOn
<1>9. \A u \in Types : Row(x, u) = Row(m, u)
  BY <1>5 DEF Row
<1>e. Ends /\ x.eos =>
        LET y == EndOfStream(x, feed.complete)
        IN  /\ m' = y /\ Rests(x, y) /\ y.refused = x.refused /\ (x.early => y.early)
            /\ source = "open" => y.eos = AnyUpdating(x)
            /\ source = "ended" => y.eos = x.eos
  <2>1. feed.complete \in BOOLEAN /\ source \in {"closed", "open", "ended"}
    BY <1>2, <1>4 DEF TypeInv, Feeds
  <2> DEFINE z == EndOfStream(x, feed.complete)
  <2>2. /\ Rests(x, z) /\ z.refused = x.refused /\ (x.early => z.early)
        /\ source = "open" => z.eos = AnyUpdating(x)
        /\ source = "ended" => z.eos = x.eos
    BY <1>5, <2>1, MarksEnd
  <2>3. Ends /\ x.eos => m' = z
    OBVIOUS
  <2> HIDE DEF z, Ends
  <2>4. QED
    BY <2>2, <2>3 DEF z
<1>10. /\ source' \in {"open", "ended"}
       /\ source' = "ended" => ~AnyUpdating(m')
       /\ m'.eos \/ source' = "ended" => m.eos \/ source = "ended"
       /\ source = "ended" => ~AnyUpdating(m)
  <2>0. source = "ended" => ~AnyUpdating(m)
    BY <1>1, <1>2 DEF PhaseInv
  <2>1. CASE Corrects
    <3>1. m'.sb = x.sb /\ m'.eos = x.eos
      BY <1>5, <2>1, UpdatesDuration DEF Forward
    <3>2. AnyUpdating(m') = AnyUpdating(x)
      BY <3>1 DEF AnyUpdating, Updating
    <3>3. QED
      BY <1>4, <1>6, <2>0, <2>1, <3>1, <3>2
  <2>2. CASE Clears
    <3>1. m'.eos = x.eos
      BY <1>5, <2>2, RemovesAll DEF Forward
    <3>2. QED
      BY <1>4, <1>6, <2>0, <2>2, <3>1, Reopens
  <2>3. CASE Fills(o)
    <3>1. m'.eos = x.eos
      BY <1>5, <2>3, AppendsAll DEF Forward
    <3>2. QED
      BY <1>4, <1>6, <2>0, <2>3, <3>1, Reopens
  <2>4. CASE Ends /\ x.eos
    <3>1. m'.sb = x.sb
      BY <1>e, <2>4 DEF Rests
    <3>2. AnyUpdating(m') = AnyUpdating(x)
      BY <3>1 DEF AnyUpdating, Updating
    <3>3. QED
      BY <1>4, <1>6, <2>0, <2>4, <3>2 DEF EndedBy
  <2>5. CASE Ends /\ ~x.eos
    BY <1>4, <1>6, <2>0, <2>5
  <2>6. QED
    BY <1>7, <2>1, <2>2, <2>3, <2>4, <2>5
<1>11. Alive'
  BY <1>10 DEF Alive
<1>12. TypeInv'
  BY <1>1, <1>2, <1>8, <1>10 DEF TypeInv, Sound
<1>13. NothingLost' /\ BehindInv' /\ ClearInv'
  <2>1. NothingLost'
    BY <1>1, <1>2, <1>6, <1>8, <1>9, RowsKept
  <2>2. StillBehind(m, m') /\ StillCleared(m, m')
    BY <1>5, <1>8 DEF StillBehind, StillCleared
  <2>3. BehindInv'
    BY <1>1, <1>2, <2>2, BehindKept
  <2>4. load \in Nat
    BY <1>2 DEF TypeInv
  <2>5. \A u \in Types : /\ Cleared(m, u, load) => Cleared(m', u, load)
                         /\ m.ranges[u] = <<>> => m'.ranges[u] = <<>>
                         /\ m'.sb[u].there => m.sb[u].there
    BY <1>5, <1>8, <2>2, <2>4 DEF StillCleared
  <2>6. ClearInv'
    BY <1>1, <1>2, <2>5, ClearKept
  <2>7. QED
    BY <2>1, <2>3, <2>6
<1>14. PhaseInv'
  <2>1. ASSUME NEW i \in DOMAIN feed.left PROVE Led(feed.left[i][1], i)'
    <3>1. Led(feed.left[i][1], i)
      BY <1>1, <1>2 DEF PhaseInv
    <3>2. feed.left[i][1] \in Types
      BY <1>2 DEF TypeInv, Feeds
    <3>3. QED
      BY <1>1, <1>5, <1>6, <1>8, <3>1, <3>2 DEF Led
  <2>2. /\ source' = "closed" <=> opening' = "awaited"
        /\ source' # "closed"
        /\ source' = "ended" => ~AnyUpdating(m')
        /\ opening' # "done" => load' = 0
        /\ opening' = "done" => m'.inits = <<>>
    BY <1>1, <1>2, <1>4, <1>6, <1>8, <1>10 DEF PhaseInv
  <2>3. load' > 0 => /\ \A u \in Types : m'.sb[u].there \/ u \in m'.unmade
                     /\ \A i \in DOMAIN feed'.left : feed'.left[i][2] # Init0
    BY <1>1, <1>2, <1>5, <1>6, <1>8 DEF PhaseInv
  <2>4. \A u \in Types : m'.pending[u] # <<>> =>
          m'.sb[u].there \/ u \in m'.unmade \/ u \in Range(m'.inits)
    BY <1>1, <1>2, <1>5, <1>6, <1>8 DEF PhaseInv
  <2>5. /\ feed'.complete => feed'.left = <<>>
        /\ (m'.eos \/ source' = "ended") /\ load' = 0 => feed'.complete
        /\ m'.duration => Mends'
    BY <1>1, <1>2, <1>6, <1>8, <1>10 DEF PhaseInv, Mends
  <2>6. Known(m')
    BY <1>1, <1>2, <1>5, <1>6, <1>8 DEF PhaseInv, Known
  <2>7. QED
    BY <1>1, <2>1, <2>2, <2>3, <2>4, <2>5, <2>6 DEF PhaseInv
<1>15. StallInv'
  <2>1. SUFFICES ASSUME ~m'.refused, ~m'.early, m'.unmade = {}, ~Mends
                 PROVE  /\ source' = "ended" => ~HasPendingSegments(m') /\ ~HasPendingRemoveRanges(m')
                        /\ feed.complete /\ source' # "ended" =>
                             /\ m'.eos
                             /\ Busy(m') \/ m'.skipped \/ (opening # "done" /\ HasPendingSegments(m'))
    BY <1>1 DEF StallInv, Mends
  <2>u. m.unmade = {}
    BY <1>6, <1>8, <2>1
  <2>b. AnyUpdating(m') => Busy(m')
    BY DEF AnyUpdating, Busy
  <2>2. ~Corrects
    BY <1>1, <1>2, <1>6, <2>1 DEF PhaseInv
  <2>3. CASE Clears
    <3>1. /\ Forward(x, m') /\ \A u \in Types : x.ranges[u] # <<>> => Updating(m', u)
      BY <1>5, <2>3, RemovesAll
    <3>2. ~m.refused /\ ~m.early /\ m'.eos = m.eos
      BY <1>5, <1>6, <2>1, <3>1 DEF Forward
    <3>3. source = "open"
      BY <1>1, <1>2, <1>4, <1>6, <2>1, <2>u, <2>3, <3>2 DEF StallInv
    <3>4. Busy(m')
      BY <2>3, <3>1 DEF HasPendingRemoveRanges, Busy
    <3>5. QED
      BY <1>1, <1>2, <2>1, <2>u, <2>3, <3>2, <3>3, <3>4, Reopens DEF StallInv
  <2>4. CASE Fills(o)
    <3>1. /\ Forward(x, m')
          /\ \A u \in Types : ~m'.refused /\ x.sb[u].there /\ x.pending[u] # <<>> => Given(x, m', u)
      BY <1>5, <2>4, AppendsAll
    <3>2. ~m.refused /\ ~m.early /\ m'.eos = m.eos
      BY <1>5, <1>6, <2>1, <3>1 DEF Forward
    <3>3. source = "open"
      BY <1>1, <1>2, <1>4, <1>6, <2>1, <2>u, <2>4, <3>2 DEF StallInv
    <3>4. Busy(m') \/ m'.skipped \/ (opening # "done" /\ HasPendingSegments(m'))
      <4>1. PICK u \in Types : x.pending[u] # <<>>
        BY <2>4 DEF HasPendingSegments
      <4>2. CASE x.sb[u].there
        <5>1. Given(x, m', u)
          BY <2>1, <3>1, <4>1, <4>2
        <5>2. AnyUpdating(m') \/ m'.skipped
          BY <5>1 DEF Given, AnyUpdating
        <5>3. QED
          BY <2>b, <5>2
      <4>3. CASE ~x.sb[u].there
        <5>1. u \in Range(m.inits)
          BY <1>1, <1>2, <1>5, <2>u, <4>1, <4>3 DEF PhaseInv
        <5>2. m.inits # <<>>
          BY <5>1 DEF Range
        <5>3. opening # "done"
          BY <1>1, <1>2, <5>2 DEF PhaseInv
        <5>4. m'.pending[u] # <<>> \/ AnyUpdating(m') \/ m'.skipped
          BY <1>8, <4>1
        <5>5. QED
          BY <2>b, <5>3, <5>4 DEF HasPendingSegments
      <4>4. QED
        BY <4>2, <4>3
    <3>5. QED
      BY <1>1, <1>2, <2>1, <2>u, <2>4, <3>2, <3>3, <3>4, Reopens DEF StallInv
  <2>5. CASE Ends /\ x.eos
    <3>0. /\ Rests(x, m') /\ m'.refused = x.refused /\ (x.early => m'.early)
          /\ source = "open" => m'.eos = AnyUpdating(x)
          /\ source' = EndedBy(x)
      BY <1>e, <2>5
    <3>1. /\ ~HasPendingSegments(m') /\ ~HasPendingRemoveRanges(m')
          /\ AnyUpdating(x) => Busy(m')
      BY <2>5, <3>0 DEF Rests, HasPendingSegments, HasPendingRemoveRanges, AnyUpdating, Busy, Updating
    <3>2. source' # "ended" => source = "open" /\ AnyUpdating(x)
      BY <1>4, <3>0 DEF EndedBy
    <3>3. QED
      BY <3>0, <3>1, <3>2
  <2>6. CASE Ends /\ ~x.eos
    <3>1. m' = x /\ source' = source
      BY <2>6
    <3>2. ~m.refused /\ ~m.early /\ ~m.eos
      BY <1>5, <1>6, <2>1, <2>6, <3>1
    <3>3. feed.complete => source = "ended"
      BY <1>1, <1>2, <2>1, <2>u, <3>2 DEF StallInv
    <3>4. QED
      BY <2>6, <3>1, <3>3
  <2>7. QED
    BY <1>7, <2>2, <2>3, <2>4, <2>5, <2>6
<1>16. QED
  BY <1>8, <1>12, <1>13, <1>14, <1>15 DEF IInv

-----------------------------------------------------------------------------
(* Segments arrive. *)

\* The rest of a feed, and what it says of the init segments.
LEMMA Arrives ==
  ASSUME TypeInv, NEW t \in Types, NEW init \in BOOLEAN, Brings(t, init)
  PROVE  /\ Alive /\ feed.left # <<>> /\ feed' \in Feeds
         /\ feed'.left = Tail(feed.left) /\ feed'.complete = feed.complete
         /\ Head(feed.left) = feed.left[1] /\ 1 \in DOMAIN feed.left
         /\ feed.left[1][1] = t /\ ((feed.left[1][2] = Init0) = init)
         /\ feed.left[1] = <<t, feed.left[1][2]>> /\ feed.left[1][2] \in 0 .. Duration
         /\ \A i \in DOMAIN feed'.left : /\ i + 1 \in DOMAIN feed.left
                                         /\ feed'.left[i] = feed.left[i + 1]
         /\ Segment(feed.left[1][2]) \in Segments /\ Segment(feed.left[1][2]).load = load
         /\ brought' = [brought EXCEPT ![t] = Append(brought[t], Segment(feed.left[1][2]))]
         /\ brought' \in [Types -> Seq(Segments)]
<1>1. /\ Alive /\ feed.left # <<>>
      /\ Head(feed.left)[1] = t /\ ((Head(feed.left)[2] = Init0) = init)
      /\ feed' = [feed EXCEPT !.left = Tail(feed.left)]
      /\ brought' = [brought EXCEPT ![t] = Append(brought[t], Segment(Head(feed.left)[2]))]
  BY DEF Brings
<1>2. feed \in Feeds /\ feed.left \in Seq(Types \X (0 .. Duration)) /\ load \in Nat
      /\ brought \in [Types -> Seq(Segments)]
  BY DEF TypeInv, Feeds
<1>3. /\ Tail(feed.left) \in Seq(Types \X (0 .. Duration))
      /\ Head(feed.left) = feed.left[1] /\ feed.left[1] \in Types \X (0 .. Duration)
      /\ 1 \in DOMAIN feed.left
      /\ \A i \in DOMAIN Tail(feed.left) : i + 1 \in DOMAIN feed.left /\ Tail(feed.left)[i] = feed.left[i + 1]
  BY <1>1, <1>2, Popped
<1>4. feed' \in Feeds /\ feed'.left = Tail(feed.left) /\ feed'.complete = feed.complete
  BY <1>1, <1>2, <1>3 DEF Feeds
<1> DEFINE s == Segment(feed.left[1][2])
<1>5. s \in Segments /\ s.load = load
  BY <1>2, <1>3 DEF Segment, Segments
<1> HIDE DEF s
<1>6. brought' \in [Types -> Seq(Segments)]
      /\ brought' = [brought EXCEPT ![t] = Append(brought[t], s)]
  <2>1. brought' = [brought EXCEPT ![t] = Append(brought[t], s)]
    BY <1>1, <1>3 DEF s
  <2>2. Append(brought[t], s) \in Seq(Segments)
    BY <1>2, <1>5, Pushed
  <2>3. QED
    BY <1>2, <2>1, <2>2
<1>7. QED
  BY <1>1, <1>3, <1>4, <1>5, <1>6 DEF s

\* What came is at the end of its row.
LEMMA RowsGrow ==
  ASSUME NothingLost, Alive, NEW t \in Types, NEW s, brought \in [Types -> Seq(Segments)],
         brought' = [brought EXCEPT ![t] = Append(brought[t], s)],
         m.unmade \subseteq m'.unmade,
         t \notin m'.unmade => Row(m', t) = Append(Row(m, t), s),
         \A u \in Types \ {t} : u \notin m'.unmade => Row(m', u) = Row(m, u)
  PROVE  NothingLost'
<1>1. ASSUME NEW u \in Types \ m'.unmade PROVE brought'[u] = Row(m', u)
  <2>0. brought[u] = Row(m, u)
    <3>1. u \in Types \ m.unmade
      OBVIOUS
    <3>2. QED
      BY <3>1 DEF NothingLost, Row
  <2>1. CASE u = t
    <3>1. brought'[t] = Append(brought[t], s)
      OBVIOUS
    <3>2. QED
      BY <2>0, <2>1, <3>1
  <2>2. CASE u # t
    BY <2>0, <2>2
  <2>3. QED
    BY <2>1, <2>2
<1>2. QED
  BY <1>1, Zenon DEF NothingLost, Row

\* An init segment arrives while the source is open.
LEMMA InitBehaves ==
  ASSUME NEW x, NEW t \in Types, NEW fails, NEW o, x \in Controllers,
         ~(~x.sb[t].there /\ fails)
  PROVE  InitOnOpen(x, t, FALSE, fails, o)
           = InitOnOpen(Queued(x, t, Segment(Init0)), t, TRUE, fails, o)
<1> DEFINE q == Queued(x, t, Segment(Init0))
           a == [[x EXCEPT !.lastInit[t] = TRUE]
                   EXCEPT !.sb[t].there = TRUE, !.pending[t] = Append(@, Segment(Init0))]
           b == [[q EXCEPT !.lastInit[t] = TRUE] EXCEPT !.sb[t].there = TRUE, !.pending[t] = @]
           Tried(made) == IF x.sb[t].there /\ ~Updating(made, t) THEN DoAppendSegments(made, o) ELSE made
           Done(tried) == IF config.safari /\ config.mpeg /\ t = "audio"
                          THEN UpdateDuration([tried EXCEPT !.duration = TRUE]) ELSE tried
<1>1. q.sb = x.sb
  BY DEF Queued, Controllers
<1>2. a = b
  <2> DEFINE p == [x.pending EXCEPT ![t] = Append(x.pending[t], Segment(Init0))]
             l == [x.lastInit EXCEPT ![t] = TRUE]
             z == [x.sb EXCEPT ![t] = [x.sb[t] EXCEPT !.there = TRUE]]
  <2>0. x.pending \in [Types -> Seq(Segments)]
    BY Fields
  <2>1. q = [x EXCEPT !.pending = p]
    BY DEF Queued
  <2>2. [p EXCEPT ![t] = p[t]] = p
    BY <2>0
  <2>3. a = [[[x EXCEPT !.lastInit = l] EXCEPT !.sb = z] EXCEPT !.pending = p]
    BY DEF Controllers
  <2>4. b = [[[q EXCEPT !.lastInit = l] EXCEPT !.sb = z] EXCEPT !.pending = p]
    <3>2. q.lastInit = x.lastInit /\ q.pending = p
      BY <2>1 DEF Controllers
    <3>3. b = [[[q EXCEPT !.lastInit = [q.lastInit EXCEPT ![t] = TRUE]]
                  EXCEPT !.sb = [q.sb EXCEPT ![t] = [q.sb[t] EXCEPT !.there = TRUE]]]
                  EXCEPT !.pending = [q.pending EXCEPT ![t] = q.pending[t]]]
      <4> HIDE DEF q
      <4>1. QED
        BY <1>1
    <3> HIDE DEF q, p, l, z, b
    <3>4. QED
      BY <1>1, <2>2, <3>2, <3>3 DEF l, z
  <2> HIDE DEF p, l, z, a, b, q
  <2>5. QED
    BY <2>1, <2>3, <2>4 DEF Controllers
<1>3. InitOnOpen(x, t, FALSE, fails, o) = Done(Tried(a))
  BY DEF InitOnOpen
<1>4. InitOnOpen(q, t, TRUE, fails, o) = Done(Tried(b))
  <2> HIDE DEF q
  <2>1. QED
    BY <1>1 DEF InitOnOpen
<1> HIDE DEF a, b, Tried, Done
<1>5. QED
  BY <1>2, <1>3, <1>4

\* An init segment arrives.
LEMMA InitSegmentIInv ==
  ASSUME IInv, NEW t \in Types, AppendInitSegment(t)
  PROVE  IInv'
<1> DEFINE s == Segment(Init0)
           q == Queued(m, t, s)
<1>1. /\ Brings(t, TRUE) /\ UNCHANGED <<opening, now, config, load, back>>
      /\ \/ /\ source # "open" /\ source' = source
            /\ m' = [m EXCEPT !.inits = Append(@, t), !.pending[t] = Append(@, Segment(Init0))]
         \/ /\ source = "open"
            /\ \E o \in Outcomes, fails \in BOOLEAN :
                 m' = InitOnOpen(m, t, FALSE, fails, o) /\ source' = Reopened(m')
  BY DEF AppendInitSegment
<1>2. TypeInv /\ Sound(m) /\ PhaseInv /\ StallInv /\ NothingLost /\ BehindInv /\ ClearInv
  BY DEF IInv
<1>3. /\ Alive /\ feed.left # <<>> /\ feed' \in Feeds
      /\ feed'.left = Tail(feed.left) /\ feed'.complete = feed.complete
      /\ 1 \in DOMAIN feed.left
      /\ feed.left[1][1] = t /\ feed.left[1][2] = Init0
      /\ \A i \in DOMAIN feed'.left : /\ i + 1 \in DOMAIN feed.left
                                      /\ feed'.left[i] = feed.left[i + 1]
      /\ s \in Segments /\ s.load = load
      /\ brought' = [brought EXCEPT ![t] = Append(brought[t], s)]
      /\ brought' \in [Types -> Seq(Segments)]
  BY <1>1, <1>2, Arrives
<1>4. load = 0 /\ ~feed.complete /\ source # "ended" /\ ~m.eos
  BY <1>2, <1>3 DEF PhaseInv, TypeInv
<1>5. m \in Controllers /\ feed.left \in Seq(Types \X (0 .. Duration))
  BY <1>2 DEF TypeInv, Feeds
<1>6. /\ Sound(q) /\ Stays(m, q) /\ q.refused = m.refused /\ q.skipped = m.skipped
      /\ q.sb = m.sb /\ q.ranges = m.ranges /\ q.appended = m.appended
      /\ q.pending[t] # <<>> /\ \A u \in Types \ {t} : q.pending[u] = m.pending[u]
      /\ Row(q, t) = Append(Row(m, t), s) /\ \A u \in Types \ {t} : Row(q, u) = Row(m, u)
      /\ StillBehind(m, q) /\ (Ready(m) => Ready(q))
      /\ \A u \in Types : Cleared(m, u, load) => Cleared(q, u, load)
  <2> HIDE DEF s
  <2>1. s \in Segments /\ s.load = load
    BY <1>3
  <2>2. /\ Sound(q) /\ Stays(m, q) /\ q.refused = m.refused /\ q.skipped = m.skipped
        /\ q.sb = m.sb /\ q.ranges = m.ranges /\ q.appended = m.appended
        /\ q.pending[t] # <<>> /\ \A u \in Types \ {t} : q.pending[u] = m.pending[u]
        /\ Row(q, t) = Append(Row(m, t), s) /\ \A u \in Types \ {t} : Row(q, u) = Row(m, u)
        /\ StillBehind(m, q) /\ (Ready(m) => Ready(q))
        /\ \A u \in Types : Cleared(m, u, s.load) => Cleared(q, u, s.load)
    BY <1>2, <2>1, Queues
  <2> HIDE DEF q
  <2>3. QED
    BY <2>1, <2>2
\* one of the three ways: what all come to
<1> DEFINE Done == /\ Sound(m') /\ StillBehind(m, m')
                   /\ ~config.auto => \A u \in Types : Cleared(m, u, load) => Cleared(m', u, load)
                   /\ m'.ranges = m.ranges /\ m'.eos = m.eos /\ (m'.duration => m.duration \/ Mends)
                   /\ m.unmade \subseteq m'.unmade /\ (Known(m) => Known(m'))
                   /\ \A u \in Types : /\ u \notin m'.unmade => Row(m', u) = Row(q, u)
                                       /\ m.sb[u].there => m'.sb[u].there
                                       /\ m'.pending[u] # <<>> => q.pending[u] # <<>>
                   /\ m'.sb[t].there \/ t \in m'.unmade \/ t \in Range(m'.inits)
                   /\ Range(m.inits) \subseteq Range(m'.inits)
<1>7. /\ Done
      /\ \/ source = "open" /\ source' = "open" /\ m'.inits = m.inits
         \/ /\ source = "closed" /\ source' = "closed" /\ m'.sb = m.sb
            /\ m'.pending[t] # <<>>
  <2>1. CASE /\ source # "open" /\ source' = source
             /\ m' = [m EXCEPT !.inits = Append(@, t), !.pending[t] = Append(@, Segment(Init0))]
    <3>1. m' = [q EXCEPT !.inits = Append(m.inits, t)]
      BY <1>5, <2>1 DEF Queued, Controllers
    <3> HIDE DEF q
    <3>2. q \in Controllers /\ m.inits \in Seq(Types)
      BY <1>5, <1>6, Fields DEF Sound
    <3>3. Append(m.inits, t) \in Seq(Types) /\ Range(Append(m.inits, t)) = Range(m.inits) \cup {t}
      BY <3>2, Pushed
    <3>4. m' \in Controllers
      BY <3>1, <3>2, <3>3, Changed
    <3>5. /\ Rests(q, m') /\ m'.inits = Append(m.inits, t) /\ m'.eos = q.eos
          /\ m'.duration = q.duration /\ m'.unmade = q.unmade /\ m'.lastInit = q.lastInit
      BY <3>1, <3>2 DEF Rests, Controllers
    <3>6. Sound(m') /\ StillBehind(m, m')
      BY <1>6, <3>4, <3>5 DEF Sound, Rests, StillBehind, Behind
    <3>7. \A u \in Types : Cleared(m, u, load) => Cleared(m', u, load)
      <4>1. \A u \in Types : Cleared(q, u, load) => Cleared(m', u, load)
        BY <3>5 DEF Cleared, Rests
      <4>2. QED
        BY <1>6, <4>1
    <3>8. \A u \in Types : /\ Row(m', u) = Row(q, u)
                           /\ m.sb[u].there => m'.sb[u].there
                           /\ m'.pending[u] # <<>> => q.pending[u] # <<>>
      BY <1>6, <3>5 DEF Rests, Row
    <3>9. source = "closed"
      BY <1>2, <1>3, <1>4, <2>1 DEF TypeInv, Alive
    <3>10. m'.ranges = m.ranges /\ m'.eos = m.eos /\ m'.duration = m.duration /\ m'.sb = m.sb
           /\ m'.pending[t] # <<>> /\ m'.unmade = m.unmade /\ m'.lastInit = m.lastInit
      BY <1>6, <3>5 DEF Rests, Stays
    <3>11. Known(m) => Known(m')
      BY <3>10, Zenon DEF Known
    <3>12. QED
      BY <2>1, <3>3, <3>5, <3>6, <3>7, <3>8, <3>9, <3>10, <3>11
  <2>2. ASSUME source = "open", NEW o \in Outcomes, NEW fails \in BOOLEAN,
               m' = InitOnOpen(m, t, FALSE, fails, o), source' = Reopened(m'),
               ~(~m.sb[t].there /\ fails)
        PROVE  Done /\ m'.inits = m.inits /\ source' = "open"
    <3>1. m' = InitOnOpen(q, t, TRUE, fails, o)
      BY <1>5, <2>2, InitBehaves
    <3> HIDE DEF q
    <3>2. /\ Sound(m') /\ Forward(q, m') /\ StillBehind(q, m')
          /\ m'.ranges = q.ranges /\ (m'.sb[t].there \/ t \in m'.unmade)
          /\ Ready(q) => Ready(m') /\ StillCleared(q, m')
      BY <1>6, <3>1, InitOpened
    <3>3. ~config.auto => \A u \in Types : Cleared(m, u, load) => Cleared(m', u, load)
      <4>1. ~config.auto => Ready(m)
        BY <1>2, <1>3, <1>4, FirstReady
      <4>2. load \in Nat
        BY <1>4
      <4>3. QED
        BY <1>6, <3>2, <4>1, <4>2 DEF StillCleared
    <3>4. /\ m'.eos = m.eos /\ (m'.duration => m.duration \/ Mends) /\ m'.inits = m.inits
          /\ m.unmade \subseteq m'.unmade
          /\ \A u \in Types : /\ Row(m', u) = Row(q, u)
                              /\ m.sb[u].there => m'.sb[u].there
                              /\ m'.pending[u] # <<>> => q.pending[u] # <<>>
      BY <1>6, <3>2 DEF Forward, Stays
    <3>5. Known(m) => Known(m')
      <4>1. Known(m) => Known(q)
        BY <1>6, Zenon DEF Known, Stays
      <4>2. QED
        BY <3>2, <4>1 DEF Forward
    <3>6. StillBehind(m, m')
      BY <1>6, <3>2 DEF StillBehind
    <3>7. source' = "open"
      BY <2>2, Reopens
    <3>8. QED
      BY <1>6, <3>2, <3>3, <3>4, <3>5, <3>6, <3>7
  <2>3. ASSUME source = "open", NEW o \in Outcomes, NEW fails \in BOOLEAN,
               m' = InitOnOpen(m, t, FALSE, fails, o), source' = Reopened(m'),
               ~m.sb[t].there /\ fails
        PROVE  Done /\ m'.inits = m.inits /\ source' = "open"
    <3>1. m' = Unmade(m, t)
      <4>1. m' = [[m EXCEPT !.lastInit[t] = TRUE] EXCEPT !.unmade = @ \cup {t}]
        BY <2>3, Zenon DEF InitOnOpen
      <4>2. QED
        BY <4>1 DEF Unmade
    <3> HIDE DEF q
    <3>2. /\ Sound(m') /\ Forward(m, m') /\ StillBehind(m, m') /\ StillCleared(m, m')
          /\ Rests(m, m') /\ m'.inits = m.inits /\ m'.eos = m.eos /\ m'.duration = m.duration
          /\ m'.unmade = m.unmade \cup {t}
      BY <1>2, <3>1, UnmadeForward
    <3>3. \A u \in Types : Cleared(m, u, load) => Cleared(m', u, load)
      BY <1>4, <3>2 DEF StillCleared
    <3>4. ASSUME NEW u \in Types
          PROVE  /\ u \notin m'.unmade => Row(m', u) = Row(q, u)
                 /\ m.sb[u].there => m'.sb[u].there
                 /\ m'.pending[u] # <<>> => q.pending[u] # <<>>
      <4>1. /\ u # t => Row(m', u) = Row(q, u)
            /\ m'.pending[u] = m.pending[u] /\ m'.sb = m.sb
        BY <1>6, <3>2 DEF Rests, Row
      <4>2. QED
        BY <1>6, <3>2, <4>1
    <3>5. (Known(m) => Known(m')) /\ m'.ranges = m.ranges
      BY <3>2 DEF Forward, Rests
    <3>6. source' = "open"
      BY <2>3, Reopens
    <3>7. QED
      BY <3>2, <3>3, <3>4, <3>5, <3>6
  <2> HIDE DEF q, s, Done
  <2>4. CASE source = "open"
    <3>1. PICK o \in Outcomes, fails \in BOOLEAN :
            m' = InitOnOpen(m, t, FALSE, fails, o) /\ source' = Reopened(m')
      BY <1>1, <2>4
    <3>2. CASE ~m.sb[t].there /\ fails
      BY <2>3, <2>4, <3>1, <3>2
    <3>3. CASE ~(~m.sb[t].there /\ fails)
      BY <2>2, <2>4, <3>1, <3>3
    <3>4. QED
      BY <3>2, <3>3
  <2>5. CASE source # "open"
    BY <1>1, <2>1, <2>5 DEF q, s
  <2>6. QED
    BY <2>4, <2>5
<1> HIDE DEF q, s
<1>8. Alive' /\ source' # "ended"
  BY <1>7 DEF Alive
<1>9. TypeInv'
  BY <1>1, <1>2, <1>3, <1>7 DEF TypeInv, Sound
<1>10. NothingLost' /\ BehindInv' /\ ClearInv'
  <2>1. /\ t \notin m'.unmade => Row(m', t) = Append(Row(m, t), s)
        /\ \A u \in Types \ {t} : u \notin m'.unmade => Row(m', u) = Row(m, u)
    BY <1>6, <1>7
  <2>2. brought \in [Types -> Seq(Segments)]
    BY <1>2 DEF TypeInv
  <2>3. NothingLost'
    BY <1>2, <1>3, <1>7, <2>1, <2>2, RowsGrow
  <2>4. BehindInv'
    BY <1>1, <1>2, <1>7, BehindKept
  <2>5. ClearInv'
    BY <1>1, <1>2, <1>3, <1>4, <1>7, ClearKept
  <2>6. QED
    BY <2>3, <2>4, <2>5
<1>11. PhaseInv'
  <2>1. ASSUME NEW i \in DOMAIN feed'.left PROVE Led(feed.left[i][1], i)'
    <3> DEFINE u == feed.left[i + 1][1]
    <3>1. Led(u, i + 1) /\ feed'.left[i] = feed.left[i + 1] /\ u \in Types /\ i \in Nat
      BY <1>2, <1>3, <1>5 DEF PhaseInv
    <3> HIDE DEF u
    <3>2. CASE m.sb[u].there \/ u \in m.unmade \/ u \in Range(m.inits) \/ u = t
      BY <1>7, <3>1, <3>2 DEF Led, u
    <3>3. CASE ~(m.sb[u].there \/ u \in m.unmade \/ u \in Range(m.inits) \/ u = t)
      <4>1. PICK j \in 1 .. i + 1 : feed.left[j] = <<u, Init0>>
        BY <3>1, <3>3 DEF Led
      <4>2. j # 1
        BY <1>3, <3>3, <4>1
      <4>3. j - 1 \in 1 .. i /\ j - 1 \in DOMAIN feed'.left /\ feed'.left[j - 1] = feed.left[j]
        <5>1. j \in Nat /\ j >= 2 /\ j - 1 \in 1 .. i
          BY <3>1, <4>1, <4>2
        <5>2. DOMAIN feed'.left = 1 .. Len(feed'.left) /\ Len(feed'.left) \in Nat
          <6>1. feed'.left \in Seq(Types \X (0 .. Duration))
            BY <1>3 DEF Feeds
          <6> DEFINE w == feed'.left
          <6> HIDE DEF w
          <6>2. w \in Seq(Types \X (0 .. Duration)) => DOMAIN w = 1 .. Len(w) /\ Len(w) \in Nat
            OBVIOUS
          <6>3. QED
            BY <6>1, <6>2 DEF w
        <5>3. j - 1 \in DOMAIN feed'.left
          BY <2>1, <3>1, <5>1, <5>2
        <5>4. feed'.left[j - 1] = feed.left[(j - 1) + 1]
          BY <1>3, <5>3
        <5>5. (j - 1) + 1 = j
          BY <5>1
        <5>6. QED
          BY <5>1, <5>3, <5>4, <5>5
      <4>4. QED
        BY <3>1, <4>1, <4>3 DEF Led, u
    <3>4. QED
      BY <3>2, <3>3
  <2>2. /\ source' = "closed" <=> opening' = "awaited"
        /\ opening' # "done" => load' = 0
        /\ opening' = "done" => m'.inits = <<>>
        /\ load' = 0
    BY <1>1, <1>2, <1>3, <1>4, <1>7 DEF PhaseInv
  <2>3. source' = "closed" => /\ \A u \in Types : ~m'.sb[u].there
                              /\ feed'.left = Feed \/ HasPendingSegments(m')
    BY <1>2, <1>3, <1>7 DEF PhaseInv, HasPendingSegments
  <2>4. ASSUME NEW u \in Types, m'.pending[u] # <<>>
        PROVE  m'.sb[u].there \/ u \in m'.unmade \/ u \in Range(m'.inits)
    <3>1. CASE u = t
      BY <1>7, <3>1
    <3>2. CASE u # t
      <4>1. m.pending[u] # <<>>
        BY <1>6, <1>7, <2>4, <3>2
      <4>2. QED
        BY <1>2, <1>3, <1>7, <4>1 DEF PhaseInv
    <3>3. QED
      BY <3>1, <3>2
  <2>5. /\ ~feed'.complete /\ ~m'.eos
        /\ (m'.duration => Mends') /\ Known(m')
    BY <1>1, <1>2, <1>3, <1>4, <1>7 DEF PhaseInv, Mends
  <2>6. QED
    BY <1>8, <2>1, <2>2, <2>3, <2>4, <2>5 DEF PhaseInv
<1>12. StallInv'
  BY <1>3, <1>4, <1>8 DEF StallInv
<1>13. QED
  BY <1>7, <1>9, <1>10, <1>11, <1>12 DEF IInv

\* A media segment arrives, and may set off the automatic clean-up.
LEMMA MediaSegmentIInv ==
  ASSUME IInv, NEW t \in Types, AppendMediaSegment(t)
  PROVE  IInv'
<1> DEFINE s == Segment(feed.left[1][2])
           q == Queued(m, t, s)
           c == IF NeedCleanup(q) THEN DoCleanup(q) ELSE q
           Idle == c.sb[t].there /\ ~Updating(c, t) /\ ~HasPendingRemoveRanges(c)
<1>1. /\ Brings(t, FALSE) /\ UNCHANGED <<opening, now, config, load, back>>
      /\ source' = Reopened(m')
  BY DEF AppendMediaSegment
<1>2. TypeInv /\ Sound(m) /\ PhaseInv /\ StallInv /\ NothingLost /\ BehindInv /\ ClearInv
  BY DEF IInv
<1>3. /\ Alive /\ feed.left # <<>> /\ feed' \in Feeds
      /\ feed'.left = Tail(feed.left) /\ feed'.complete = feed.complete
      /\ 1 \in DOMAIN feed.left /\ Head(feed.left) = feed.left[1]
      /\ feed.left[1][1] = t /\ feed.left[1][2] # Init0
      /\ \A i \in DOMAIN feed'.left : /\ i + 1 \in DOMAIN feed.left
                                      /\ feed'.left[i] = feed.left[i + 1]
      /\ s \in Segments /\ s.load = load
      /\ brought' = [brought EXCEPT ![t] = Append(brought[t], s)]
      /\ brought' \in [Types -> Seq(Segments)]
  BY <1>1, <1>2, Arrives
<1>4. PICK o \in Outcomes : m' = IF Idle THEN DoAppendSegments(c, o) ELSE c
  BY <1>3 DEF AppendMediaSegment, Queued
<1>5. /\ m \in Controllers /\ feed.left \in Seq(Types \X (0 .. Duration)) /\ now \in Nat /\ load \in Nat
      /\ source \in {"closed", "open", "ended"} /\ ~feed.complete
  BY <1>2, <1>3 DEF TypeInv, Feeds, Alive, PhaseInv
<1> HIDE DEF s
<1>6. /\ Sound(q) /\ Stays(m, q) /\ q.refused = m.refused /\ q.skipped = m.skipped
      /\ q.sb = m.sb /\ q.ranges = m.ranges /\ q.appended = m.appended
      /\ q.pending[t] # <<>> /\ \A u \in Types \ {t} : q.pending[u] = m.pending[u]
      /\ Row(q, t) = Append(Row(m, t), s) /\ \A u \in Types \ {t} : Row(q, u) = Row(m, u)
      /\ StillBehind(m, q) /\ (Ready(m) => Ready(q))
      /\ \A u \in Types : Cleared(m, u, s.load) => Cleared(q, u, s.load)
  <2>1. s \in Segments
    BY <1>3
  <2>2. QED
    BY <1>2, <2>1, Queues
<1>p. q.pending[t] = Append(m.pending[t], s)
  BY <1>5, Fields DEF Queued, Controllers
<1> HIDE DEF q
<1>7. Cleans(q, c) /\ (~config.auto => c = q)
  <2>1. CASE NeedCleanup(q)
    <3>1. Cleans(q, DoCleanup(q))
      BY <1>5, <1>6, CleansAll
    <3>2. config.auto
      BY <2>1 DEF NeedCleanup
    <3>3. QED
      BY <2>1, <3>1, <3>2
  <2>2. CASE ~NeedCleanup(q)
    <3>1. c = q
      BY <2>2
    <3>2. QED
      BY <1>6, <3>1, ForwardRefl DEF Cleans
  <2>3. QED
    BY <2>1, <2>2
<1> HIDE DEF c
<1>8. /\ Sound(c) /\ Forward(q, c) /\ SameThere(q, c) /\ StillBehind(q, c)
      /\ c.pending = q.pending
      /\ \A u \in Types : c.ranges[u] # <<>> => q.ranges[u] # <<>> \/ AnyUpdating(c)
  BY <1>7 DEF Cleans
<1>9. /\ Sound(m') /\ Forward(c, m') /\ SameThere(c, m') /\ StillBehind(c, m')
      /\ m'.ranges = c.ranges /\ StillCleared(c, m')
      /\ Idle => \A u \in Types : ~m'.refused /\ c.sb[u].there /\ c.pending[u] # <<>> => Given(c, m', u)
      /\ ~Idle => m' = c
  <2>1. CASE Idle
    <3>1. Ready(c)
      BY <2>1 DEF Ready, HasPendingRemoveRanges
    <3>2. m' = DoAppendSegments(c, o)
      BY <1>4, <2>1
    <3> HIDE DEF Idle
    <3>3. QED
      BY <1>8, <2>1, <3>1, <3>2, AppendsAll
  <2>2. CASE ~Idle
    <3>1. m' = c
      BY <1>4, <2>2
    <3> HIDE DEF Idle
    <3>2. QED
      BY <1>8, <2>2, <3>1, ForwardRefl
  <2>3. QED
    BY <2>1, <2>2
<1>10. Forward(q, m')
  BY <1>8, <1>9, ForwardTrans
<1>11. /\ m'.inits = m.inits /\ m'.eos = m.eos /\ m'.early = m.early /\ (m.refused => m'.refused)
       /\ (m'.duration => m.duration \/ Mends)
       /\ m'.unmade = m.unmade /\ m'.lastInit = m.lastInit
       /\ \A u \in Types : /\ Row(m', u) = Row(q, u) /\ m'.sb[u].there = m.sb[u].there
                           /\ m'.sb[u].ends = m.sb[u].ends
                           /\ Updating(m, u) => Updating(m', u)
                           /\ m'.pending[u] # <<>> => q.pending[u] # <<>>
  <2>1. /\ m'.inits = m.inits /\ m'.eos = m.eos /\ m'.early = m.early /\ (m.refused => m'.refused)
        /\ (m'.duration => m.duration \/ Mends)
    BY <1>6, <1>10 DEF Forward, Stays
  <2>2. ASSUME NEW u \in Types
        PROVE  /\ Row(m', u) = Row(q, u) /\ m'.sb[u].there = m.sb[u].there
               /\ m'.sb[u].ends = m.sb[u].ends
               /\ Updating(m, u) => Updating(m', u)
               /\ m'.pending[u] # <<>> => q.pending[u] # <<>>
    <3>1. Updating(m, u) => Updating(q, u)
      BY <1>6 DEF Updating
    <3>2. m'.sb[u].there = m.sb[u].there /\ q.sb[u] = m.sb[u]
      BY <1>6, <1>8, <1>9 DEF SameThere
    <3>3. QED
      BY <1>10, <3>1, <3>2 DEF Forward
  <2>3. m'.unmade = m.unmade /\ m'.lastInit = m.lastInit
    BY <1>6, <1>8, <1>9, Zenon DEF SameThere, Stays
  <2>4. QED
    BY <2>1, <2>2, <2>3
<1>12. /\ source' = "ended" => source = "ended" /\ ~AnyUpdating(m')
       /\ source' = "closed" <=> source = "closed"
       /\ source' \in {"closed", "open", "ended"} /\ Alive'
  <2>1. /\ source' = "ended" => source = "ended" /\ ~AnyUpdating(m')
        /\ source' = "closed" <=> source = "closed"
        /\ source' \in {source, "open"}
    BY <1>1, Reopens
  <2>2. QED
    BY <1>5, <2>1 DEF Alive
<1>13. TypeInv'
  BY <1>1, <1>2, <1>3, <1>9, <1>12 DEF TypeInv, Sound
<1>14. NothingLost' /\ BehindInv' /\ ClearInv'
  <2>1. /\ Row(m', t) = Append(Row(m, t), s) /\ \A u \in Types \ {t} : Row(m', u) = Row(m, u)
        /\ m.unmade \subseteq m'.unmade
    BY <1>6, <1>11
  <2>2. brought \in [Types -> Seq(Segments)]
    BY <1>2 DEF TypeInv
  <2>3. NothingLost'
    BY <1>2, <1>3, <2>1, <2>2, RowsGrow
  <2>4. StillBehind(m, m')
    BY <1>6, <1>8, <1>9 DEF StillBehind
  <2>5. BehindInv'
    BY <1>1, <1>2, <2>4, BehindKept
  <2>6. ASSUME ~config.auto PROVE c = q
    BY <1>7, <2>6
  <2>7. ~config.auto => \A u \in Types : Cleared(m, u, load) => Cleared(m', u, load)
    BY <1>3, <1>5, <1>6, <1>9, <2>6 DEF StillCleared
  <2>8. ~config.auto => \A u \in Types : m.ranges[u] = <<>> => m'.ranges[u] = <<>>
    BY <1>6, <1>9, <2>6
  <2>9. ClearInv'
    BY <1>1, <1>2, <1>3, <1>11, <2>7, <2>8, ClearKept
  <2>10. QED
    BY <2>3, <2>5, <2>9
<1>15. PhaseInv'
  <2>0. Led(t, 1) => m.sb[t].there \/ t \in m.unmade \/ t \in Range(m.inits)
    <3>1. ASSUME NEW j \in 1 .. 1 PROVE feed.left[j] # <<t, Init0>>
      BY <1>3
    <3>2. QED
      BY <3>1 DEF Led
  <2>1. ASSUME NEW i \in DOMAIN feed'.left PROVE Led(feed.left[i][1], i)'
    <3> DEFINE u == feed.left[i + 1][1]
    <3>1. Led(u, i + 1) /\ feed'.left[i] = feed.left[i + 1] /\ u \in Types /\ i \in Nat
      BY <1>2, <1>3, <1>5 DEF PhaseInv
    <3> HIDE DEF u
    <3>2. CASE m.sb[u].there \/ u \in m.unmade \/ u \in Range(m.inits)
      BY <1>11, <3>1, <3>2 DEF Led, u
    <3>3. CASE ~(m.sb[u].there \/ u \in m.unmade \/ u \in Range(m.inits))
      <4>1. PICK j \in 1 .. i + 1 : feed.left[j] = <<u, Init0>>
        BY <3>1, <3>3 DEF Led
      <4>2. j # 1
        BY <1>3, <4>1
      <4>3. j - 1 \in 1 .. i /\ j - 1 \in DOMAIN feed'.left /\ feed'.left[j - 1] = feed.left[j]
        <5>1. j \in Nat /\ j >= 2 /\ j - 1 \in 1 .. i
          BY <3>1, <4>1, <4>2
        <5>2. DOMAIN feed'.left = 1 .. Len(feed'.left) /\ Len(feed'.left) \in Nat
          <6>1. feed'.left \in Seq(Types \X (0 .. Duration))
            BY <1>3 DEF Feeds
          <6> DEFINE w == feed'.left
          <6> HIDE DEF w
          <6>2. w \in Seq(Types \X (0 .. Duration)) => DOMAIN w = 1 .. Len(w) /\ Len(w) \in Nat
            OBVIOUS
          <6>3. QED
            BY <6>1, <6>2 DEF w
        <5>3. j - 1 \in DOMAIN feed'.left
          BY <2>1, <3>1, <5>1, <5>2
        <5>4. feed'.left[j - 1] = feed.left[(j - 1) + 1]
          BY <1>3, <5>3
        <5>5. (j - 1) + 1 = j
          BY <5>1
        <5>6. QED
          BY <5>1, <5>3, <5>4, <5>5
      <4>4. QED
        BY <3>1, <4>1, <4>3 DEF Led, u
    <3>4. QED
      BY <3>2, <3>3
  <2>2. /\ source' = "closed" <=> opening' = "awaited"
        /\ opening' # "done" => load' = 0
        /\ opening' = "done" => m'.inits = <<>>
        /\ source' = "ended" => ~AnyUpdating(m')
    BY <1>1, <1>2, <1>3, <1>11, <1>12 DEF PhaseInv
  <2>3. ASSUME source' = "closed"
        PROVE  /\ \A u \in Types : ~m'.sb[u].there
               /\ HasPendingSegments(m')
    <3>1. \A u \in Types : ~m'.sb[u].there
      BY <1>2, <1>3, <1>11, <1>12, <2>3 DEF PhaseInv
    <3>2. ~c.sb[t].there
      BY <1>9, <3>1 DEF SameThere
    <3>3. m'.pending[t] # <<>>
      BY <1>6, <1>8, <1>9, <3>2
    <3>4. QED
      BY <3>1, <3>3 DEF HasPendingSegments
  <2>4. ASSUME NEW u \in Types, m'.pending[u] # <<>>
        PROVE  m'.sb[u].there \/ u \in m'.unmade \/ u \in Range(m'.inits)
    <3>1. CASE u = t
      <4>1. Led(t, 1)
        BY <1>2, <1>3 DEF PhaseInv
      <4>2. QED
        BY <1>11, <2>0, <3>1, <4>1
    <3>2. CASE u # t
      <4>1. m.pending[u] # <<>>
        BY <1>6, <1>11, <2>4, <3>2
      <4>2. QED
        BY <1>2, <1>3, <1>11, <4>1 DEF PhaseInv
    <3>3. QED
      BY <3>1, <3>2
  <2>5. load' > 0 => /\ \A u \in Types : m'.sb[u].there \/ u \in m'.unmade
                     /\ \A i \in DOMAIN feed'.left : feed'.left[i][2] # Init0
    <3>1. load > 0 => /\ \A u \in Types : m.sb[u].there \/ u \in m.unmade
                      /\ \A i \in DOMAIN feed.left : feed.left[i][2] # Init0
      BY <1>2, <1>3 DEF PhaseInv
    <3>2. load' = load
      BY <1>1
    <3>3. ASSUME NEW i \in DOMAIN feed'.left, load > 0 PROVE feed'.left[i][2] # Init0
      BY <1>3, <3>1, <3>3
    <3>4. QED
      BY <1>11, <3>1, <3>2, <3>3
  <2>6. /\ ~feed'.complete
        /\ (m'.eos \/ source' = "ended") /\ load' = 0 => feed'.complete
        /\ m'.duration => Mends'
    BY <1>1, <1>2, <1>3, <1>5, <1>11, <1>12 DEF PhaseInv, Mends
  <2>7. Known(m')
    BY <1>2, <1>3, <1>11 DEF PhaseInv, Known
  <2>8. QED
    BY <1>12, <2>1, <2>2, <2>3, <2>4, <2>5, <2>6, <2>7 DEF PhaseInv
<1>16. StallInv'
  <2>1. SUFFICES ASSUME ~m'.refused, ~m'.early, m'.unmade = {}, ~Mends, source' = "ended"
                 PROVE  FALSE
    BY <1>1, <1>3, <1>5 DEF StallInv, Mends
  <2>2. source = "ended" /\ ~AnyUpdating(m') /\ ~m.refused /\ ~m.early /\ m.unmade = {}
    BY <1>11, <1>12, <2>1
  <2>3. load > 0 /\ m.sb[t].there /\ ~HasPendingRemoveRanges(m) /\ ~HasPendingSegments(m)
    BY <1>2, <1>3, <1>5, <2>1, <2>2 DEF PhaseInv, StallInv
  <2>4. ~AnyUpdating(c)
    BY <1>9, <2>2 DEF Forward, AnyUpdating
  <2>5. ~HasPendingRemoveRanges(c)
    BY <1>6, <1>8, <2>3, <2>4 DEF HasPendingRemoveRanges
  <2>6. c.sb[t].there /\ ~Updating(c, t) /\ c.pending[t] # <<>>
    <3>1. ~Updating(c, t)
      BY <2>4 DEF AnyUpdating
    <3>2. c.sb[t].there
      BY <1>6, <1>8, <2>3 DEF SameThere
    <3>3. QED
      BY <1>6, <1>8, <3>1, <3>2
  <2>7. ~Empty(t, Head(c.pending[t]))
    <3>1. c.pending[t] = Append(<<>>, s)
      BY <1>8, <1>p, <2>3 DEF HasPendingSegments
    <3>2. Head(Append(<<>>, s)) = s
      OBVIOUS
    <3>3. s.n # Init0
      BY <1>3 DEF s, Segment
    <3>4. QED
      BY <3>1, <3>2, <3>3 DEF Empty
  <2>8. Given(c, m', t)
    BY <1>9, <2>1, <2>5, <2>6
  <2>9. Updating(m', t)
    BY <2>7, <2>8 DEF Given
  <2>10. QED
    BY <2>2, <2>9 DEF AnyUpdating
<1>17. QED
  BY <1>9, <1>13, <1>14, <1>15, <1>16 DEF IInv

\* The player seeks.
LEMMA SeekIInv ==
  ASSUME IInv, Seek
  PROVE  IInv'
<1>1. /\ source \in {"open", "ended"} /\ opening = "done"
      /\ \A t \in Types : m.lastInit[t]
      /\ load' = load + 1 /\ source' = Reopened(m')
      /\ brought' = [t \in Types |-> IF m.sb[t].there THEN Anew(m, t) ELSE <<>>]
      /\ UNCHANGED <<opening, config, back>>
  <2>1. brought' = [t \in Types |-> IF config.safari /\ m.sb[t].there /\ m.lastInit[t]
                                   THEN <<[n |-> Init0, load |-> load + 1]>> ELSE <<>>]
    BY DEF Seek
  <2>2. ASSUME NEW t \in Types
        PROVE  (IF config.safari /\ m.sb[t].there /\ m.lastInit[t]
                THEN <<[n |-> Init0, load |-> load + 1]>> ELSE <<>>)
                 = IF m.sb[t].there THEN Anew(m, t) ELSE <<>>
    BY Zenon DEF Anew
  <2>3. QED
    BY <2>1, <2>2 DEF Seek
<1>2. TypeInv /\ Sound(m) /\ PhaseInv /\ NothingLost
  BY DEF IInv
<1>3. PICK place \in {s[2] : s \in Range(Feed)} \ {Init0} :
        now' = place /\ feed' = [complete |-> FALSE, left |-> LoadFrom(place)]
  BY DEF Seek
<1>4. place \in Nat \ {0}
  <2>1. \A s \in Range(Feed) : s[2] \in 0 .. Duration
    BY MSEAssumption DEF Range
  <2>2. QED
    BY <2>1, Constants DEF Init0
<1>5. PICK o \in Outcomes : m' = SeekOf(SeekOf(m, "video", o), "audio", o)
  BY DEF Seek
<1> DEFINE y == SeekOf(m, "video", o)
<1>6. load \in Nat /\ Alive /\ m.inits = <<>>
      /\ \A t \in Types : m.sb[t].there \/ t \in m.unmade
  <2>1. load \in Nat /\ Alive
    BY <1>1, <1>2 DEF TypeInv, Alive
  <2>2. m.inits = <<>> /\ Known(m)
    BY <1>1, <1>2, <2>1 DEF PhaseInv
  <2>3. QED
    BY <1>1, <2>1, <2>2 DEF Known
<1>7. "video" \in Types /\ "audio" \in Types /\ "video" # "audio"
      /\ \A t \in Types : t = "video" \/ t = "audio"
  BY DEF Types
<1>a. \A x : \A t \in Types : OthersKept(x, x, t)
  BY DEF OthersKept
<1>8. /\ Sound(y) /\ OthersKept(m, y, "video")
      /\ m.sb["video"].there => Sought(m, y, "video")
  <2>1. CASE m.sb["video"].there
    <3>1. Sought(m, y, "video")
      BY <1>2, <1>6, <1>7, <2>1, Seeks
    <3>2. QED
      BY <3>1 DEF Sought
  <2>2. CASE ~m.sb["video"].there
    <3>1. y = m
      BY <2>2 DEF SeekOf
    <3>2. QED
      BY <1>2, <1>7, <1>a, <2>2, <3>1
  <2>3. QED
    BY <2>1, <2>2
<1>9. /\ Sound(m') /\ OthersKept(y, m', "audio")
      /\ m.sb["audio"].there => Sought(y, m', "audio")
  <2>1. m' = SeekOf(y, "audio", o)
    BY <1>5
  <2> HIDE DEF y
  <2>2. y.sb["audio"].there = m.sb["audio"].there
    BY <1>7, <1>8 DEF OthersKept
  <2>3. CASE m.sb["audio"].there
    <3>1. Sought(y, m', "audio")
      BY <1>6, <1>7, <1>8, <2>1, <2>2, <2>3, Seeks
    <3>2. QED
      BY <3>1 DEF Sought
  <2>4. CASE ~m.sb["audio"].there
    <3>1. m' = y
      BY <2>1, <2>2, <2>4 DEF SeekOf
    <3>2. QED
      BY <1>7, <1>8, <1>a, <2>4, <3>1
  <2>5. QED
    BY <2>3, <2>4
<1> HIDE DEF y
<1>10. "video" \in Types \ {"audio"} /\ "audio" \in Types \ {"video"}
  BY <1>7
<1>11. /\ m'.inits = <<>> /\ y.lastInit = m.lastInit /\ m'.lastInit = m.lastInit
       /\ m'.unmade = m.unmade /\ (y.refused => m'.refused)
       /\ (m'.duration => m.duration \/ Mends)
       /\ \A t \in Types : m'.sb[t].there = m.sb[t].there
  BY <1>6, <1>8, <1>9 DEF OthersKept
<1>12. /\ source' = "ended" => source = "ended" /\ ~AnyUpdating(m')
       /\ source' \in {"open", "ended"} /\ source' # "closed" /\ Alive'
  <2>1. /\ source' = "ended" => source = "ended" /\ ~AnyUpdating(m')
        /\ source' \in {source, "open"}
    BY <1>1, Reopens
  <2>2. QED
    BY <1>1, <2>1 DEF Alive
<1>13. \A t \in Types : m.sb[t].there => Row(m', t) = Anew(m, t)
  <2>1. m.sb["audio"].there => Row(m', "audio") = Anew(m, "audio")
    BY <1>9, <1>11 DEF Sought, Anew
  <2>2. Row(m', "video") = Row(y, "video")
    BY <1>9, <1>10 DEF OthersKept
  <2>3. m.sb["video"].there => Row(y, "video") = Anew(m, "video")
    BY <1>8 DEF Sought
  <2>4. QED
    BY <1>7, <2>1, <2>2, <2>3
<1>14. \A t \in Types : m.sb[t].there => Cleared(m', t, load + 1)
  <2>1. /\ m.sb["audio"].there => Cleared(m', "audio", load + 1)
        /\ m.sb["video"].there => Cleared(y, "video", load + 1)
    BY <1>8, <1>9 DEF Sought
  <2>2. load + 1 \in Nat
    BY <1>6
  <2>3. m.sb["video"].there => Cleared(m', "video", load + 1)
    BY <1>9, <1>10, <2>1, <2>2 DEF OthersKept
  <2>4. QED
    BY <1>7, <2>1, <2>3
<1>15. feed' \in Feeds /\ feed'.complete = FALSE
       /\ \A i \in DOMAIN feed'.left : feed'.left[i][2] # Init0 /\ feed'.left[i][1] \in Types
  <2>1. LoadFrom(place) \in Seq(Types \X (0 .. Duration))
        /\ \A i \in DOMAIN LoadFrom(place) : LoadFrom(place)[i][2] # Init0
    BY <1>4, LoadsFrom
  <2>2. feed'.left = LoadFrom(place) /\ feed'.complete = FALSE
    BY <1>3
  <2>3. feed' \in Feeds
    BY <1>3, <2>1 DEF Feeds
  <2>4. QED
    BY <2>1, <2>2, <2>3
<1>16. TypeInv'
  <2>1. brought' \in [Types -> Seq(Segments)]
    <3>1. [n |-> Init0, load |-> load + 1] \in Segments
      BY <1>6, Constants DEF Segments, Init0
    <3>2. \A t \in Types : Anew(m, t) \in Seq(Segments)
      BY <3>1 DEF Anew
    <3>3. QED
      BY <1>1, <3>2
  <2>2. now' \in Nat /\ load' \in Nat /\ m' \in Controllers
    BY <1>1, <1>3, <1>4, <1>6, <1>9 DEF Sound
  <2>3. QED
    BY <1>1, <1>2, <1>12, <1>15, <2>1, <2>2 DEF TypeInv
<1>17. NothingLost' /\ BehindInv' /\ ClearInv'
  <2>1. \A t \in Types \ m'.unmade : brought'[t] = Row(m', t)
    BY <1>1, <1>6, <1>11, <1>13
  <2>2. NothingLost'
    BY <2>1, Zenon DEF NothingLost, Row
  <2>3. load' \in Nat /\ load' # 0
    BY <1>1, <1>6
  <2>4. BehindInv'
    BY <2>3 DEF BehindInv
  <2>5. ClearInv'
    BY <1>1, <1>11, <1>14, <2>3 DEF ClearInv
  <2>6. QED
    BY <2>2, <2>4, <2>5
<1>18. PhaseInv'
  <2>1. \A t \in Types : m'.sb[t].there \/ t \in m'.unmade
    BY <1>6, <1>11
  <2>2. \A i \in DOMAIN feed'.left : Led(feed.left[i][1], i)'
    BY <1>15, <2>1 DEF Led
  <2>3. load' # 0 /\ (m'.duration => Mends') /\ Known(m')
    BY <1>1, <1>2, <1>6, <1>11, <2>1 DEF PhaseInv, Mends, Known
  <2>4. QED
    BY <1>1, <1>2, <1>6, <1>11, <1>12, <1>15, <2>1, <2>2, <2>3 DEF PhaseInv
<1>19. StallInv'
  <2>1. SUFFICES ASSUME ~Mends, ~m'.refused, m'.unmade = {}, source' = "ended"
                 PROVE  ~HasPendingSegments(m') /\ ~HasPendingRemoveRanges(m')
    BY <1>1, <1>15 DEF StallInv, Mends
  <2>2. ~Updating(m', "audio") /\ ~Updating(m', "video")
    BY <1>7, <1>12, <2>1 DEF AnyUpdating
  <2>3. /\ y.ranges["video"] = <<>> => m'.ranges["video"] = <<>>
        /\ y.pending["video"] = <<>> => m'.pending["video"] = <<>>
        /\ Updating(y, "video") => Updating(m', "video")
    BY <1>9, <1>10 DEF OthersKept
  <2>4. m.sb["audio"].there /\ m.sb["video"].there
    BY <1>6, <1>7, <1>11, <2>1
  <2>5. m'.pending["audio"] = <<>> /\ m'.ranges["audio"] = <<>>
    BY <1>9, <2>1, <2>2, <2>4 DEF Sought
  <2>6. y.pending["video"] = <<>> /\ y.ranges["video"] = <<>>
    BY <1>8, <1>11, <2>1, <2>2, <2>3, <2>4 DEF Sought
  <2>7. QED
    BY <1>7, <2>3, <2>5, <2>6 DEF HasPendingSegments, HasPendingRemoveRanges
<1>20. QED
  BY <1>9, <1>16, <1>17, <1>18, <1>19 DEF IInv

-----------------------------------------------------------------------------
(* The theorems. *)

\* The invariant is inductive.
LEMMA IInvInductive == Spec => []IInv
<1>1. Init => IInv
  BY InitIInv
<1>2. IInv /\ [Next]_vars => IInv'
  <2>1. SUFFICES ASSUME IInv, [Next]_vars PROVE IInv'
    OBVIOUS
  <2>2. CASE UNCHANGED vars
    <3>1. UNCHANGED <<source, opening, m, feed, now, config, load, brought, back>>
      BY <2>2 DEF vars
    <3>2. Alive' <=> Alive
      BY <3>1 DEF Alive
    <3>3. TypeInv' /\ Sound(m')
      BY <2>1, <3>1 DEF IInv, TypeInv
    <3>4. NothingLost' /\ BehindInv'
      BY <2>1, <3>1, <3>2 DEF IInv, NothingLost, BehindInv, Behind
    <3>5. ClearInv'
      BY <2>1, <3>1, <3>2 DEF IInv, ClearInv, Cleared
    <3>6. PhaseInv'
      <4>1. ASSUME NEW t, NEW i, Led(t, i) PROVE Led(t, i)'
        BY <3>1, <4>1 DEF Led
      <4>2. QED
        BY <2>1, <3>1, <3>2, <4>1
           DEF IInv, PhaseInv, AnyUpdating, Updating, HasPendingSegments, Known, Mends
    <3>7. StallInv'
      BY <2>1, <3>1, <3>2
         DEF IInv, StallInv, Busy, Updating, HasPendingSegments, HasPendingRemoveRanges, Mends
    <3>8. QED
      BY <3>3, <3>4, <3>5, <3>6, <3>7 DEF IInv
  <2>3. CASE SourceOpens
    BY <2>1, <2>3, SourceOpensIInv
  <2>4. CASE OnSourceOpen
    BY <2>1, <2>4, OpenIInv
  <2>5. CASE OnSourceOpenHangs
    BY <2>1, <2>5, HangsIInv
  <2>6. CASE Play
    BY <2>1, <2>6, PlayIInv
  <2>7. CASE LoadingComplete
    BY <2>1, <2>7, CompleteIInv
  <2>8. CASE Seek
    BY <2>1, <2>8, SeekIInv
  <2>9. CASE DetachMediaElement
    BY <2>1, <2>9, DetachIInv
  <2>10. ASSUME NEW t \in Types, OperationEnds(t) PROVE IInv'
    BY <2>1, <2>10, EndsIInv
  <2>11. ASSUME NEW t \in Types, OnUpdateEnd(t) PROVE IInv'
    BY <2>1, <2>11, UpdateEndIInv
  <2>12. ASSUME NEW t \in Types, AppendInitSegment(t) PROVE IInv'
    BY <2>1, <2>12, InitSegmentIInv
  <2>13. ASSUME NEW t \in Types, AppendMediaSegment(t) PROVE IInv'
    BY <2>1, <2>13, MediaSegmentIInv
  <2>14. QED
    BY <2>1, <2>2, <2>3, <2>4, <2>5, <2>6, <2>7, <2>8, <2>9, <2>10, <2>11, <2>12, <2>13 DEF Next
<1>3. QED
  BY <1>1, <1>2, PTL DEF Spec

\* Whatever is deferred while the source opens or a buffer works, refused for
\* want of room and put back, or dropped by a seek: what _doAppendSegments took
\* from a queue (for the buffer, or because the segment holds no data) and what
\* still waits there is what the transmuxer brought of this load, in its order,
\* each segment once, for each type but those whose addSourceBuffer failed.
THEOREM SegmentsKept == Spec => []NothingLost
<1>1. IInv => NothingLost
  BY DEF IInv
<1>2. QED
  BY <1>1, IInvInductive, PTL

\* Once the ranges that seek noted are removed, a buffer holds the media
\* segments appended since, and none of an earlier load.
THEOREM SeekEmpties == Spec => []SeekClears
<1>1. IInv => SeekClears
  <2>1. SUFFICES ASSUME IInv, ~config.auto, Alive, NEW t \in Types, ~Updating(m, t), m.ranges[t] = <<>>
                 PROVE  m.sb[t].buffered = {s \in Range(m.appended[t]) : s.n # Init0}
    BY DEF SeekClears
  <2>2. CASE m.sb[t].there
    <3>1. Cleared(m, t, load)
      BY <2>1, <2>2 DEF IInv, ClearInv
    <3>2. MediaOf(Range(m.appended[t])) = m.sb[t].buffered
      BY <2>1, <3>1 DEF Cleared, ClearedBuffer, Updating
    <3>3. QED
      BY <3>2 DEF MediaOf
  <2>3. CASE ~m.sb[t].there
    <3>1. m.sb[t].buffered = {} /\ m.appended[t] = <<>>
      BY <2>1, <2>3, SoundAt DEF IInv
    <3>2. QED
      BY <3>1 DEF Range
  <2>4. QED
    BY <2>2, <2>3
<1>2. QED
  BY <1>1, IInvInductive, PTL

\* What _doCleanupSourceBuffer notes is behind the playback position, and is
\* behind it still when a buffer comes to remove it.
THEOREM CleanupStaysBehind == Spec => []CleanupBehind
<1>1. IInv => CleanupBehind
  BY DEF IInv, BehindInv, Behind, CleanupBehind
<1>2. QED
  BY <1>1, IInvInductive, PTL

\* A complete load with no operation under way and no event to come is all in
\* the buffers, nothing is left to be removed, and the source has been ended:
\* no queue waits for an event that _onSourceBufferUpdateEnd will not see.  That
\* leaves out what the code does not promise: an append that was refused, a
\* source ended too early, a buffer that could not be made, an empty segment
\* skipped with nothing under way, and Safari's work-around for audio/mpeg.
THEOREM QueuesDrain == Spec => []NoStall
<1>1. IInv => NoStall
  <2>1. SUFFICES ASSUME IInv, feed.complete, Alive, opening = "done",
                        \A t \in Types : ~Updating(m, t) /\ m.sb[t].ends = 0,
                        ~m.refused, ~m.early, m.unmade = {}, ~m.skipped,
                        ~(config.safari /\ config.mpeg)
                 PROVE  source = "ended" /\ ~HasPendingSegments(m) /\ ~HasPendingRemoveRanges(m)
    BY DEF NoStall
  <2>2. ~Busy(m)
    BY <2>1 DEF Busy
  <2>3. QED
    BY <2>1, <2>2 DEF IInv, StallInv, Mends
<1>2. QED
  BY <1>1, IInvInductive, PTL
=============================================================================
