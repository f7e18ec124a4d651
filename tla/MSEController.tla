--------------------------- MODULE MSEController ----------------------------
(***************************************************************************)
(* MSEController of the web player (flv.js, src/core/mse-controller.js):   *)
(* the queues between the transmuxer and the two source buffers of a       *)
(* MediaSource.  A source buffer works on one append or removal at a time  *)
(* and reports its end with an event that may be handled much later, so    *)
(* segments, ranges to remove and the end of the stream wait in the        *)
(* controller; a seek, a full buffer and the automatic clean-up interfere. *)
(*                                                                         *)
(* A media segment is its place n \in 1 .. Duration on the time line, of the   *)
(* load (the number of seeks before it) it belongs to.  The MediaSource    *)
(* and its buffers are the browser's, modelled as the code relies on them. *)
(***************************************************************************)
EXTENDS Naturals, Sequences, FiniteSets, SequencesExt, FiniteSetsExt

CONSTANTS
  Feed,                   \* the segments of a load from the start, 0 for init
  Configs,                \* values of [auto, safari, mpeg] to start from
  Duration,               \* the last media segment
  MaxBackward, MinBackward, Padding,  \* the durations of the clean-up
  MaxSeeks,               \* bound: seeks in a behaviour
  MaxEnds                 \* bound: updateend events waiting for one buffer

Types == {"video", "audio"}   \* the loops over the types take them in this order

\* A track's segments come behind its init segment, as the remuxer puts them out.
ASSUME MSEAssumption ==
  /\ Feed \in Seq(Types \X (0 .. Duration)) /\ Feed # <<>>
  /\ \A i \in DOMAIN Feed : \E j \in 1 .. i : Feed[j] = <<Feed[i][1], 0>>
  /\ Configs \subseteq [auto : BOOLEAN, safari : BOOLEAN, mpeg : BOOLEAN]
  /\ {Duration, MaxBackward, MinBackward, Padding, MaxSeeks, MaxEnds} \subseteq Nat
  /\ MaxBackward > MinBackward

VARIABLES
  source,    \* readyState of the MediaSource
  opening,   \* its sourceopen event: "awaited", "due", "done"
  m,         \* the controller and its source buffers
  feed,      \* what the transmuxer has still to bring, and whether it is complete
  now,       \* currentTime of the media element
  config,    \* autoCleanupSourceBuffer; Safari; audio in the audio/mpeg container
  load,      \* history: the number of seeks
  brought,   \* history: the segments of this load, in the order of their arrival
  back       \* history: playback has jumped back

vars == <<source, opening, m, feed, now, config, load, brought, back>>

Init0 == 0
Alive == source \notin {"detached", "hung"}
Segment(n) == [n |-> n, load |-> load]

NoBuffer == [there |-> FALSE, op |-> "idle", seg |-> [n |-> 0, load |-> 0], range |-> {},
             buffered |-> {}, ends |-> 0, inited |-> FALSE]

Init ==
  /\ source = "closed"
  /\ opening = "awaited"
  /\ m = [sb |-> [t \in Types |-> NoBuffer],
          pending |-> [t \in Types |-> <<>>],     \* _pendingSegments
          ranges |-> [t \in Types |-> <<>>],      \* _pendingRemoveRanges
          inits |-> <<>>,                         \* _pendingSourceBufferInit
          lastInit |-> [t \in Types |-> FALSE],   \* _lastInitSegments
          idr |-> <<>>,                           \* _idrList
          full |-> FALSE,                         \* _isBufferFull
          eos |-> FALSE,                          \* _hasPendingEos
          duration |-> FALSE,                     \* _requireSetMediaDuration
          appended |-> [t \in Types |-> <<>>],    \* history, of this load: taken from the queue
          unmade |-> {},          \* history: the types whose buffer could not be made at first
          skipped |-> FALSE,      \* history: an empty segment was taken, and nothing begun since
          refused |-> FALSE,                      \* history: an append failed
          early |-> FALSE]      \* history: the source was ended with work waiting
  /\ feed = [left |-> Feed, complete |-> FALSE]
  /\ now = 1
  /\ config \in Configs
  /\ load = 0
  /\ brought = [t \in Types |-> <<>>]
  /\ back = FALSE

-----------------------------------------------------------------------------
(* the source buffers *)

Updating(x, t) == x.sb[t].op # "idle"
AnyUpdating(x) == \E t \in Types : Updating(x, t)
HasPendingSegments(x) == \E t \in Types : x.pending[t] # <<>>
HasPendingRemoveRanges(x) == \E t \in Types : x.ranges[t] # <<>>

\* The stretches of the time line a buffer holds, in order.
Places(x, t) == {s.n : s \in x.sb[t].buffered}
Starts(S) == {n \in S : n - 1 \notin S}
Stretch(S, a) == {n \in S : n >= a /\ (a .. n) \subseteq S}
Nth(S, i) == CHOOSE a \in S : Cardinality({b \in S : b <= a}) = i
Runs(S) == [i \in 1 .. Cardinality(Starts(S)) |-> Stretch(S, Nth(Starts(S), i))]

\* The init segment of an audio/mpeg track holds no data.
Empty(t, seg) == config.mpeg /\ t = "audio" /\ seg.n = Init0

\* Mutant of AppendOf: a segment that is refused is not put back.
AppendOfTaken(x, t, outcome) ==
  IF ~x.sb[t].there \/ Updating(x, t) \/ x.pending[t] = <<>> THEN x
  ELSE IF outcome # "ok" THEN [x EXCEPT !.pending[t] = Tail(@), !.refused = TRUE]
  ELSE [x EXCEPT !.sb[t] = [@ EXCEPT !.op = "append", !.seg = Head(x.pending[t])],
                 !.pending[t] = Tail(@), !.full = FALSE, !.skipped = FALSE,
                 !.appended[t] = Append(@, Head(x.pending[t]))]

\* The first waiting segment of one type: skipped when it is empty, or given to
\* appendBuffer, which accepts it, refuses it for want of room, or refuses it
\* for another reason; a segment that is refused is put back.
AppendOf(x, t, outcome) ==
  LET seg == Head(x.pending[t])
  IN  IF ~x.sb[t].there \/ Updating(x, t) \/ x.pending[t] = <<>> THEN x
      ELSE CASE Empty(t, seg) ->
                  [x EXCEPT !.pending[t] = Tail(@), !.appended[t] = Append(@, seg),
                            !.skipped = ~AnyUpdating(x)]
             [] ~Empty(t, seg) /\ outcome = "ok" ->
                  [x EXCEPT !.sb[t] = [@ EXCEPT !.op = "append", !.seg = seg],
                            !.pending[t] = Tail(@), !.full = FALSE, !.skipped = FALSE,
                            !.appended[t] = Append(@, seg),
                            !.idr = IF t = "video" /\ seg.n # Init0 THEN Append(@, seg.n) ELSE @]
             [] ~Empty(t, seg) /\ outcome = "quota" -> [x EXCEPT !.full = TRUE, !.refused = TRUE]
             [] ~Empty(t, seg) /\ outcome = "error" -> [x EXCEPT !.refused = TRUE]

\* _doAppendSegments, _doRemoveRanges: one operation for each idle buffer
DoAppendSegments(x, outcomes) ==
  AppendOf(AppendOf(x, "video", outcomes["video"]), "audio", outcomes["audio"])

RemoveOf(x, t) ==
  IF ~x.sb[t].there \/ Updating(x, t) \/ x.ranges[t] = <<>> THEN x
  ELSE [x EXCEPT !.sb[t] = [@ EXCEPT !.op = "remove", !.range = Head(x.ranges[t])],
                 !.ranges[t] = Tail(@), !.skipped = FALSE]

DoRemoveRanges(x) == RemoveOf(RemoveOf(x, "video"), "audio")

\* appendBuffer and remove open a source that had ended.
Reopened(x) == IF source = "ended" /\ AnyUpdating(x) THEN "open" ELSE source

\* There may be no room for one type; an element in error takes neither.
Outcomes == [Types -> {"ok", "quota"}] \cup {[t \in Types |-> "error"]}

-----------------------------------------------------------------------------
(* init segments and the opening of the source *)

\* _updateMediaSourceDuration: put off while the element has no metadata or a
\* buffer is updating
UpdateDuration(x) ==
  IF source = "open" /\ \A t \in Types : (x.sb[t].there => x.sb[t].inited) /\ ~Updating(x, t)
  THEN [x EXCEPT !.duration = FALSE] ELSE x

\* appendInitSegment on an open source: the first of its type makes the buffer
\* and waits for a media segment, a later one is appended at once.  If the
\* browser does not make the buffer, the segment is not queued; a later init
\* segment of the type tries again.
InitOnOpen(x, t, deferred, fails, outcomes) ==
  LET first  == ~x.sb[t].there
      noted  == [x EXCEPT !.lastInit[t] = TRUE]
      made   == [noted EXCEPT !.sb[t].there = TRUE,
                              !.pending[t] = IF deferred THEN @ ELSE Append(@, Segment(Init0))]
      tried  == IF ~first /\ ~Updating(made, t) THEN DoAppendSegments(made, outcomes) ELSE made
  IN  IF first /\ fails THEN [noted EXCEPT !.unmade = @ \cup {t}]
      ELSE IF config.safari /\ config.mpeg /\ t = "audio"
      THEN UpdateDuration([tried EXCEPT !.duration = TRUE])
      ELSE tried

\* The next segment of the load, if it is of that type and kind
Brings(t, init) ==
  /\ Alive /\ feed.left # <<>>
  /\ Head(feed.left)[1] = t /\ (Head(feed.left)[2] = Init0) = init
  /\ feed' = [feed EXCEPT !.left = Tail(@)]
  /\ brought' = [brought EXCEPT ![t] = Append(@, Segment(Head(feed.left)[2]))]

AppendInitSegment(t) ==
  /\ Brings(t, TRUE)
  /\ IF source # "open"
     THEN /\ m' = [m EXCEPT !.inits = Append(@, t), !.pending[t] = Append(@, Segment(Init0))]
          /\ UNCHANGED source
     ELSE \E o \in Outcomes, fails \in BOOLEAN :
            m' = InitOnOpen(m, t, FALSE, fails, o) /\ source' = Reopened(m')
  /\ UNCHANGED <<opening, now, config, load, back>>

\* The loop of _onSourceOpen over the waiting init segments, after i of them;
\* for those in failing no buffer can be made.
Opened(x, failing, outcomes) ==
  LET after[i \in 0 .. Len(x.inits)] ==
        IF i = 0 THEN x ELSE InitOnOpen(after[i - 1], x.inits[i], TRUE, i \in failing, outcomes)
  IN  after

\* The element opens the source; the event is handled later.
SourceOpens ==
  /\ source = "closed"
  /\ source' = "open"
  /\ opening' = "due"
  /\ UNCHANGED <<m, feed, now, config, load, brought, back>>

OnSourceOpen ==
  /\ Alive /\ opening = "due"
  /\ opening' = "done"
  /\ source # "ended" \/ m.inits = <<>>
  /\ \E o \in Outcomes, failing \in SUBSET (1 .. Len(m.inits)) :
       LET ready == [Opened(m, failing, o)[Len(m.inits)] EXCEPT !.inits = <<>>]
       IN  m' = IF HasPendingSegments(ready) THEN DoAppendSegments(ready, o) ELSE ready
  /\ source' = Reopened(m')
  /\ UNCHANGED <<feed, now, config, load, brought, back>>

\* If the source was ended before the event was handled, the loop over the
\* waiting init segments puts each back as soon as it has taken it.
OnSourceOpenHangs ==
  /\ source = "ended" /\ opening = "due" /\ m.inits # <<>>
  /\ source' = "hung"
  /\ opening' = "done"
  /\ UNCHANGED <<m, feed, now, config, load, brought, back>>

-----------------------------------------------------------------------------
(* media segments and the automatic clean-up *)

\* _needCleanupSourceBuffer
NeedCleanup(x) ==
  config.auto /\ \E t \in Types :
    x.sb[t].there /\ Places(x, t) # {} /\ now >= Min(Places(x, t)) + MaxBackward

\* Mutant of ToRemove: the minimum is added to the position.
ToRemoveAhead(run) ==
  IF Min(run) <= now /\ now < Max(run) + 1 + Padding
  THEN IF now >= Min(run) + MaxBackward THEN {n \in run : n < now + MinBackward} ELSE {}
  ELSE IF Max(run) + 1 < now THEN run ELSE {}

\* The range of one stretch to remove, if there is one: all of it behind the
\* playback position, or what is too far behind in the stretch being played.
ToRemove(run) ==
  LET start == Min(run)
      end   == Max(run) + 1
  IN  IF start <= now /\ now < end + Padding
      THEN IF now >= start + MaxBackward THEN {n \in run : n < now - MinBackward} ELSE {}
      ELSE IF end < now THEN run ELSE {}

\* The ranges of all stretches of a set of places, in order.
RangesOf(S) ==
  LET starts == {a \in Starts(S) : ToRemove(Stretch(S, a)) # {}}
  IN  [i \in 1 .. Cardinality(starts) |-> ToRemove(Stretch(S, Nth(starts, i)))]

\* _doCleanupSourceBuffer
CleanupOf(x, t) ==
  LET found == RangesOf(Places(x, t))
      noted == [x EXCEPT !.ranges[t] = @ \o found]
  IN  IF x.sb[t].there /\ found # <<>>
      THEN IF Updating(noted, t) THEN noted ELSE DoRemoveRanges(noted)
      ELSE x

DoCleanup(x) == CleanupOf(CleanupOf(x, "video"), "audio")

AppendMediaSegment(t) ==
  /\ Brings(t, FALSE)
  /\ \E o \in Outcomes :
       LET queued  == [m EXCEPT !.pending[t] = Append(@, Segment(Head(feed.left)[2]))]
           cleaned == IF NeedCleanup(queued) THEN DoCleanup(queued) ELSE queued
       IN  m' = IF cleaned.sb[t].there /\ ~Updating(cleaned, t) /\ ~HasPendingRemoveRanges(cleaned)
                THEN DoAppendSegments(cleaned, o) ELSE cleaned
  /\ source' = Reopened(m')
  /\ UNCHANGED <<opening, now, config, load, back>>

-----------------------------------------------------------------------------
(* seeking *)

\* Mutant of SeekOf: a buffer whose append is aborted is not emptied.
SeekOfAborts(x, t, outcomes) ==
  LET emptied == [x EXCEPT !.idr = <<>>, !.pending[t] = <<>>, !.appended[t] = <<>>]
  IN  IF ~x.sb[t].there THEN x
      ELSE IF x.sb[t].op = "append"
      THEN [emptied EXCEPT !.sb[t] = [@ EXCEPT !.op = "idle", !.ends = x.sb[t].ends + 1]]
      ELSE IF x.sb[t].op = "remove"
      THEN [emptied EXCEPT !.ranges[t] = @ \o Runs(Places(x, t))]
      ELSE DoRemoveRanges([emptied EXCEPT !.ranges[t] = @ \o Runs(Places(x, t))])

\* An append under way is aborted, its end still reported.
Aborted(x, t) ==
  IF x.sb[t].op = "append"
  THEN [x EXCEPT !.sb[t] = [@ EXCEPT !.op = "idle", !.ends = x.sb[t].ends + 1]] ELSE x

\* Everything waiting is dropped, everything buffered noted to be removed.
Emptied(x, t) ==
  [Aborted(x, t) EXCEPT !.idr = <<>>, !.pending[t] = <<>>, !.appended[t] = <<>>,
                        !.ranges[t] = @ \o Runs(Places(x, t))]

\* What seek does to one type.  Safari is given its init segment again.
SeekOf(x, t, outcomes) ==
  LET emptied == Emptied(x, t)
      removed == IF Updating(emptied, t) THEN emptied ELSE DoRemoveRanges(emptied)
      again   == [removed EXCEPT !.pending[t] = IF x.lastInit[t]
                                                THEN <<[n |-> Init0, load |-> load + 1]>> ELSE @]
  IN  IF ~x.sb[t].there THEN x
      ELSE IF ~config.safari THEN removed
      ELSE IF Updating(again, t) THEN again ELSE DoAppendSegments(again, outcomes)

\* What the transmuxer brings from a place on, in order.
LoadFrom(place) ==
  LET at == {i \in DOMAIN Feed : Feed[i][2] >= place}
  IN  [i \in 1 .. Cardinality(at) |-> Feed[Nth(at, i)]]

\* The player seeks to a place that is not buffered; the transmuxer starts
\* again from there, without init segments.
Seek ==
  /\ source \in {"open", "ended"} /\ opening = "done" /\ load < MaxSeeks
  /\ \A t \in Types : /\ m.lastInit[t] /\ m.sb[t].ends < MaxEnds
                      /\ m.sb[t].there => m.sb[t].inited
  /\ \E place \in {s[2] : s \in Range(Feed)} \ {Init0} :
       /\ \A t \in Types : place \notin Places(m, t)
       /\ now' = place
       /\ feed' = [complete |-> FALSE, left |-> LoadFrom(place)]
  /\ \E o \in Outcomes : m' = SeekOf(SeekOf(m, "video", o), "audio", o)
  /\ load' = load + 1
  /\ brought' = [t \in Types |-> IF config.safari /\ m.sb[t].there /\ m.lastInit[t]
                                 THEN <<[n |-> Init0, load |-> load + 1]>> ELSE <<>>]
  /\ source' = Reopened(m')
  /\ UNCHANGED <<opening, config, back>>

-----------------------------------------------------------------------------
(* the end of the stream *)

\* Mutant of EndOfStream: not put off until the source opens.
EndOfStreamOpen(x, complete) == IF source = "open" THEN [x EXCEPT !.eos = AnyUpdating(x)] ELSE x

\* endOfStream: put off while a buffer is updating, or while the source has
\* not opened and segments wait.
EndOfStream(x, complete) ==
  IF source = "open"
  THEN [x EXCEPT !.eos = AnyUpdating(x),
                 !.early = @ \/ (~AnyUpdating(x) /\ (HasPendingSegments(x) \/ HasPendingRemoveRanges(x) \/ ~complete))]
  ELSE [x EXCEPT !.eos = @ \/ (source = "closed" /\ HasPendingSegments(x))]

EndedBy(x) == IF source = "open" /\ ~AnyUpdating(x) THEN "ended" ELSE source

LoadingComplete ==
  /\ Alive /\ ~feed.complete /\ feed.left = <<>>
  /\ feed' = [feed EXCEPT !.complete = TRUE]
  /\ m' = EndOfStream(m, TRUE)
  /\ source' = EndedBy(m)
  /\ UNCHANGED <<opening, now, config, load, brought, back>>

-----------------------------------------------------------------------------
(* what the browser does *)

\* An append or a removal ends; the event waits for its turn.
OperationEnds(t) ==
  /\ Alive /\ Updating(m, t) /\ m.sb[t].ends < MaxEnds
  /\ LET sb == m.sb[t]
         kept == IF sb.op = "remove" THEN {s \in sb.buffered : s.n \notin sb.range}
                 ELSE IF sb.seg.n = Init0 THEN sb.buffered
                 ELSE {s \in sb.buffered : s.n # sb.seg.n} \cup {sb.seg}
     IN  m' = [m EXCEPT !.sb[t] = [sb EXCEPT !.op = "idle", !.ends = sb.ends + 1, !.buffered = kept,
                                             !.range = {}, !.seg = NoBuffer.seg,
                                             !.inited = sb.inited \/ sb.op = "append"]]
  /\ UNCHANGED <<source, opening, feed, now, config, load, brought, back>>

\* _onSourceBufferUpdateEnd, which goes on with one kind of waiting work
OnUpdateEnd(t) ==
  /\ Alive /\ m.sb[t].ends > 0
  /\ LET x == [m EXCEPT !.sb[t].ends = @ - 1]
     IN  \/ /\ x.duration
            /\ m' = UpdateDuration(x)
            /\ source' = source
         \/ /\ ~x.duration /\ HasPendingRemoveRanges(x)
            /\ m' = DoRemoveRanges(x)
            /\ source' = Reopened(m')
         \/ /\ ~x.duration /\ ~HasPendingRemoveRanges(x) /\ HasPendingSegments(x)
            /\ \E o \in Outcomes : m' = DoAppendSegments(x, o)
            /\ source' = Reopened(m')
         \/ /\ ~x.duration /\ ~HasPendingRemoveRanges(x) /\ ~HasPendingSegments(x)
            /\ m' = IF x.eos THEN EndOfStream(x, feed.complete) ELSE x
            /\ source' = IF x.eos THEN EndedBy(x) ELSE source
  /\ UNCHANGED <<opening, feed, now, config, load, brought, back>>

\* Playback goes on while all buffers hold the position, and may jump back to
\* another buffered one.
Play ==
  /\ Alive /\ \E t \in Types : m.sb[t].there
  /\ \E place \in 1 .. Duration :
       /\ place # now
       /\ \A t \in Types : m.sb[t].there => place \in Places(m, t)
       /\ now' = place
       /\ back' = (back \/ place < now)
  /\ UNCHANGED <<source, opening, m, feed, config, load, brought>>

\* detachMediaElement: the queues, the buffers and the source are gone.
DetachMediaElement ==
  /\ Alive
  /\ source' = "detached"
  /\ m' = [m EXCEPT !.sb = [t \in Types |-> NoBuffer], !.pending = [t \in Types |-> <<>>],
                    !.ranges = [t \in Types |-> <<>>], !.lastInit = [t \in Types |-> FALSE],
                    !.inits = <<>>, !.appended = [t \in Types |-> <<>>], !.full = FALSE, !.idr = <<>>]
  /\ UNCHANGED <<opening, feed, now, config, load, brought, back>>

Next ==
  \/ SourceOpens \/ OnSourceOpen \/ OnSourceOpenHangs \/ Play
  \/ LoadingComplete \/ Seek \/ DetachMediaElement
  \/ \E t \in Types : \/ OperationEnds(t) \/ OnUpdateEnd(t)
                      \/ AppendInitSegment(t) \/ AppendMediaSegment(t)

Spec == Init /\ [][Next]_vars

-----------------------------------------------------------------------------

\* Whatever is deferred, refused and put back, or dropped by a seek: what was
\* taken from the queue, for the buffer or because it was empty, and what still
\* waits is what the transmuxer brought of this load, in its order, each segment
\* once.  A type whose buffer could not be made at first is exempt: its init
\* segment is dropped, and a seek leaves what waits for it.
NothingLost ==
  Alive => \A t \in Types \ m.unmade : brought[t] = m.appended[t] \o m.pending[t]

\* Once a seek has removed what it noted, no segment of an earlier load is in
\* the buffers, and it removed none of the new load.
SeekClears ==
  ~config.auto /\ Alive => \A t \in Types :
    ~Updating(m, t) /\ m.ranges[t] = <<>>
      => m.sb[t].buffered = {s \in Range(m.appended[t]) : s.n # Init0}

\* The automatic clean-up removes nothing at or after the playback position, as
\* long as playback goes forward (a range noted while a buffer was updating is
\* removed later, whatever the position is then).
CleanupBehind ==
  load = 0 /\ ~back =>
    \A t \in Types : m.sb[t].op = "remove" => \A n \in m.sb[t].range : n < now

\* Nothing is left waiting for an event that does not come: when the load is
\* complete and no operation or event is outstanding, every segment is in a
\* buffer, every range removed, and the source has been ended.  An append that
\* was refused is only tried again at a next event; what waits for a buffer that
\* could not be made, or behind an empty segment taken with nothing under way,
\* waits on; a source that was ended early is opened again by the next
\* operation and stays open; and with Safari's work-around for audio/mpeg the
\* updateend that corrects the duration does nothing else.
NoStall ==
  /\ feed.complete /\ Alive /\ opening = "done"
  /\ \A t \in Types : ~Updating(m, t) /\ m.sb[t].ends = 0
  /\ ~m.refused /\ ~m.early /\ m.unmade = {} /\ ~m.skipped /\ ~(config.safari /\ config.mpeg)
  => source = "ended" /\ ~HasPendingSegments(m) /\ ~HasPendingRemoveRanges(m)
=============================================================================
