------------------------ MODULE TransmuxingController -----------------------
(***************************************************************************)
(* TransmuxingController of the web player (flv.js,                        *)
(* src/core/transmuxing-controller.js): one IO controller after the other  *)
(* over the parts of a media source, a demuxer for each part that is read  *)
(* from its head, one remuxer, and seeking inside and across parts, which  *)
(* has to wait for the index of a part that has not been read yet.         *)
(*                                                                         *)
(* A time is a tick of the whole source, counted from 1; each part is      *)
(* PartLength ticks long and has keyframes at the same local ticks.  Data  *)
(* is read in groups of pictures, one event for the segments of a group.   *)
(* The IO controller is modelled by what it promises: the groups in order  *)
(* from the one asked for, and pauses that lose nothing (IOController).    *)
(***************************************************************************)
EXTENDS Naturals, Sequences, FiniteSetsExt, SequencesExt

CONSTANTS
  Parts,        \* number of parts, mediaDataSource.segments
  PartLength,   \* ticks of a part
  Keyframes,    \* local ticks of the keyframes of a part, ascending
  Sources       \* values of [indexed, notFlv]: whether the parts have an index
                \* of their keyframes, and the parts that turn out not to be flv

ASSUME TransmuxingAssumption ==
  /\ Parts \in Nat \ {0} /\ PartLength \in Nat \ {0}
  /\ Keyframes \in Seq(1 .. PartLength) /\ Keyframes # <<>>
  /\ \A i, j \in DOMAIN Keyframes : i < j => Keyframes[i] < Keyframes[j]
  /\ Sources \subseteq [indexed : BOOLEAN, notFlv : SUBSET (1 .. Parts)]

VARIABLES
  ctl,      \* the controller, with what its IO controller and demuxer are at
  out,      \* the events this step emits, in order
  media,    \* the media source
  expect,   \* history: the tick of the next group to be emitted
  lapses    \* history: the ways in which groups have been lost or seeks forgotten

tvars == <<ctl, out, media, expect, lapses>>

Ticks == 1 .. Parts * PartLength
Done == Parts * PartLength + 1        \* what follows the last group
None == 0
Base(part) == (part - 1) * PartLength \* timestampBase of a part
NoIO == [there |-> FALSE, part |-> 1, state |-> "none", init |-> FALSE, at |-> 0]

TransmuxingInit ==
  /\ ctl = [index |-> 1,          \* _currentSegmentIndex
            infos |-> {},         \* _mediaInfo.segments
            demuxer |-> None,     \* the part whose timestampBase the demuxer has
            pendingSeek |-> None, \* _pendingSeekTime
            resolve |-> None,     \* _pendingResolveSeekPoint
            reporter |-> FALSE,   \* _statisticsReporter
            io |-> NoIO,          \* _ioctl
            life |-> "new"]       \* start, stop and destroy come once, in order
  /\ out = <<>>
  /\ media \in Sources
  /\ expect = Keyframes[1]
  /\ lapses = {}

Media(tick) == [msg |-> "media", tick |-> tick]
SeekPoint(tick) == [msg |-> "seekpoint", tick |-> tick]
Event(msg) == [msg |-> msg, tick |-> None]

-----------------------------------------------------------------------------
(* looking up places *)

\* Mutant of SearchSegment: the start of a part counts to the part before.
SearchSegmentBefore(tick) ==
  LET later == {i \in 1 .. Parts : tick <= Base(i) + 1}
  IN  IF later = {} THEN Parts ELSE Max({Min(later) - 1, 1})

\* _searchSegmentIndexContains: the part before the first one that starts later
SearchSegment(tick) ==
  LET later == {i \in 1 .. Parts : tick < Base(i) + 1}
  IN  IF later = {} THEN Parts ELSE Min(later) - 1

\* The binary search of MediaInfo for the last keyframe not after a tick; the
\* first one if there is none.
Bisection(list, value) ==
  LET last == Len(list)
      found[w \in (1 .. last) \X (0 .. last)] ==  \* w: lbound and ubound
        LET mid == w[1] + (w[2] - w[1]) \div 2
        IN  IF w[1] > w[2] THEN 1
            ELSE IF mid = last \/ (value >= list[mid] /\ value < list[mid + 1]) THEN mid
            ELSE IF list[mid] < value THEN found[<<mid + 1, w[2]>>]
            ELSE found[<<w[1], mid - 1>>]
  IN  found

Search(list, value) == IF value < list[1] THEN 1 ELSE Bisection(list, value)[<<1, Len(list)>>]

\* getNearestKeyframe: an index into the table of a part
NearestKeyframe(part, tick) ==
  Search([i \in DOMAIN Keyframes |-> Base(part) + Keyframes[i]], tick)

TickOf(part, at) == Base(part) + Keyframes[at]

\* What comes after a group in the order of the source.
After(part, at) ==
  CASE at < Len(Keyframes) -> TickOf(part, at + 1)
    [] at = Len(Keyframes) /\ part < Parts -> TickOf(part + 1, 1)
    [] OTHER -> Done

-----------------------------------------------------------------------------
(* loading *)

\* _loadSegment: from its head, or from a keyframe with the demuxer there is.
LoadSegment(c, part, from) ==
  [c EXCEPT !.index = part,
            !.io = [there |-> TRUE, part |-> part, state |-> "working",
                    init |-> from = 0, at |-> from]]

InternalAbort(c) == [c EXCEPT !.io = NoIO]

Start ==
  /\ ctl.life = "new"
  /\ ctl' = [LoadSegment(ctl, 1, 0) EXCEPT !.reporter = TRUE, !.life = "started"]
  /\ out' = <<>>
  /\ UNCHANGED <<media, expect, lapses>>

\* Mutant of Stop: the statistics reporter is left running.
StopReporting ==
  /\ ctl.life = "started"
  /\ ctl' = [InternalAbort(ctl) EXCEPT !.life = "stopped"]
  /\ out' = <<>>
  /\ UNCHANGED <<media, expect, lapses>>

Stop ==
  /\ ctl.life = "started"
  /\ ctl' = [InternalAbort(ctl) EXCEPT !.reporter = FALSE, !.life = "stopped"]
  /\ out' = <<>>
  /\ UNCHANGED <<media, expect, lapses>>

Pause ==
  /\ ctl.life = "started"
  /\ ctl' = IF ctl.io.state = "working"
            THEN [ctl EXCEPT !.io.state = "paused", !.reporter = FALSE] ELSE ctl
  /\ out' = <<>>
  /\ UNCHANGED <<media, expect, lapses>>

Resume ==
  /\ ctl.life = "started"
  /\ ctl' = IF ctl.io.state = "paused"
            THEN [ctl EXCEPT !.io.state = "working", !.reporter = TRUE] ELSE ctl
  /\ out' = <<>>
  /\ UNCHANGED <<media, expect, lapses>>

Destroy ==
  /\ ctl.life # "destroyed"
  /\ ctl' = [ctl EXCEPT !.infos = {}, !.reporter = FALSE, !.io = NoIO, !.demuxer = None,
                        !.life = "destroyed"]
  /\ out' = <<>>
  /\ UNCHANGED <<media, expect, lapses>>

-----------------------------------------------------------------------------
(* seeking *)

\* seek of a source whose index is known.  In the part being read its IO
\* controller is repositioned; another part is opened at the keyframe, or, as
\* long as its index is not known, at its head with the target kept for later.
SeekTo(c, tick) ==
  LET part == SearchSegment(tick)
      at   == NearestKeyframe(part, tick)
  IN  CASE part = c.index /\ part \notin c.infos -> [c EXCEPT !.pendingSeek = tick]
        [] part = c.index /\ part \in c.infos ->
             [c EXCEPT !.io.at = at, !.io.state = "working", !.resolve = TickOf(part, at)]
        [] part # c.index /\ part \notin c.infos ->
             LoadSegment([c EXCEPT !.pendingSeek = tick], part, 0)
        [] OTHER ->
             [LoadSegment([c EXCEPT !.demuxer = part], part, at) EXCEPT
                !.resolve = TickOf(part, at)]

\* Where a seek ought to lead: the last keyframe not after it of the part it is
\* in, or the first of that part.
Target(tick) ==
  LET part == (tick - 1) \div PartLength + 1
      upTo == {n \in DOMAIN Keyframes : TickOf(part, n) <= tick}
  IN  TickOf(part, Max(upTo \cup {1}))

CanSeek(c) == c.infos # {} /\ media.indexed

\* A pending seek whose part is no longer being opened is forgotten: nothing
\* clears it, and it makes the controller drop every segment.
Forgotten(c) ==
  c.pendingSeek # None /\ ~(c.io.there /\ c.io.init /\ c.io.at = 0)

Seek(tick) ==
  /\ ctl.life = "started" /\ (ctl.index \in ctl.infos => ctl.io.there)
  /\ LET c == SeekTo(ctl, tick)
     IN  /\ ctl' = IF CanSeek(ctl) THEN [c EXCEPT !.reporter = TRUE] ELSE ctl
         /\ expect' = IF CanSeek(ctl) THEN Target(tick) ELSE expect
         /\ lapses' = IF CanSeek(ctl) /\ Forgotten(c) THEN lapses \cup {"forgotten"} ELSE lapses
  /\ out' = <<>>
  /\ UNCHANGED media

-----------------------------------------------------------------------------
(* what the IO controller brings *)

\* _onInitChunkArrival of the head of a part: a new demuxer reads the index and
\* the codec configuration; a seek that waited for them is made at once, before
\* any other event.
OnInitChunkArrival ==
  /\ ctl.life = "started" /\ ctl.io.state = "working" /\ ctl.io.init /\ ctl.io.at = 0
  /\ ctl.io.part \notin media.notFlv
  /\ LET read == [ctl EXCEPT !.demuxer = ctl.index, !.io.init = FALSE, !.io.at = 1,
                             !.infos = @ \cup {ctl.index}, !.pendingSeek = None]
     IN  ctl' = IF ctl.pendingSeek # None
                THEN [SeekTo(read, ctl.pendingSeek) EXCEPT !.reporter = TRUE] ELSE read
  /\ out' = <<Event("mediainfo"), Event("init")>>
  /\ UNCHANGED <<media, expect, lapses>>

\* The same of a part that is not flv: the IO controller is aborted, but the
\* statistics reporter, which asks it for its speed, goes on.
OnInitChunkUnsupported ==
  /\ ctl.life = "started" /\ ctl.io.state = "working" /\ ctl.io.init /\ ctl.io.at = 0
  /\ ctl.io.part \in media.notFlv
  /\ ctl' = InternalAbort(ctl)
  /\ out' = <<Event("demux_error")>>
  /\ UNCHANGED <<media, expect, lapses>>

\* Mutant of OnDataArrival: the target of a seek that has been answered is kept.
OnDataArrivalResolved ==
  /\ ctl.life = "started" /\ ctl.io.state = "working" /\ ctl.io.at \in DOMAIN Keyframes
  /\ LET demuxer == IF ctl.io.init THEN ctl.index ELSE ctl.demuxer
         tick    == TickOf(demuxer, ctl.io.at)
     IN  /\ ctl' = [ctl EXCEPT !.demuxer = demuxer, !.io.init = FALSE, !.io.at = @ + 1]
         /\ out' = IF ctl.resolve # None THEN <<Media(tick), SeekPoint(ctl.resolve)>>
                   ELSE <<Media(tick)>>
         /\ expect' = After(ctl.io.part, ctl.io.at)
  /\ UNCHANGED <<media, lapses>>

\* A group of pictures.  The first one after a seek of a part that had just been
\* opened comes to _onInitChunkArrival, which binds the demuxer there is.
\* _onRemuxerMediaSegmentArrival drops it while a seek is pending, and tells
\* the player where the seek has led to.
OnDataArrival ==
  /\ ctl.life = "started" /\ ctl.io.state = "working" /\ ctl.io.at \in DOMAIN Keyframes
  /\ LET demuxer == IF ctl.io.init THEN ctl.index ELSE ctl.demuxer
         tick    == TickOf(demuxer, ctl.io.at)
         next    == [ctl EXCEPT !.demuxer = demuxer, !.io.init = FALSE, !.io.at = @ + 1]
     IN  IF ctl.pendingSeek # None
         THEN ctl' = next /\ out' = <<>> /\ UNCHANGED expect
         ELSE /\ ctl' = [next EXCEPT !.resolve = None]
              /\ out' = IF ctl.resolve # None THEN <<Media(tick), SeekPoint(ctl.resolve)>>
                        ELSE <<Media(tick)>>
              /\ expect' = After(ctl.io.part, ctl.io.at)
  /\ UNCHANGED <<media, lapses>>

\* Mutant of OnIOComplete: one part too many.
OnIOCompleteBeyond ==
  /\ ctl.life = "started" /\ ctl.io.state = "working" /\ ctl.io.at = Len(Keyframes) + 1
  /\ ctl' = IF ctl.io.part <= Parts THEN LoadSegment(ctl, ctl.io.part + 1, 0)
            ELSE [ctl EXCEPT !.reporter = FALSE, !.io.state = "done"]
  /\ out' = <<>>
  /\ UNCHANGED <<media, expect, lapses>>

\* _onIOComplete: the next part, or the end of the source.  A completion may
\* also arrive in a pause, which has thrown away what was stashed.
OnIOComplete ==
  /\ ctl.life = "started"
  /\ \/ ctl.io.state = "working" /\ ctl.io.at = Len(Keyframes) + 1
     \/ ctl.io.state = "paused" /\ ctl.io.at # 0
  /\ LET more == ctl.io.part + 1 <= Parts
     IN  /\ ctl' = IF more THEN LoadSegment(ctl, ctl.io.part + 1, 0)
                   ELSE [ctl EXCEPT !.reporter = FALSE,
                                    !.io.state = IF @ = "paused" THEN @ ELSE "done"]
         /\ out' = IF more THEN <<>> ELSE <<Event("complete")>>
  /\ lapses' = IF ctl.io.state = "paused" /\ ctl.io.at <= Len(Keyframes)
               THEN lapses \cup {"paused"} ELSE lapses
  /\ UNCHANGED <<media, expect>>

OnIOException ==
  /\ ctl.life = "started" /\ ctl.io.state \in {"working", "paused"}
  /\ ctl' = [ctl EXCEPT !.io.state = IF @ = "paused" THEN @ ELSE "failed", !.reporter = FALSE]
  /\ out' = <<Event("io_error")>>
  /\ UNCHANGED <<media, expect, lapses>>

Data == OnInitChunkArrival \/ OnInitChunkUnsupported \/ OnDataArrival \/ OnIOComplete

\* The commands in any order: the player is modelled in FlvPlayer.
TransmuxingNext ==
  \/ Data \/ OnIOException
  \/ Start \/ Stop \/ Pause \/ Resume \/ Destroy
  \/ \E tick \in Ticks : Seek(tick)

TransmuxingSpec == TransmuxingInit /\ [][TransmuxingNext]_tvars /\ WF_tvars(Data)

-----------------------------------------------------------------------------

\* The controller is at a part and a group of it, or at its head.
TransmuxingTypeOK ==
  /\ {ctl.index, ctl.io.part} \subseteq 1 .. Parts
  /\ ctl.infos \subseteq 1 .. Parts
  /\ {ctl.pendingSeek, ctl.resolve} \subseteq Ticks \cup {None}
  /\ ctl.io.state \in {"none", "working", "paused", "done", "failed"}
  /\ ctl.io.at \in 0 .. Len(Keyframes) + 1
  /\ ctl.io.there => ctl.io.part = ctl.index

\* However parts are opened, re-opened and sought in, the groups that reach the
\* player after a seek are those of the source from the keyframe of the last
\* seek on, in order, with the times of their part, and completion comes after
\* the last; unless a pending seek has been forgotten or a completion has
\* arrived in a pause.
Orderly == lapses \cap {"forgotten", "paused"} = {}

InOrder == [][Orderly' => \A i \in DOMAIN out' :
                           /\ out'[i].msg = "media" => out'[i].tick = expect
                           /\ out'[i].msg = "complete" => expect = Done]_tvars

\* The position the player is told to go to is the start of the segment that
\* has been emitted just before, not that of an earlier seek.
SeekPointTrue ==
  "paused" \notin lapses => \A i \in DOMAIN out : out[i].msg = "seekpoint" => out[i] = SeekPoint(out[i - 1].tick)

\* The statistics reporter, which asks the IO controller for its speed, runs
\* only while there is one; a part that is not flv is the exception.
ReporterSafe == media.notFlv = {} /\ ctl.reporter => ctl.io.there

\* A seek is answered with a position, if loading goes on and no seek is
\* forgotten.
SeekAnswered ==
  ctl.resolve # None \/ ctl.pendingSeek # None
    ~> \/ ctl.resolve = None /\ ctl.pendingSeek = None
       \/ ctl.io.state # "working" \/ ~Orderly
=============================================================================
