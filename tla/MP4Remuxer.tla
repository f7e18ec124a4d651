----------------------------- MODULE MP4Remuxer -----------------------------
(***************************************************************************)
(* MP4Remuxer of the web player (flv.js, src/remux/mp4-remuxer.js) with    *)
(* the list of what it has put out (src/core/media-segment-info.js): the   *)
(* operators by which FLVDemuxer, that calls it in the middle of a chunk,  *)
(* has batches of samples turned into media segments.                      *)
(*                                                                         *)
(* The duration of a sample is known with the one that follows, so the     *)
(* last of a batch is stashed for the next batch, and a batch of one stays *)
(* in the queue of the demuxer.  Times are milliseconds, the reference     *)
(* durations of samples tenths of one.  The bytes of a segment are left    *)
(* out: a segment is its samples, each with the tag it was read from.      *)
(***************************************************************************)
EXTENDS Integers, Sequences, FiniteSetsExt, SequencesExt

CONSTANTS
  AudioRef, VideoRef  \* refSampleDuration of the tracks, in tenths of a millisecond

ASSUME RemuxerAssumption == {AudioRef, VideoRef} \subseteq Nat \ {0}

None == 0                \* no tag: no metadata, or a silent frame
Undefined == -100000     \* no time
Types == {"audio", "video"}
Tolerance == 3           \* differences of time that are rounding

-----------------------------------------------------------------------------
(* MediaSegmentInfoList: what has been put out since the last seek, ordered *)
(* by the time of the file.  Locations are counted from 1, 0 is none.       *)

NoSegments == [segments |-> <<>>, location |-> 0]

\* The binary search of _searchNearestSegmentBefore.
SegmentSearch(list, original) ==
  LET last == Len(list)
      found[b \in (1 .. last) \X (0 .. last)] ==  \* b: lbound and ubound
        LET mid == b[1] + (b[2] - b[1]) \div 2
        IN  IF b[1] > b[2] THEN 1
            ELSE IF \/ mid = last
                    \/ original > list[mid].last.original /\ original < list[mid + 1].originalBegin
                 THEN mid
            ELSE IF list[mid].originalBegin < original THEN found[<<mid + 1, b[2]>>]
            ELSE found[<<b[1], mid - 1>>]
  IN  found

SearchNearestSegmentBefore(list, original) ==
  IF list = <<>> \/ original < list[1].originalBegin THEN 0
  ELSE SegmentSearch(list, original)[<<1, Len(list)>>]

\* append: behind the segment appended last if it belongs there
AppendInfo(infos, info) ==
  LET list  == infos.segments
      here  == infos.location
      fits  == /\ here \in DOMAIN list
               /\ info.originalBegin >= list[here].last.original
               /\ here < Len(list) => info.originalBegin < list[here + 1].originalBegin
      at    == 1 + IF fits THEN here ELSE SearchNearestSegmentBefore(list, info.originalBegin)
  IN  [segments |-> InsertAt(list, at, info), location |-> at]

-----------------------------------------------------------------------------
(* the state of the remuxer *)

NewTrack == [meta  |-> None,        \* the tag of the track's configuration, _audioMeta
             mp3   |-> FALSE,       \* its codec
             next  |-> Undefined,   \* _audioNextDts: the end of what was put out
             stash |-> <<>>,        \* _audioStashedLastSample
             infos |-> NoSegments]  \* _audioSegmentInfoList

NewRemuxer == [base |-> Undefined, audio |-> NewTrack, video |-> NewTrack]

\* insertDiscontinuity
InsertDiscontinuity(r) == [r EXCEPT !.audio.next = Undefined, !.video.next = Undefined]

\* seek
SeekRemuxer(r) ==
  [r EXCEPT !.audio.stash = <<>>, !.audio.infos = NoSegments,
            !.video.stash = <<>>, !.video.infos = NoSegments]

\* Mutant of CalculateDtsBase: the later of the two tracks.
CalculateDtsBaseLater(r, audio, video) ==
  LET firsts == {s[1].dts : s \in {audio, video} \ {<<>>}}
  IN  IF r.base # Undefined THEN r ELSE [r EXCEPT !.base = Max(firsts)]

\* _calculateDtsBase, once
CalculateDtsBase(r, audio, video) ==
  LET firsts == {s[1].dts : s \in {audio, video} \ {<<>>}}
  IN  IF r.base # Undefined THEN r ELSE [r EXCEPT !.base = Min(firsts)]

-----------------------------------------------------------------------------
(* _remuxAudio and _remuxVideo *)

\* Mutant of Skips: two samples are left in the queue as well.
SkipsTwo(track, samples, force) ==
  track.meta = None \/ samples = <<>> \/ (Len(samples) <= 2 /\ ~force)

\* Nothing to do, or a single sample that is left in the queue.
Skips(track, samples, force) ==
  track.meta = None \/ samples = <<>> \/ (Len(samples) = 1 /\ ~force)

\* Mutant of DtsCorrection: after a pause, the duration of the last sample is
\* forgotten.
DtsCorrectionShort(track, original) ==
  LET before == SearchNearestSegmentBefore(track.infos.segments, original)
  IN  CASE track.next \notin {Undefined, 0} -> original - track.next
        [] track.next \in {Undefined, 0} /\ before = 0 -> 0
        [] OTHER -> original - track.infos.segments[before].last.dts

\* What is taken from the times of the samples to make them follow what was put
\* out before.  A next time of 0 counts as none.
DtsCorrection(track, original) ==
  LET before == SearchNearestSegmentBefore(track.infos.segments, original)
      last   == track.infos.segments[before].last
      away   == original - (last.original + last.duration)
  IN  CASE track.next \notin {Undefined, 0} -> original - track.next
        [] track.next \in {Undefined, 0} /\ before = 0 -> 0
        [] OTHER -> original - (last.dts + last.duration + IF away <= Tolerance THEN 0 ELSE away)

\* Silent frames for the rest of a sample that lasts too long; those are
\* remembered under the time of the sample they follow.
FillSilence(sample, ref) ==
  LET count == (10 * sample.duration - 1) \div ref
      at[j \in 1 .. count + 1] == IF j > count THEN sample.dts + sample.duration
                                  ELSE (10 * sample.dts + j * ref + 5) \div 10
  IN  <<[sample EXCEPT !.duration = (ref + 5) \div 10]>>
        \o [j \in 1 .. count |-> [tag |-> None, dts |-> at[j], duration |-> at[j + 1] - at[j],
                                  original |-> sample.original]]

\* The samples of a segment: each lasts until the next one, the last until the
\* sample that was stashed or, if there is none, as long as the one before it
\* or as the reference.
Mp4Samples(samples, follower, base, correction, ref, fill) ==
  LET n == Len(samples)
      dts(s) == s.dts - base - correction
      piece(i, duration) ==
        LET sample == [tag |-> samples[i].tag, dts |-> dts(samples[i]), duration |-> duration,
                       original |-> samples[i].dts - base]
        IN  IF fill /\ 20 * duration > 3 * ref THEN FillSilence(sample, ref) ELSE <<sample>>
      until(i) == dts(samples[i + 1]) - dts(samples[i])
      ending == CASE follower # <<>> -> dts(follower[1]) - dts(samples[n])
                  [] follower = <<>> /\ n > 1 -> Last(piece(n - 1, until(n - 1))).duration
                  [] OTHER -> ref \div 10
  IN  FlattenSeq([i \in 1 .. n |-> piece(i, IF i < n THEN until(i) ELSE ending)])

\* In old Microsoft browsers the first audio segment after a seek begins with
\* silence where the video begins (a time from which the base is taken again).
PrefixSilence(r, type, settings, original) ==
  LET before == SearchNearestSegmentBefore(r.video.infos.segments, original)
      begin  == r.video.infos.segments[before].begin
      wanted == /\ type = "audio" /\ settings.edge /\ ~r.audio.mp3
                /\ r.audio.next \in {Undefined, 0} /\ r.audio.infos.segments = <<>>
                /\ before # 0
  IN  IF wanted /\ begin < original THEN <<[tag |-> None, dts |-> begin]>> ELSE <<>>

\* The remuxer after a batch that is not skipped, and the samples put out.
RemuxTrack(r, type, samples, settings) ==
  LET track      == r[type]
      stashed    == IF Len(samples) > 1 THEN <<Last(samples)>> ELSE <<>>
      sent       == track.stash \o (IF stashed # <<>> THEN Front(samples) ELSE samples)
      original   == sent[1].dts - r.base
      correction == DtsCorrection(track, original)
      ref        == IF type = "audio" THEN AudioRef ELSE VideoRef
      fill       == type = "audio" /\ settings.fill /\ ~track.mp3
      samples4   == Mp4Samples(PrefixSilence(r, type, settings, original) \o sent,
                               stashed, r.base, correction, ref, fill)
      info       == [begin |-> samples4[1].dts, originalBegin |-> samples4[1].original,
                     last |-> Last(samples4)]
  IN  [remuxer |-> [r EXCEPT ![type].stash = stashed,
                             ![type].next = info.last.dts + info.last.duration,
                             ![type].infos = IF settings.live THEN @ ELSE AppendInfo(@, info)],
       samples |-> samples4]

Media(type, samples) == [msg |-> "media", type |-> type, samples |-> samples]
Init4(type, tag) == [msg |-> "init", type |-> type, tag |-> tag]

PutOut(step, type, done) ==
  [step EXCEPT !.remuxer = done.remuxer, !.out = Append(@, Media(type, done.samples))]

\* Mutant of RemuxOne: what has been put out stays in the queue.
RemuxOneKept(step, type, force, settings) ==
  IF Skips(step.remuxer[type], step.left[type], force) THEN step
  ELSE PutOut(step, type, RemuxTrack(step.remuxer, type, step.left[type], settings))

\* One track of a step [remuxer, out, left]: what the remuxer is then, what has
\* been put out, and what is left in the queues.
RemuxOne(step, type, force, settings) ==
  IF Skips(step.remuxer[type], step.left[type], force) THEN step
  ELSE [PutOut(step, type, RemuxTrack(step.remuxer, type, step.left[type], settings))
          EXCEPT !.left[type] = <<>>]

\* remux of the queues of the demuxer: video, then audio
Remux(r, queues, settings) ==
  LET based == CalculateDtsBase(r, queues.audio, queues.video)
      video == RemuxOne([remuxer |-> based, out |-> <<>>, left |-> queues], "video", FALSE, settings)
  IN  RemuxOne(video, "audio", FALSE, settings)

\* flushStashedSamples: the queues of the demuxer are not looked at
FlushStashedSamples(r, settings) ==
  LET stashes == [t \in Types |-> r[t].stash]
      empty   == [r EXCEPT !.audio.stash = <<>>, !.video.stash = <<>>]
      video   == RemuxOne([remuxer |-> empty, out |-> <<>>, left |-> stashes], "video", TRUE, settings)
  IN  RemuxOne(video, "audio", TRUE, settings)

\* _onTrackMetadataReceived
TrackMetadataReceived(r, type, tag, mp3) == [r EXCEPT ![type].meta = tag, ![type].mp3 = mp3]
=============================================================================
