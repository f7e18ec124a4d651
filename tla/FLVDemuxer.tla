----------------------------- MODULE FLVDemuxer -----------------------------
(***************************************************************************)
(* FLVDemuxer of the web player (flv.js, src/demux/flv-demuxer.js) with    *)
(* the MP4Remuxer it feeds: tags are read one by one, frames are queued,   *)
(* and the queues are handed to the remuxer at the end of a chunk or when  *)
(* the configuration of a track changes; the media info is put together    *)
(* from tags that come in any order.                                       *)
(*                                                                         *)
(* A source is a sequence of tags.  A "header" stands for the head of a    *)
(* part, read by a demuxer of its own; the remuxer stays the same.  A tag  *)
(* has the time of the whole source, the base of its part included.  A     *)
(* chunk may end behind or within any tag (what is left of it comes back   *)
(* with the next chunk: IOController).  Seeks, reconnections and the end   *)
(* of a part come between chunks, as TransmuxingController makes them.     *)
(***************************************************************************)
EXTENDS MP4Remuxer

CONSTANTS
  Sources,     \* values of [tags, live, fill, edge, force], see the assumption
  MaxSeeks,    \* bound: seeks
  MaxResumes   \* bound: continuations after a pause or a lost connection

Header(audio, video) == [kind |-> "header", audio |-> audio, video |-> video]
\* onMetaData: what it says of the tracks, "yes", "no" or nothing
Script(audio, video) == [kind |-> "script", audio |-> audio, video |-> video]
AacConfig == [kind |-> "aac config"]
Aac(time) == [kind |-> "aac", time |-> time]
Mp3(time) == [kind |-> "mp3", time |-> time]
AvcConfig(pps) == [kind |-> "avc config", pps |-> pps]
Avc(time, keyframe) == [kind |-> "avc", time |-> time, keyframe |-> keyframe]
Unsupported == [kind |-> "unsupported"]       \* a codec the player does not know
Ignored == [kind |-> "ignored"]               \* a tag too short, or of another type

ASSUME DemuxerAssumption ==
  /\ MaxSeeks \in Nat /\ MaxResumes \in Nat
  /\ \A s \in Sources :
       /\ Len(s.tags) \in Nat \ {0} /\ DOMAIN s.tags = 1 .. Len(s.tags) /\ s.tags[1].kind = "header"
       /\ \A i \in DOMAIN s.tags :
            /\ s.tags[i].kind = "header" => {s.tags[i].audio, s.tags[i].video} \subseteq BOOLEAN
            /\ s.tags[i].kind = "script" => {s.tags[i].audio, s.tags[i].video} \subseteq {"yes", "no", ""}
            /\ s.tags[i].kind \in {"aac", "mp3", "avc"} => s.tags[i].time \in Nat
       /\ {s.live, s.fill, s.edge} \subseteq BOOLEAN  \* isLive, fixAudioTimestampGap, old browser
       /\ s.force \in [Types -> {"no", "on", "off"}]  \* hasAudio, hasVideo of the media source

VARIABLES
  source,   \* the source and the settings
  pos,      \* the next tag
  stage,    \* "closed": no part is open; "ready": between chunks; "chunk": in one
  demux,    \* the demuxer
  remux,    \* the remuxer
  known,    \* the parts whose media info has been reported, by the place of their header
  out,      \* what this step puts out, in order
  seeks, resumes,
  ended,    \* history: where the last segment of a track ended, since the last seek
  lapses    \* history: what has happened to the order of the samples

vars == <<source, pos, stage, demux, remux, known, out, seeks, resumes, ended, lapses>>

NewQueue == [has |-> FALSE,      \* _hasAudio
             told |-> FALSE,     \* _audioInitialMetadataDispatched
             made |-> FALSE,     \* _audioMetadata is there
             codec |-> FALSE]    \* its codec is known

NoInfo == [has |-> [t \in Types |-> "null"], codec |-> [t \in Types |-> FALSE],
           mime |-> {}, metadata |-> FALSE]

NewDemuxer == [tracks |-> [t \in Types |-> NewQueue], queues |-> [t \in Types |-> <<>>],
               dispatch |-> FALSE, info |-> NoInfo]

Init ==
  /\ source \in Sources
  /\ pos = 1 /\ stage = "closed"
  /\ demux = NewDemuxer /\ remux = NewRemuxer
  /\ known = {} /\ out = <<>> /\ seeks = 0 /\ resumes = 0
  /\ ended = [t \in Types |-> Undefined] /\ lapses = {}

Tag == source.tags[pos]
IsHeader(i) == i \in DOMAIN source.tags /\ source.tags[i].kind = "header"
HeaderOf(i) == Max({h \in 1 .. i : IsHeader(h)})
Event(msg) == [msg |-> msg]

YesNo(b) == IF b THEN "yes" ELSE "no"
SetHas(d, type, b) == [d EXCEPT !.tracks[type].has = b, !.info.has[type] = YesNo(b)]

-----------------------------------------------------------------------------
(* what is known of the media *)

\* _isInitialMetadataDispatched: of all the tracks there are, and of one at least
InitialDispatched(d) ==
  /\ \E t \in Types : d.tracks[t].has
  /\ \A t \in Types : d.tracks[t].has => d.tracks[t].told

\* isComplete of the media info
InfoComplete(info) ==
  /\ info.mime # {} /\ info.metadata
  /\ \A t \in Types : info.has[t] = "no" \/ (info.has[t] = "yes" /\ info.codec[t])

Other(type) == IF type = "audio" THEN "video" ELSE "audio"

\* Mutant of NoteCodec: the type of the whole is that of the last track.
NoteCodecOwn(info, type) == [info EXCEPT !.codec[type] = TRUE, !.mime = {type}]

\* The codec of a track is noted, and the type of the whole if it can be told.
NoteCodec(info, type) ==
  [info EXCEPT !.codec[type] = TRUE,
               !.mime = CASE info.has[Other(type)] # "yes" -> {type}
                          [] info.has[Other(type)] = "yes" /\ info.codec[Other(type)] -> Types
                          [] OTHER -> @]

InfoEvents(info) == IF InfoComplete(info) THEN <<Event("mediainfo")>> ELSE <<>>

\* What a frame or configuration does first: there is such a track after all.
FirstOf(d, type) ==
  LET t == d.tracks[type]
  IN  IF t.made THEN d
      ELSE [IF ~t.has /\ source.force[type] = "no" THEN SetHas(d, type, TRUE) ELSE d
            EXCEPT !.tracks[type].made = TRUE]

\* What is said not to be there is not looked at.
SwitchedOff(type) == source.force[type] = "off"

-----------------------------------------------------------------------------
(* tags: each takes a demuxer and gives [demuxer, remuxer, out]             *)

Result(d, r, o) == [demuxer |-> d, remuxer |-> r, out |-> o]

Remuxed(d, step) == Result([d EXCEPT !.queues = step.left], step.remuxer, step.out)

\* onDataAvailable, when there are frames
Dispatch(d) ==
  IF \A t \in Types : d.queues[t] = <<>> THEN Result(d, remux, <<>>)
  ELSE Remuxed(d, Remux(remux, d.queues, source))

\* Mutant of NewConfiguration: the frames parsed before it stay in the queues.
NewConfigurationQueued(d, type, mp3) ==
  Result([d EXCEPT !.tracks[type].told = TRUE, !.dispatch = FALSE],
         TrackMetadataReceived(remux, type, pos, mp3), <<Init4(type, pos)>>)

\* A new configuration: frames that have been parsed go before it, unless it is
\* one of the first.
NewConfiguration(d, type, mp3) ==
  LET step == IF InitialDispatched(d) THEN Dispatch(d)
              ELSE Result([d EXCEPT !.tracks[type].told = TRUE], remux, <<>>)
  IN  [step EXCEPT !.demuxer.dispatch = FALSE,
                   !.remuxer = TrackMetadataReceived(@, type, pos, mp3),
                   !.out = Append(@, Init4(type, pos))]

Enqueue(d, type) == [d EXCEPT !.queues[type] = Append(@, [tag |-> pos, dts |-> Tag.time])]

\* _parseScriptData
ParseScriptData(d) ==
  LET say(e, type) == IF Tag[type] = "" \/ source.force[type] # "no" THEN e
                      ELSE SetHas(e, type, Tag[type] = "yes")
      read == [say(say(d, "audio"), "video") EXCEPT !.info.metadata = TRUE, !.dispatch = FALSE]
  IN  Result(read, remux, InfoEvents(read.info))

\* _parseAudioData of an AudioSpecificConfig
ParseAACConfig(d) ==
  LET first == FirstOf(d, "audio")
      info  == NoteCodec(first.info, "audio")
  IN  [NewConfiguration(first, "audio", FALSE)
         EXCEPT !.demuxer.tracks.audio.codec = TRUE, !.demuxer.info = info,
                !.out = @ \o InfoEvents(info)]

\* _parseAudioData of a frame of AAC
ParseAACFrame(d) == Result(Enqueue(FirstOf(d, "audio"), "audio"), remux, <<>>)

\* _parseAudioData of a frame of MP3, the first of which is the configuration too
ParseMP3Frame(d) ==
  LET first == FirstOf(d, "audio")
      info  == NoteCodec(first.info, "audio")
      told  == [first EXCEPT !.tracks.audio.codec = TRUE, !.tracks.audio.told = TRUE, !.info = info]
  IN  IF first.tracks.audio.codec THEN Result(Enqueue(first, "audio"), remux, <<>>)
      ELSE Result(Enqueue(told, "audio"), TrackMetadataReceived(remux, "audio", pos, TRUE),
                  <<Init4("audio", pos)>> \o InfoEvents(info))

\* _parseAVCDecoderConfigurationRecord: the media info is reported before the
\* record has been read to its end
ParseAVCConfig(d) ==
  LET first == FirstOf(d, "video")
      info  == NoteCodec(first.info, "video")
  IN  IF Tag.pps
      THEN [NewConfiguration([first EXCEPT !.info = info], "video", FALSE)
              EXCEPT !.out = InfoEvents(info) \o @]
      ELSE Result([first EXCEPT !.info = info], remux, Append(InfoEvents(info), Event("error")))

\* _parseAVCVideoData
ParseAVCFrame(d) == Result(Enqueue(d, "video"), remux, <<>>)

-----------------------------------------------------------------------------
(* the actions *)

Emitted(type, o) ==
  FlattenSeq([i \in DOMAIN o |-> IF o[i].msg = "media" /\ o[i].type = type THEN o[i].samples ELSE <<>>])

\* Bookkeeping of what a step has put out: the parts that are known, and where
\* the segments end.
Puts(o) ==
  /\ out' = o
  /\ known' = IF Event("mediainfo") \in Range(o) THEN known \cup {HeaderOf(pos)} ELSE known
  /\ ended' = [t \in Types |-> IF Emitted(t, o) = <<>> THEN ended[t]
                               ELSE Last(Emitted(t, o)).dts + Last(Emitted(t, o)).duration]

Reads(kind) == stage # "closed" /\ pos \in DOMAIN source.tags /\ Tag.kind = kind

\* One turn of the loop of parseChunks.
Parse(step) ==
  /\ demux' = step.demuxer /\ remux' = step.remuxer
  /\ Puts(step.out)
  /\ pos' = pos + 1 /\ stage' = "chunk"
  /\ UNCHANGED <<source, seeks, resumes>>

Turn == [demux EXCEPT !.dispatch = TRUE]
Skip == Result(Turn, remux, <<>>)

\* Metadata that denies a track which has been read, or whose fellow has; and
\* metadata read after a seek into another part has begun a new media info.
ScriptData ==
  /\ Reads("script") /\ Parse(ParseScriptData(Turn))
  /\ lapses' = lapses
       \cup (IF \E t, u \in Types : Tag[t] = "no" /\ (demux.tracks[t].made \/ demux.info.codec[u])
             THEN {"denied"} ELSE {})
       \cup (IF \E t \in Types : demux.info.has[t] = "null" THEN {"late"} ELSE {})

\* A configuration whose frames, or those of another, wait for the other track.
Early(type) ==
  IF ~InitialDispatched(FirstOf(demux, type)) /\ demux.queues[type] # <<>>
  THEN lapses \cup {"early"} ELSE lapses

AACConfig ==
  /\ Reads("aac config")
  /\ Parse(IF SwitchedOff("audio") THEN Skip ELSE ParseAACConfig(Turn))
  /\ lapses' = Early("audio")

AACFrame ==
  /\ Reads("aac")
  /\ Parse(IF SwitchedOff("audio") THEN Skip ELSE ParseAACFrame(Turn))
  /\ UNCHANGED lapses

MP3Frame ==
  /\ Reads("mp3")
  /\ Parse(IF SwitchedOff("audio") THEN Skip ELSE ParseMP3Frame(Turn))
  /\ UNCHANGED lapses

AVCConfig ==
  /\ Reads("avc config")
  /\ Parse(IF SwitchedOff("video") THEN Skip ELSE ParseAVCConfig(Turn))
  /\ lapses' = Early("video")

AVCFrame ==
  /\ Reads("avc")
  /\ Parse(IF SwitchedOff("video") THEN Skip ELSE ParseAVCFrame(Turn))
  /\ UNCHANGED lapses

OtherTag ==
  /\ Reads("unsupported") \/ Reads("ignored")
  /\ Parse([Skip EXCEPT !.out = IF Tag.kind = "unsupported" THEN <<Event("error")>> ELSE <<>>])
  /\ UNCHANGED lapses

\* The head of a part: a demuxer with the tracks that the head or the media
\* source names.
Probe ==
  /\ stage = "closed" /\ IsHeader(pos)
  /\ LET has(t) == CASE source.force[t] = "no" -> Tag[t]
                     [] OTHER -> source.force[t] = "on"
     IN  demux' = SetHas(SetHas(NewDemuxer, "audio", has("audio")), "video", has("video"))
  /\ pos' = pos + 1 /\ stage' = "chunk" /\ out' = <<>>
  /\ UNCHANGED <<source, remux, known, seeks, resumes, ended, lapses>>

\* The end of parseChunks, behind a tag or within one: the queues go to the
\* remuxer unless the last tag was metadata or a configuration.
ChunkEnds(within) ==
  /\ stage = "chunk" \/ (stage = "ready" /\ within)
  /\ within => pos \in DOMAIN source.tags /\ ~IsHeader(pos)
  /\ LET d    == IF within THEN Turn ELSE demux
         step == IF InitialDispatched(d) /\ d.dispatch THEN Dispatch(d) ELSE Result(d, remux, <<>>)
     IN  /\ demux' = step.demuxer /\ remux' = step.remuxer
         /\ Puts(step.out)
  /\ stage' = "ready"
  /\ UNCHANGED <<source, pos, seeks, resumes, lapses>>

\* _onIOComplete: what is stashed is put out; what is queued is not.
Complete ==
  /\ stage = "ready" /\ (pos \notin DOMAIN source.tags \/ IsHeader(pos))
  /\ LET step == FlushStashedSamples(remux, source)
     IN  remux' = step.remuxer /\ Puts(step.out)
  /\ stage' = "closed"
  /\ lapses' = IF \E t \in Types : demux.queues[t] # <<>> THEN lapses \cup {"lost"} ELSE lapses
  /\ UNCHANGED <<source, pos, demux, seeks, resumes>>

\* _onIOSeeked after a pause or a lost connection: the data goes on.
Resume ==
  /\ stage = "ready" /\ resumes < MaxResumes
  /\ remux' = InsertDiscontinuity(remux)
  /\ resumes' = resumes + 1 /\ out' = <<>>
  /\ lapses' = LET infos == remux.audio.infos.segments
               IN  IF infos # <<>> /\ Last(infos).last.tag = None
                   THEN lapses \cup {"silence"} ELSE lapses
  /\ UNCHANGED <<source, pos, stage, demux, known, seeks, ended>>

\* The configuration that a frame was encoded with.
IsConfig(type, tag) ==
  IF type = "audio" THEN tag.kind = "aac config" ELSE tag.kind = "avc config" /\ tag.pps
ConfigOf(type, i) ==
  LET before == {j \in HeaderOf(i) .. i : IsConfig(type, source.tags[j])}
  IN  IF source.tags[i].kind = "mp3"
      THEN Min({j \in HeaderOf(i) .. i : source.tags[j].kind = "mp3"})
      ELSE IF before = {} THEN None ELSE Max(before)

SoughtFrom(to) ==
  /\ stage # "chunk" /\ known # {} /\ ~source.live /\ seeks < MaxSeeks
  /\ seeks' = seeks + 1
  /\ remux' = InsertDiscontinuity(SeekRemuxer(remux))
  /\ out' = <<>>
  /\ pos' = to
  /\ ended' = [t \in Types |-> Undefined]
  /\ UNCHANGED <<source, known, resumes>>

\* A seek to a keyframe of a part whose index is known, with the demuxer there is.
SeekTo(k) ==
  /\ source.tags[k].kind = "avc" /\ source.tags[k].keyframe /\ HeaderOf(k) \in known
  /\ SoughtFrom(k)
  /\ stage' = "ready"
  /\ demux' = IF HeaderOf(k) = HeaderOf(pos) THEN demux ELSE [demux EXCEPT !.info = NoInfo]
  /\ lapses' = lapses
       \cup (IF \E t \in Types : demux.queues[t] # <<>> THEN {"stale"} ELSE {})
       \cup (IF remux.base = Undefined THEN {"unbased"} ELSE {})
       \cup (IF \E t \in Types : ~SwitchedOff(t) /\ ConfigOf(t, k) # remux[t].meta THEN {"other config"} ELSE {})

\* A seek into a part that has not been opened yet, which is read from its head.
OpenPart(h) ==
  /\ IsHeader(h) /\ h \notin known /\ h # HeaderOf(pos)
  /\ SoughtFrom(h)
  /\ stage' = "closed"
  /\ lapses' = IF remux.base = Undefined THEN lapses \cup {"unbased"} ELSE lapses
  /\ UNCHANGED demux

Next ==
  \/ ScriptData \/ AACConfig \/ AACFrame \/ MP3Frame \/ AVCConfig \/ AVCFrame \/ OtherTag
  \/ Probe \/ Complete \/ Resume
  \/ \E within \in BOOLEAN : ChunkEnds(within)
  \/ \E i \in DOMAIN source.tags : SeekTo(i) \/ OpenPart(i)

Spec == Init /\ [][Next]_vars

-----------------------------------------------------------------------------

FrameKinds(t) == IF t = "audio" THEN {"aac", "mp3"} ELSE {"avc"}
TagsOf(samples) == [i \in DOMAIN samples |-> samples[i].tag]
Pending(t) == TagsOf(remux[t].stash \o demux.queues[t])
RealTags(samples) ==
  FlattenSeq([i \in DOMAIN samples |->
                IF samples[i].tag = None THEN <<>> ELSE <<samples[i].tag>>])

\* Whatever the chunks are, every frame that is parsed is put out once and in
\* the order of the file, or is still stashed or queued: nothing is lost or
\* doubled between the queues, the stash and the segments.
Arriving(t) ==
  IF /\ pos' = pos + 1 /\ ~SwitchedOff(t)
     /\ Tag.kind \in FrameKinds(t)
  THEN <<pos>> ELSE <<>>

Conserves ==
  \A t \in Types : RealTags(Emitted(t, out')) \o Pending(t)' = Pending(t) \o Arriving(t)

Conserved == [][Conserves \/ Complete \/ \E i \in DOMAIN source.tags : SeekTo(i) \/ OpenPart(i) \/ Probe]_vars

\* What the queues keep back from the remuxer between chunks, and a seek or
\* the end of a part therefore leaves behind, is at most one frame of a track
\* whose configuration is known, unless metadata ended the last chunk.
KeptBack ==
  stage = "ready" /\ InitialDispatched(demux) /\ demux.dispatch =>
    \A t \in Types : remux[t].meta # None => Len(demux.queues[t]) <= 1

\* A frame was left behind by a seek or the end of a part, the base of the times
\* was taken after a seek, or silence came before a pause.
Disturbed == lapses \cap {"stale", "lost", "unbased", "silence"} # {}

\* The segments of a track follow each other without gap or overlap, whatever
\* the chunks are and also over pauses, lost connections and parts, unless the
\* order was disturbed.
Gapless ==
  [][\A t \in Types : LET samples == Emitted(t, out')
     IN  /\ \A i \in 2 .. Len(samples) : samples[i].dts = samples[i-1].dts + samples[i-1].duration
         /\ samples # <<>> /\ ended[t] # Undefined /\ ~Disturbed => samples[1].dts = ended[t]]_vars

\* Every frame is put out at its time counted from the first of the source, so
\* that the tracks stay together, unless the order was disturbed.
FirstTime == Min({source.tags[i].time : i \in {j \in DOMAIN source.tags :
                    \E t \in Types : source.tags[j].kind \in FrameKinds(t) /\ ~SwitchedOff(t)}})

TrueTime ==
  ~Disturbed => \A t \in Types : \A s \in Range(Emitted(t, out)) :
                  s.tag # None => s.dts = source.tags[s.tag].time - FirstTime

\* Every frame comes behind the initialisation segment of its configuration;
\* only the last two before a change of configuration, one that is stashed and
\* one that is queued, may come behind the next one, whose decoder is not theirs.
Decodable ==
  [][\A t \in Types : lapses \cap {"early", "other config"} = {} =>
       \A s \in Range(Emitted(t, out')) : s.tag # None =>
          \/ ConfigOf(t, s.tag) = remux[t].meta
          \/ /\ ConfigOf(t, s.tag) < remux[t].meta
             /\ Cardinality({i \in s.tag .. remux[t].meta : source.tags[i].kind \in FrameKinds(t)}) <= 2]_vars

\* Once the metadata and a configuration of every track have been read, in
\* whatever order, the media info is complete and names exactly the tracks,
\* unless the metadata denied a track that had been read, or was read into a
\* media info begun in the middle of a part.
InfoTrue ==
  LET info == demux.info
      there == {t \in Types : info.has[t] = "yes"}
  IN  lapses \cap {"denied", "late"} = {} /\ info.metadata /\ there # {} =>
        /\ InfoComplete(info) <=> \A t \in there : info.codec[t]
        /\ InfoComplete(info) => info.mime = there
=============================================================================
