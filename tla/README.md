# Formal models of srsj

srsj is a Java RTMP server. Encoders such as OBS push streams over RTMP; players
pull them over RTMP or HTTP-FLV. It is built from the flazr RTMP code
(`com.flazr`), ported to Netty 4, an HTTP-FLV front end in a Spring Boot
application (`com.srsj`) and a part of Red5's shared objects (`org.red5`). The
application serves a page with a web player, `flv.js`, which plays the HTTP-FLV
streams and files in a browser. This directory holds TLA+ models of the server
and of the player, TLC configurations that check them on small instances, and
TLAPS proofs of the theorems that hold for every value of the constants. Paths
of the server are relative to `src/src/main/java`; the player is the one file
`src/src/main/resources/static/flv.js`, and "line" in its sections is a line of it.

## Inventory of the system

| part | state | operations | hard behaviour | what makes it correct |
|---|---|---|---|---|
| live streams: `ServerHandler`, `ServerApplication`, `ServerStream` | per application a map name → stream; per stream publish type, publisher, subscriber group, sequence headers, metadata; per connection `subscriberStream`, `recorder`, `publisher` | connect, publish, play, closeStream, deleteStream, media, close | handlers of different connections run on different event loops and share the map and the streams without a lock; peers vanish; handlers throw half way | one publisher a stream; an ended publisher frees its name and its file; a deleted stream ends its viewers |
| HTTP-FLV: `HttpFileServerHandler`, `FlvHandler`, `FlvHttpWriter` | the viewer's membership in a group; tag sizes and start time | GET, write, close | the stream found may be deleted or republished before the viewer joins | header, metadata and sequence headers come before media |
| chunk codec: `RtmpEncoder`, `RtmpHeader`, `RtmpDecoder` | chunk size and previous header per channel at the encoder; chunk size, incomplete header and payload, completed header per channel at the decoder | encode, decode, change of the chunk size, clearing of the headers | the two ends change their state at different times and never compare it | the decoder puts out what the encoder was given |
| messages and AMF0: `rtmp/message`, `amf` | none | encode, decode | – | round trip |
| acknowledgements (`ServerHandler`) | byte counters and windows | read, write, acknowledge | counters that outgrow their type | an acknowledgement once a window |
| handshake: `RtmpHandshake`, `Server-`, `ClientHandshakeHandler` | which parts have been read; keys | C0/C1/C2, S0/S1/S2 | fragments; bytes of the first chunk right behind C2 | the handlers change exactly once, no byte is lost |
| playback of files: `RtmpPublisher`, `LoopedReader` | started, paused, conversation id, positions | start, pause, seek, stop, the pacing event | timers that fire after a pause or a seek | one pacing event outstanding in each conversation |
| FLV and F4V files: `io/flv`, `io/f4v` | cursor, tables, aggregate duration | next, previous, seek, write | ends of files, last runs of tables | seek lands on a key frame at or before the position |
| client: `ClientHandler` | transaction ids, reader, writer, publisher | the connect–createStream–play/publish conversation | answers in any order | it follows the server's answers |
| proxy: `proxy` | two channels, their interest, buffered writes | forward, back-pressure, close | each side closes at any time | bytes in order, none lost, both ends closed |
| lifecycle: `RtmpServer`, `ServerStop`, `StopMonitor` | global groups, server thread, monitor socket | start, stop | stop during accept | the stop signal ends the server |
| shared objects: `org/red5/server/so` | attributes, version, pending events, listeners, acquire count | set, remove, clear, register, unregister, begin/endUpdate, acquire, release, close | concurrent changes and update batches | listeners converge to the owner's attributes; released once |
| `com/srsj` application, web socket sample, utilities | none of its own | – | – | – |

And of the web player:

| part | state | operations | hard behaviour | what makes it correct |
|---|---|---|---|---|
| loaders: fetch, web socket, moz-chunked, range | status, range, expected and received lengths, the request | open, abort, destroy, the events of the request | the body ends early; events queued behind an abort or destroy | bytes in order and truly labelled, one end, silence after destroy |
| `IOController` | stash with its position and size, paused, resume position, last dispatched byte, reconnecting | pause, resume, seek, destroy; data, length, completion, error of the loader | a pause or break with bytes in the stash; the stash changes its size with the speed | the demuxer gets every byte once and in order |
| `FLVDemuxer` | queues of frames, configurations, media info, what has been told | a chunk: script, audio, video tags; chunk's end | tags in any order, new configurations in the middle, chunks that end anywhere | each frame goes on once, behind its configuration; media info is true |
| `MP4Remuxer`, segment lists | time base, next time, stashed frame, list of segments put out | remux a batch, flush, seek, discontinuity | times continue over batches, gaps, parts, seeks | segments without gap or overlap, at the true time |
| `TransmuxingController` | part that is read, its media info, pending seek, point to be resolved, reporter | start, stop, pause, resume, seek, destroy; events of what it drives | a seek into a part that is not indexed yet; events of the old part | the groups after a seek, in order; the seek answered |
| `MSEController` | per source buffer: queue, ranges to remove, init segment; pending end of stream, buffer full | init and media segment, seek, end of stream, detach; sourceopen, updateend | one operation at a time, and its event comes late; the buffer is full | nothing lost or reordered, nothing old left, no standstill |
| `FlvPlayer`, `Transmuxer`, worker | attached, pending load, flag of the player's own seeks, progress check, seek record | attach, load, seek, suspend, resume, unload, detach; element's events, timers | commands and events cross each other | a suspended player is resumed, and can play to where it is |
| boxes, AMF, SPS, `NativePlayer`, helpers, the page | none of their own | – | – | – |

How they interact: the pipeline of an RTMP connection is handshake handler →
decoder → encoder → `ServerHandler`. `ServerHandler` finds streams through
`ServerApplication`, writes a publisher's messages to the stream's group, whose
members are RTMP connections (through their own `RtmpEncoder`) and HTTP
responses (through `FlvHandler`), and to a `FlvWriter`. A close ordered by the
server (a CLOSE listener, `ChannelGroup.close`) runs through
`ServerHandler.close`; a close by the peer does not.

In the player a loader hands chunks to `IOController`, which stashes them and
calls `FLVDemuxer.parseChunks`; the demuxer calls `MP4Remuxer.remux` in the middle
of a chunk; `TransmuxingController` owns all three, and reports to `Transmuxer`
through a worker's messages or through promises. `FlvPlayer` passes segments to
`MSEController`, whose events, with those of the media element, lead it to
suspend, resume and seek the transmuxer. The server's `HttpFileServerHandler` is the other end
of a loader's request.

## Modules

### LiveStream: who publishes, who watches

`LiveStream.tla` models `ServerHandler`'s commands and closes with
`ServerApplication` and `ServerStream`, and the part of
`HttpFileServerHandler` that joins a group.

* `typ`, `nameOf`, `pub`, `subs` are the fields of the stream objects, `registry` is
  the application's map; a stream object stays in existence when the map loses it.
* `cur` and `rec` are a handler's `subscriberStream` and `recorder`, `writers` the
  files that are open, so that a lost reference to an open file can be seen.
* `pc`, `after`, `req` and `target` are where a handler is between two reads or
  writes of shared state, and the local values it holds there. One action is what
  a handler does without anything that another event loop could tell apart.
* `status` and `closing` are the channel and a close that is due.

| code | actions |
|---|---|
| `publishResponse` | `Publish`, `CreateStream`, `CheckPublisher`, `SetPublisher`, `UnpublishAppend` |
| `unpublishIfLive` | `UnpublishIfLive`, `Evict`, `EvictThrows`, `DropRecorder` |
| `closeStream`, `publish` with false | `CloseStream`, then `Evict` or `EvictThrows` |
| `deleteStream` | `DeleteStream`, `Evict`, `RemoveStream` |
| `ServerHandler.close` | `Close`, `Evict`, `Return` |
| `playResponse` | `Play`, `CreateStream`, `JoinGroup` |
| HTTP GET and its errors | `HttpGet`, `JoinGroup`, `HttpRefuse`, `CloseViewer` |
| the peer goes away | `PeerLost` |

Exceptions are modelled where the code can throw: the untyped stream that `play`
makes has no group and no list, so that `setPublisher` and `unpublishIfLive` throw
after part of their work; the second read of the publisher may find null; opening
the recording may fail. `Evict` reads, tells and clears the publisher in one step:
between its read and its write another handler could only clear the publisher too
or set it, and the write clears it either way.

Abstracted: media, metadata and sequence headers (see `StreamFeed`); replies; one application;
playback of files (`Play` of a name that is not live leaves the module).

### StreamFeed: what travels on a stream

`StreamFeed.tla` models one stream with its publisher's messages, the metadata and
list of sequence headers `ServerStream` keeps, the HTTP viewers, and the recorder.
A handler starts when its event loop is free (`CanStart`). The RTMP server and the HTTP server
have loops of their own (a `NioEventLoopGroup` each), so the publisher never shares a loop with
a viewer, and viewers may share theirs; handlers on different loops interleave at each access
to shared state.

* `configs` and `mods` are the `ArrayList` and its modCount; `cursor` and `expected`
  a viewer's iterator. `CopyThrows` is the `ConcurrentModificationException`, whose
  error reply closes the viewer. `CopyEnds` follows `hasNext`, which only compares the
  cursor with the size: a change that leaves the size alone goes unnoticed.
* `given` is what has been written to a viewer's channel, `written` how much of it the
  viewer's loop has passed on: a group write of another loop is a task (`TakeUp`).
* `enc`, `index` and `encoded` are a write of a message under way, and the reader index
  and flag of its buffer; `rivals` of a write are the handlers that wrote the same message
  meanwhile, which the code does not record. `Encode`, `TagSize`, `CopyBody` and `MoveIndex` are the accesses
  of `DataMessage.encode`, `FlvAtom`'s constructor and `writeBytes`. Data races on these
  fields are limited to interleavings: no stale reads.
* `needs` of a message is what a decoder wants before it; the code has no such field.

| code | actions |
|---|---|
| `channelRead0` for metadata, audio, video; `broadcast` | `Receive`, `AddConfig`, `Broadcast` |
| `setPublisher` | `SetPublisher` |
| HTTP GET | `Get`, `CopyHeader`, `CopyThrows`, `CopyEnds`, `Join` |
| `FlvHandler` | `TakeUp`, `Leave` |
| writing a tag | `Encode`, `TagSize`, `CopyBody`, `MoveIndex` |

Abstracted: aggregates, bodies of two bytes or less (they are not written), times.
RTMP players are left out: they receive a group's messages through `RtmpEncoder`.
One publisher at a time; the races between publishers are `LiveStream`'s. A message
for a viewer on the publisher's own loop is taken up after the broadcast, not within it.

### RtmpChunk: the chunk codec

`RtmpChunk.tla` models `RtmpEncoder.encode`, `RtmpHeader`'s constructor and
`encode`, and `RtmpDecoder.decode` over a FIFO wire of chunks. A chunk is the fields its
header carries and a number of payload bytes. `Encode` is one call, with its
changes of chunk size and previous headers; `Decode` takes one chunk,
`DecodeFails` is the null reference or the misread extended time. The 24-bit time
is scaled: `Half` stands for 2^23, `2 * Half - 1` for 0xFFFFFF. Control
messages count as one byte of payload. `Decode` has the guard that the bytes it
wants are those of the chunk; the invariant `InStep` says that this guard never
stops it.

`sent`, `due` and `received` are histories: what the encoder was given, what of it leaves a
trace on the wire (an empty message does not), and what came out. The i-th message that comes out is
compared with the i-th that is due.

### BasicHeader: channel numbers

`BasicHeader.tla` models the first one to three bytes of a chunk header, read by
`RtmpHeader` and written by `encodeHeaderTypeAndChannel`, with real byte values, for
a message on its way from a publisher through the server to a subscriber.

### LoaderContract and Loaders: reaching the network

`LoaderContract.tla` is the abstract specification: what `IOController` may rely on when
it is given a loader. `Loaders.tla` models the four loaders `_selectLoader` can choose
(`kind`), and implements it: `Contract == C!Spec` is checked as a property, with the
mapping of `INSTANCE LoaderContract WITH phase <- ...` from `status`, the history of
callbacks, `from` and `received`.

* `status`, `requestAbort`, `from`, `contentLength`, `received`, `wait` are the loader's
  fields; `bound` is false once `destroy` has cleared the callbacks.
* `net` is the browser's side: the state of the request and the bytes the server
  still has for it. It may refuse, break off, end early, with a length or without.
* `said` is what the latest event called back; one event may say two things.

| code | actions |
|---|---|
| `FetchStreamLoader.open` and its promise, `_pump` | `FetchOpen`, `FetchResponse`, `FetchRejected`, `FetchRead`, `FetchDone`, `FetchReadFailed` |
| `WebSocketLoader` | `WsOpen`, `OnWebSocketOpen`, `OnWebSocketMessage`, `OnWebSocketError`, `OnWebSocketClose` |
| `MozChunkedLoader` | `MozOpen`, `MozHeaders`, `MozProgress`, `MozError`, `MozLoadEnd` |
| `RangeLoader`, one request after the other | `RangeOpen`, `RangeHeaders`, `RangeProgress`, `RangeLoad`, `RangeError` |
| `abort`, `destroy` | `Abort` (`FetchAbort`, `WsAbort`, `MozAbort`, `RangeAbort`), `Destroy` |

A server that answers `RangeLoader`'s first request without a Content-Length leaves `_totalLength` null,
and null less the start is a length of zero or less, with which `_openSubRange` asks for everything from
the start on (`RangeProgress`, `SubRange`); the answer may be cut short like any other.

An error need not be a loader's last word (a web socket reports its closing behind its
error, and a fetch that fails while it is aborted may still speak), so the contract
says so. Abstracted: the address, headers, redirects, the throughput that chooses a
sub-range (any of `ChunkSizes`).

### IOController: the stash

A byte is its position in the file, so the label of a dispatched chunk can be
compared with what it holds. The loader is any that keeps the contract: its steps are the
enabling conditions of the answers. The consumer takes whole tags and leaves the rest.

| code | definitions |
|---|---|
| `_onLoaderChunkArrival` | `OnLoaderChunkArrival`: `Measured`, `Unstashed` or `Stashed` with `DispatchStash`, `DispatchChunk`, `Add`, `Room` |
| `_adjustStashSize`, `_normalizeSpeed`, `_expandBuffer` | `AdjustStashSize`, `NormalizeSpeed` with `SpeedSearch`, `ExpandBuffer` with `Grown` |
| `_flushStashBuffer` | `Flush` |
| `pause`, `resume`, `seek`, `_internalSeek`, `destroy` | `Pause`, `Resume`, `Seek`, `InternalSeek`, `Destroy` |
| `_onContentLengthKnown`, `_onLoaderComplete`, `_onLoaderError` | `OnContentLengthKnown`, `OnLoaderComplete`, `OnLoaderError` |

`Openings` are the configurations, data sources and first bytes the player opens: live or not, with a stash or
not and of any configured size, the whole file or from a tag on, its length given (`filesize`) or not.
A configured stash is not compared with the 3MB of its buffer (lines 6538 to 6542): a chunk that would go into a
larger one throws at the view of the buffer (`Overlarge`, line 6950) and is lost.
Sizes are scaled: the sizes of the stash, `BufferInitialSize`, `Slack`, `SpeedList`,
`LowSpeed`, `HighSpeed` and `MaxStash` stand for the kilobytes of the code. `lapses`
remembers the ways in which the code itself loses its place, each the
condition of a property; they are described under the runs.

### MSEController: the source buffers

`m` holds the queues `_pendingSegments`, `_pendingRemoveRanges`,
`_pendingSourceBufferInit` and the flags, and for each source buffer the operation under way, what
is buffered and how many `updateend` events wait to be handled (`ends`): an event may
be handled after further operations have started. Appending may be refused because the buffer is full
(`"quota"`) or by another error, and the buffer of a type may not be made (`fails`): its init segment is then
not queued, and what comes for the type waits. The init segment of an `audio/mpeg` track holds no data
(`Empty`) and is skipped without an `updateend`.

| code | actions |
|---|---|
| `appendInitSegment`, `appendMediaSegment` | `AppendInitSegment`, `AppendMediaSegment` |
| `seek`, `endOfStream`, `detachMediaElement` | `Seek`, `EndOfStream` (in `LoadingComplete` and `OnUpdateEnd`), `DetachMediaElement` |
| `_doCleanupSourceBuffer`, `_updateMediaSourceDuration`, `_doRemoveRanges`, `_doAppendSegments` | `DoCleanup`, `UpdateDuration`, `DoRemoveRanges`, `DoAppendSegments` |
| `_onSourceOpen`, `_onSourceBufferUpdateEnd` | `OnSourceOpen` (its loop is `Opened`), `OnSourceOpenHangs`, `OnUpdateEnd` |
| the browser | `SourceOpens`, `OperationEnds`, `Play` |
| `TransmuxingController` after a seek | `LoadFrom` |

The loops over the two types are compositions, video before audio: `SeekOf`, `CleanupOf`,
`RemoveOf`, `AppendOf` are what they do to one type (in `SeekOf`, `Aborted` and `Emptied` come before
the removals). `SourceBuffer.buffered` is `Runs`, the maximal runs of a set of places in order; `RangesOf` are those
the clean-up notes. A load is never empty, and brings a track's segments behind its init segment
(`MSEAssumption`), as the remuxer does: without that a source ends before it has a buffer.
A media segment is its place on the time line and the number of seeks before it. The
browser's rules that the code relies on (one operation a buffer; an append reopens an
ended source) are external definitions; that it refuses media a buffer gets ahead of an init segment is not
modelled. Time offsets of an MPEG audio track
and the statistics are left out.

### TransmuxingController: parts and seeks

Times are ticks of the whole source; data is read a group of pictures at a time. `ctl` holds
the controller's fields and the position of its IO controller, which is modelled by
what `NoGap` says: groups in order from the one asked for.

| code | actions |
|---|---|
| `start`, `stop`, `pause`, `resume`, `seek`, `destroy` | the same names (`SeekTo`, `LoadSegment`, `InternalAbort` are parts) |
| `_onInitChunkArrival` | `OnInitChunkArrival`, `OnInitChunkUnsupported` |
| `_onRemuxerMediaSegmentArrival` | `OnDataArrival` |
| `_onIOComplete`, `_onIOException` | the same names |
| `MediaInfo.getNearestKeyframe`, `_search` | `NearestKeyframe`, `Search` with its loop `Bisection`, in the code's arithmetic |

`lapses` holds `"forgotten"` (a second seek across parts replaces the pending one) and
`"paused"` (a completion that was under way arrives in a pause).

### FlvPlayer: commands and events that cross

`FlvPlayer.tla` EXTENDS `TransmuxingController` and composes it with the player: `cmds`
are the commands on their way to it, `evts` its events on their way back. With a worker
both are messages; without one, commands are calls and events promises, which run before
anything else (`Idle`). `element` is the media element with the seeking events it has
still to raise; the source buffers are the set of ticks they hold. `Starts` are the ticks of keyframes, and
`Idr` is the one at or before a position that is buffered.

| code | actions |
|---|---|
| `attachMediaElement`, `load`, `unload`, `detachMediaElement` | `AttachMediaElement`, `Load`, `Unload`, `DetachMediaElement`, `OnSourceOpen` |
| `currentTime` set by the page; the user's progress bar | `SeekUnattached`, `InternalSeek`; `ProgressBar` |
| `_onvSeeking`, `_checkAndApplyUnbufferedSeekpoint` | `OnvSeeking`, `ApplyUnbufferedSeekpoint` |
| `_onmseBufferFull`, `_onmseUpdateEnd`, `_suspendTransmuxer` | `Suspend` in `OnMediaSegment` and `OnmseUpdateEnd` |
| `_checkProgressAndResume`, `_checkAndResumeStuckPlayback` | `ProgressTimer`, `ResumeStuckPlayback` |
| the transmuxer's events | `OnInitSegment`, `OnMediaSegment`, `OnRecommendSeekpoint`, `OnOtherEvent` |
| the worker's side | `Command`, `Bring` |

### MP4Remuxer and FLVDemuxer: from tags to segments

`MP4Remuxer.tla` is a module of operators (the remuxer and
`MediaSegmentInfoList`); `FLVDemuxer.tla` has the state and the actions, one for each kind of
tag, because the remuxer runs in the middle of a chunk. A sample is the tag it was read
from and its corrected time and duration.

| code | definitions |
|---|---|
| `parseChunks` | `Turn`, `Reads`, `Dispatch`, `ChunkEnds`, with any chunk ending behind or within any tag |
| `_parseScriptData` | `ScriptData` |
| `_parseAudioData` | `AACConfig`, `AACFrame`, `MP3Frame` |
| `_parseVideoData` | `AVCConfig`, `AVCFrame`; tags of no use are `OtherTag` |
| `probe` and what `_onInitChunkArrival` sets | `Probe` |
| `_onIOComplete`, `_onIOSeeked`, `seek` of the controller | `Complete`, `Resume`, `SeekTo`, `OpenPart` |
| `remux`, `_remuxAudio`, `_remuxVideo` | `Remux`, `RemuxTrack`, `RemuxOne`, `Skips`, `DtsCorrection`, `PrefixSilence`, `FillSilence`, `Mp4Samples` |
| `_calculateDtsBase`, `flushStashedSamples` | the same names |
| `MediaSegmentInfoList` | `AppendInfo`, `SearchNearestSegmentBefore`, `SegmentSearch` |

Abstracted: the bits of a configuration (only whether it has a PPS), composition times,
sync points, the bytes of boxes. The binary search is a recursive function over the pairs of its
bounds, and sequences are joined by folds, so that the modules can be proved about.

## Runs

No run checks deadlock: every connection, request or load may end, and every count of commands,
seeks or messages is bounded, so each model stops.

| run | instance | shows |
|---|---|---|
| `live` | a publisher, a connection that publishes and plays, an HTTP viewer, 1 name, 2 stream objects, types live and append, 1 publish each; fairness | `TypeOK`, `NoGhostPublisher`, `RecorderReleased`, `OustedOnlyByRival`, `PoisonedStays`, `DeleteEndsAudience` |
| `live_two_publishers` | 2 publishers | violation of `OnePublisherPerStream` |
| `feed` | 1 viewer, 1 medium, 1 loop a server, 2 publications, 3 messages | `Informed`, `Decodable`, `TornByOverlap` |
| `chunk` | 3 messages, 2 media channels, 2 types, 2 streams, times 0, 1, 2, 5, sizes 0, 1, 3, chunk sizes 1, 2 | `RoundTrip`, `NothingLost`, `InStep`, `NeverEarly` |
| `basic_header` | all forms and the boundary values of each byte | `ChannelKept` |
| `loaders` | 4 loaders, 5 bytes, from 0 or 2, sub-ranges of 1 or 2; fairness | `Contract` (refinement), `CompleteIsAll`, `Verdict` |
| `web_io` | 5 bytes in 3 tags, chunks up to 3, buffer of 3, 3 requests; 8 openings: live or not, stash of 2, of 4 or none, from byte 0 or a tag, length given or not; fairness | `TypeOK`, `Labelled`, `NoGap`, `CompleteIsAll`, `Verdict` |
| `media_source` | 5 media and 3 init segments, audio ahead of video, 1 seek, 2 waiting events a buffer, buffers that are not made; AAC, or empty init segments with the clean-up or with Safari's work-around | `NothingLost`, `SeekClears`, `CleanupBehind`, `NoStall` |
| `transmuxing` | 3 parts of 3 ticks with 2 keyframes each, indexed or not, one perhaps not FLV, any number of seeks; fairness | `SeekPointTrue`, `ReporterSafe`, `InOrder`, `SeekAnswered` |
| `player` | 3 parts of one group of pictures each, worker or promises, accurate seek or not, 2 seeks, 2 events, 2 messages each way | `TypeOK`, `FlagMatches`, `WillResume`, `Playable` |
| `player_seek` | 4 keyframes, 1 seek | violation of `SeekpointComes` |
| `remux` | 8 sources of up to 17 tags, 2 seeks, 1 continuation | `KeptBack`, `TrueTime`, `InfoTrue`, `Conserved`, `Gapless`, `Decodable` |

Why the bounds are enough. A race on a stream needs two connections, of which one can be
closed as the audience of the other; a second stream object appears when two
look-ups miss or a name is deleted. The theorems say the same of `live`'s safety
properties for any number of connections. `MaxPublish = 1` is a condition of three properties, not only
a bound: a second publish on a connection drops its first stream and file without
releasing them. In `feed` viewers touch each other only through the buffer, on
which the recorder is a second writer already; three messages are a header, a second header or media
that needs the first, and one of a second publication; a viewer that copies a header and is then given it by
broadcast writes it twice, so a write can follow two that collided. In the codec the state of a channel is one previous header, so a third
message sees all the second can leave behind; sizes 0, 1, 3 against chunk sizes 1, 2 give no
chunk, one, a full last one and a partial last one; time 5 is the value that makes a
time extended.

In `loaders` five bytes against sub-ranges of one and two give several sub-requests with a
partial last one. In `web_io` chunks of up to three bytes end before, at and behind a tag, fit the stash, fill it
and exceed its buffer, a stash of four does not fit the first buffer, and three requests are a start, a pause or break, and what comes after it. In `media_source` two
segments can wait behind an operation in either buffer, and two unhandled events are the
least that let an event be handled after a further operation has ended; the second init segment of a track is one that
tries again to make a buffer, or is appended in the middle. In `transmuxing` a part in the middle has
one before and one behind it, and a keyframe that is not the first. In `player` a
part is not indexed when a seek into it waits for its head, two seeks let the answer to the first meet the second,
and with three groups one can be brought that is neither before nor at the position sought: with two the
source buffers cannot be full of the wrong place. The theorems say the same of its four properties for parts of any
length; a position before the first keyframe of a part, which this run has not, is among what they allow for. The run's
`VIEW` leaves out what the controller emits and what it should emit next, which nothing in the player reads. The sources of `remux` are listed in
`MCFLVDemuxer.tla`; chunks may end anywhere in them.

What the violations say:

* `OnePublisherPerStream`. `ServerHandler.java:500` logs "disconnecting publisher
  client, stream already in use", but the check and `setPublisher` are separate, and
  a rejected connection keeps the stream and unpublishes its publisher when it closes.
* `SeekpointComes`. Line 9358 says "just wait for the recommend_seekpoint callback". A
  suspension ordered for data of the old place reaches the worker behind the seek,
  before the first data of the new place; the check that would resume it waits for the
  position to be buffered, so the callback never comes. `Playable` is for the runs without such a
  suspension (`"overtaken"`).

### Limits of the properties

Several properties hold up to conditions. Each condition names what the code does not keep,
as the models show it.

Server:

* A publisher whose peer disappears is never unpublished: `ServerHandler` has no
  `channelInactive`. `NoGhostPublisher` is about orderly ends.
* A rejected connection's close throws, and the channel stays open, when the publisher leaves
  between the reads at lines 547 and 548 (`EvictThrows`).
* Writers of a broadcast message on different loops share its buffer's reader index
  and tear tags. `TornByOverlap` says that nothing else does: a write that none overlaps is
  whole even if earlier ones collided.
* A header added between a viewer's copy and its joining of the group reaches it neither way:
  `Informed` and `Decodable` are stated for *undisturbed* viewers. Neither speaks of metadata:
  a viewer is given what the stream had when it asked, and misses what arrives until it joins,
  which the modCount does not show.
* An empty message (`Audio.empty`) leaves no bytes but becomes the previous header, so a channel's first
  header on the wire need not be large. `RoundTrip` is stated for *clean* channels; `Clean`
  and `Follows` are the exact limits of the header compression: no empty message, times
  below 2^23 ms, no step back in time, no change of stream, and no message with its
  predecessor's size and another type.

Loading (the loaders):

* A loader that was not told how much there is takes the end of the body for the end of the file: `fetch` and
  `moz` without a length (`Unknown`), and `RangeLoader` when its probe is answered without one (lines 8717 to 8726;
  the length is then zero or less). `CompleteIsAll` is about a length that was told, a positive one. A response
  to a range is taken to bring at least one byte.

Loading (`IOController`):

* `"thrown"`: a chunk is lost to a configured stash that is larger than its buffer (`Overlarge`). The fetch loader
  catches what is thrown and reports an error; of the others nobody does, and the demuxer is given the data with a
  hole and with wrong labels.
* `"taken whole"`: a chunk larger than the empty stash is dispatched from it without setting the stash's
  start, which labels what follows wrongly.
* `"nothing yet"`: a pause or an early end before the first dispatch of a request that does not
  start at 0 makes the controller ask again from byte 0.
* `"silence"`: a stale total length makes an early end look like the end of the file, and nothing is
  reported.
* A completion that arrives in a pause finds the stash thrown away.

Buffers (`MSEController`):

* An append refused by a full buffer is tried again only at a next event; when loading is
  complete there may be none.
* `endOfStream` before `sourceopen` has been handled leaves a loop that does not end
  (`OnSourceOpenHangs`), and one with work still waiting is undone by the next
  operation (`early`).
* When the browser does not make a source buffer (lines 2546 to 2554) the player is told of an error, but the
  init segment is dropped, or waits if it was deferred, the type's media waits, and the source is not ended. A seek leaves
  the queue of a type without a buffer alone. A later init segment tries again. `NothingLost` leaves
  such a type out (`unmade`), `NoStall` such a run.
* An empty segment, the init segment of an `audio/mpeg` track, is taken off its queue without an append and without an
  `updateend` (lines 2805 to 2808): with nothing else under way, what waits behind it or an end of stream waits
  for the next segment (`skipped`, left out of `NoStall`). `NothingLost` counts it as taken.
* With Safari's work-around for `audio/mpeg` the `updateend` that corrects the duration does nothing else.

Controller and player:

* `"forgotten"`: a second seek into an unread part replaces the pending one; `"paused"`: a
  completion in a pause loads the next part.
* A part that is not FLV leaves the statistics reporter on without an IO controller
  (`ReporterSafe`); a reconnection before the first chunk calls a remuxer that is not there.
* A seek in a source without an index stops the progress check and is then ignored (`WillResume`).
* A seek into the part at whose head a suspension was carried out stops the progress check, and then waits for
  metadata that a suspended controller does not read (`Waiting`; lines 3515 to 3525 with `_internalSeek`).
  `WillResume` and `Playable` leave this state out. It takes a second part: the first is indexed
  before anything can be suspended, which is the auxiliary invariant `ReadInv`.
* `"full"`: a source buffer that is full before it has got to the position suspends the controller
  (`_onmseBufferFull`, lines 9253 to 9258). The check then waits for the position to be buffered, nothing is
  played that would make room, and what is buffered behind the position stays.
* An accurate seek to a place of a later part ahead of its first keyframe (`BeforeKeyframes`). The controller starts at the
  part's first keyframe, so the place itself is never buffered; if a segment of an earlier place, which
  was on its way when the seek cleared the buffers, has been appended since, the position is in a gap, neither in the buffer nor ahead of all of it, and neither the check nor
  `_checkAndResumeStuckPlayback` (lines 9393 to 9409) moves it on.
* `Playable` leaves out these states and the runs with `"flag"`, `"forgotten"` or `"paused"`: after a seek that is
  taken for the player's own or replaced by another, or groups that are lost, the controller is at another place than the
  position. Its theorem is for a `lazyLoadMaxDuration` other than 0: with 0 a segment that ends where the position is
  suspends the controller before it has brought the one that holds it.
* `"flag"`: `_requestSetTime` stays up when the element is detached, and when the position is set to 0 before there is
  metadata (lines 9359 to 9361): the element starts at 0 anyway and raises no seeking event (`SetTime`). The user's next
  seek is then taken for the player's own and ignored; `FlagMatches` is about the flags of which an event will tell.
* Unloading leaves the
  progress interval and the seek point's timer running.

Demuxer and remuxer:

* `"stale"`, `"lost"`: a seek or the end of a part leaves the one queued frame of a track
  behind; `KeptBack` says it is never more than one.
* The last two frames before a change of configuration may be put out behind the new one (`Decodable`).
* `"unbased"`: a seek before the first dispatch takes the base of times at the seek point; a
  base or next time of 0 counts as undefined.
* `"silence"`: inserted silence keeps its own original time, which shifts what follows a
  resumption; a silent frame at the beginning has the base subtracted twice.
* `"denied"`: metadata that denies a track that was read, or is read behind another track's codec, leaves the
  media info incomplete or its type wrong; `"late"`: so may metadata read into the empty media info that a seek into
  another part begins;
  `"early"`: a reconfiguration while the other track's configuration is awaited; `"other config"`: a
  seek behind a reconfiguration does not bring its configuration back.
* `IDRSampleList.appendArray` pushes to the list it has replaced after a `clear` (2149), and the
  search in `MediaSegmentInfoList` misses times within a segment (2236).

### Fairness

`FairSpec` of `LiveStream` gives each event loop weak fairness on the handler it has started
(`HandlerStep`, `JoinGroup`) and on the closes it is due (`Close`, `CloseViewer`):
a Netty event loop runs its tasks. Nothing is assumed of peers: no command, request or
loss is fair. `Loaders` has weak fairness on `Event`: a request that is out is answered, fails, or is given up by the browser.
`IOController` has it on `Answer`, which is what the loaders' `Verdict` delivers, and
`TransmuxingController` on `Data`, which is what `IOController`'s `Verdict` delivers. Commands of the page and
failures are never fair.

## Proofs

Each `*Proofs.tla` proves theorems about one module for every value of its constants, under that
module's named assumption and no other, but for the hypothesis of `PlaybackGoesOn`. A theorem is `Spec => []Inv` (or, for `Contract` and `PoisonedStays`, a
temporal formula), by an invariant `IInv` that holds initially, that every step keeps (one lemma an
action), and that implies the property. Hardly any of the properties is inductive as it stands.

| module | theorems (property) | assumption |
|---|---|---|
| `LiveStreamProofs` | `TypeCorrect` (`TypeOK`), `OrderlyCloseReleases` (`NoGhostPublisher`), `RecorderAlwaysReleased` (`RecorderReleased`), `OnlyRivalsOust` (`OustedOnlyByRival`), `PlayPoisonsName` (`PoisonedStays`) | `ConstantsAssumption`: kinds of connections differ; no null is a value |
| `RtmpChunkProofs`, of `BasicHeader` | `ChannelsRelayed` (`ChannelKept`) | `ByteAssumption`: bytes are bytes |
| `RtmpChunkProofs`, of `RtmpChunk` | `CleanChannelsRoundTrip` (`RoundTrip`), `CleanChannelsComplete` (`NothingLost`), `EndsInStep` (`InStep`), `TimesNeverEarly` (`NeverEarly`) | `ChunkAssumption`: chunk sizes and stream ids are positive, times and sizes natural; channel 2 and its two types are not the media's |
| `StreamFeedProofs` | `TagsTornByOverlap` (`TornByOverlap`), `ViewersInformed` (`Informed`), `MediaDecodable` (`Decodable`) | `FeedAssumption`: the publisher is no viewer; the servers share no loop; the bound is a number |
| `LoadersProofs` | `CompletionIsWhole` (`CompleteIsAll`), `LoadersKeepContract` (`Contract`) | `LoadersAssumption`: a file has a byte, a range starts in it, a sub-range has a byte |
| `MSEControllerProofs` | `SegmentsKept` (`NothingLost`), `SeekEmpties` (`SeekClears`), `CleanupStaysBehind` (`CleanupBehind`), `QueuesDrain` (`NoStall`) | `MSEAssumption`: a load is not empty, and a track's init segment comes first |
| `IOControllerProofs` | `ControllerTypeCorrect` (`TypeOK`), `LabelsKept` (`Labelled`), `NothingSkipped` (`NoGap`), `CompletionTakesAll` (`CompleteIsAll`) | `IOAssumption`: the file ends with a tag, sizes are positive, a request opened behind byte 0 starts at a tag and a length given beforehand is true, the list of speeds ascends; nothing is assumed of a configured stash but that it is positive |
| `FLVDemuxerProofs`, of `FLVDemuxer` and `MP4Remuxer` | `MediaTypeCorrect`, `FramesConserved` (`Conserved`), `LittleKeptBack` (`KeptBack`), `MediaInfoTrue` (`InfoTrue`) | `DemuxerAssumption`: a source is tags with a head at the beginning, times are natural, settings are settings; `RemuxerAssumption`: reference durations are positive |
| `FlvPlayerProofs`, of `TransmuxingController` | `TransmuxingTypeCorrect`, `ReporterHasIO` (`ReporterSafe`), `SeekPointsTrue` (`SeekPointTrue`), `GroupsInOrder` (`InOrder`) | `TransmuxingAssumption`: there is a part, and a keyframe; keyframes ascend |
| `FlvPlayerProofs`, of `FlvPlayer` | `PlayerTypeCorrect` (`TypeOK`), `OwnSeeksMarked` (`FlagMatches`), `SuspendedIsChecked` (`WillResume`), `PlaybackGoesOn` (`Playable`) | `PlayerAssumption` and `TransmuxingAssumption`: settings are settings, bounds are numbers; `PlaybackGoesOn`: `LazyMax` is not 0 |

`LiveStream`. `TypeInv` adds `HoldsStream`: a handler past `getStream` holds a stream object, which the
typing of `pub` needs. `OrderlyCloseReleases`, `RecorderAlwaysReleased` and `OnlyRivalsOust` are for
`MaxPublish = 1`: that a close releases a stream depends on the handler still holding it, hence
on its never having published again. `OwnerInv` carries the three together with what a
handler that has not published can and cannot hold. `PlayPoisonsName`, for any number of publishes, is an
action property over `NamedInv`: the map and the handlers agree on names.

`BasicHeader`, whose theorem stands in the same module as those of the chunks its headers begin. Two lemmas: what is
read is a channel number, and a written header reads back, but for channel 320.

`RtmpChunk`. Nothing in either end says where it is in the other's stream, and the encoder may be any number of
messages, chunk sizes and cleared headers ahead. The invariant says that there is a *book* of the wire: to
every chunk on it, and to the encoder behind them, a place, that is the message the chunk is of, whether it is that
message's first, the bytes left of it from there, and the chunk size the decoder will have by then. `Link`
is what a place, its chunk and the next place have to do with each other; the encoder is at the last place, with its
own chunk size, and the decoder at the first (`DecoderAt`): it has put out the messages before, lacks what is
left, and has that chunk size. `InStep` follows, for all messages. An encoder's step lengthens the book by the chunks of
a message (`CountBounds` and `LeftAt`, the arithmetic of cutting), a decoder's step takes its first place off.

What a header was compressed against is described by the messages, not by the encoder's state, which moves on and is cleared
while the chunk is on the wire: `TrueHeader` refers to the last message due on the channel before
this one (`LastOn`), and `EncoderInv` says that the previous header, where there is one, is that message's. At the other
end `Keeps` says the same of the decoder's headers, `TimesKept` of its times: equal on a clean channel, never earlier
on one without empty messages and times that read as negative. For such a channel a
header that leans on another finds one, so the decoder does not fail (`BrokenInv`, `Clocked`), which gives
`NothingLost`. A message that is sent can make a channel unclean but not clean again; `Grows` is that fact for
each of the three conditions. `due` was made a variable for this proof, and `Clean` stated by
positions: filtered sequences are beyond the provers without an induction.

`StreamFeed`. `RaceInv`: a write that no other has overlapped so far has its message's buffer to itself, and the
buffer's index, the size and the length are where the accesses it has passed leave them; the first access resets
whatever earlier writes left. What a message of media needs is in the list of headers when it is broadcast
(`ListInv`), and a viewer whose first look at the list still holds has been given what is in it
(`InformInv`); so the relation runs from a message, over the list, to what a viewer was given. What the
invariant had to say beside the property: a buffer whose encoder has passed the flag
is encoded, and a viewer's cursor is within a list of the modCount it remembers.

`Loaders`. Of a request that is out, `received + net.left = Total - from` (fetch, moz), or the
sub-range ends within the file (range); with a length that was told, completion is said only when nothing is left. That a range request
is never sent behind an error (`net.state = "sent" => status # "error"`) was missing in the first attempt.
`NextMaps` shows that every step of each of the four loaders is, under the mapping of `INSTANCE
LoaderContract`, one step of the contract or a stutter.

`MSEController`. One invariant for the four, for any load, any number of seeks and any number of
`updateend` events that wait. `NothingLost` is inductive once the queues are typed: every
function that touches `pending` or `appended` keeps their concatenation. For `SeekClears`, `ClearInv` says in between: once
`seek` has run, every segment still buffered is in the range that is being removed or in one that
waits, and nothing of the new load is appended before these are gone. That holds although `_doAppendSegments` does
not look at the ranges, because no idle buffer has any (`Ready`); `Runs` covers the places it is taken of.
For `CleanupBehind`, every range that `ToRemove` finds ends behind the position.
A buffer that could not be made is why each relation between a queue and its buffer says "or the type is `unmade`"; only a
buffer that is there holds, removes or has been given anything. An empty segment is one more way a queue gets shorter (`Skips`).
For `NoStall`, `StallInv` says: a complete load whose source has not been ended has the end of stream noted, and an
operation under way, an event to come, an empty segment skipped with nothing under way, or the opening of the source with segments waiting for it. It rests on
`PhaseInv`, how the source's opening, the load and the buffers go together: a load after a seek has no
init segments left, a load that has not been opened is the first, an ended source has no
operation, and a segment that waits has a buffer, or an init segment that waits.

`IOController`. One invariant for the four, for a file of any length with tags anywhere, any configuration, chunks, speeds,
stash sizes and any number of requests. Nothing relates the stash to what the demuxer needs but the order in which `_to`,
`_stashByteStart` and the stash were last written, and the code breaks that relation in more than one way, so the invariant says
it twice, each time under the condition that no such way has been taken. `TightInv`, as long as no chunk was lost and no start was left
behind (`Unbroken`): the stash's label and length end exactly where the request has come to, and its bytes are the
positions from the label on; it gives `Labelled`. `ExactInv`, as long as no
position was lost: the demuxer needs the first byte of the stash, or the next to come, or the resume position of a pause; it
gives `NoGap` and `CompleteIsAll`. Without these conditions the labels are numbers and no more: after a lost chunk they may pass
the end of the file. `SizeInv` is what `FitsBuffer` rests on for any configured size: the buffer never becomes
smaller than the first one, the stash size is positive, without which the doubling in
`_expandBuffer` would not end, and it is within the buffer unless it is the configured one, to which each request returns it. `ModeInv`: a pause empties the stash, only a pause aborts, a live stream does not
reconnect. Each helper (`DispatchStash`, `DispatchChunk`, `Flush`, `InternalSeek`...) has one lemma on its run at each of the
strengths; the lemmas of the steps put these together. The recursive functions `SpeedSearch` and `Grown` are
well-founded by the length of the interval and by what is missing (`Fixpoint`, `Descends`); that the search finds a place, and that
the buffer grows to what is asked for (`GrownEnough`), follows by a smallest counterexample.

`FLVDemuxer` and `MP4Remuxer`. Every frame is in one of three places, the segments of the step, the stash and the
queue, and each of the functions between them keeps the sequence of their tags (`Held`, `Told`): a batch becomes pieces
with as many tags as it has frames, silent ones without a tag (`PieceMade`, `BatchMade`, `SilenceFilled`), a track is
remuxed or skipped (`TrackRemuxed`, `OneRemuxed`), and the tracks are remuxed one behind the other (`AllRemuxed`). A tag
then either moves what is held or adds its own frame (`Moves`, `Adds`), which gives `FramesConserved` without an invariant
beside the types. The types are the larger part: that a batch of frames becomes a sequence of pieces, that the search in the
list of segments stays within the list (`SegmentSearchRange`, by the length of the interval), and that a stash is put
out when the queue is not. `LittleKeptBack` follows from `Dispatched`, because nothing between chunks touches queues, marks
or configurations (`KeptBetween`). For `MediaInfoTrue` the invariant says what holds before the media info is
complete: a codec is of a track that has been read, a track that is there or is forced is not said to be none
(`Consistent`), and, once metadata has been read and nothing denied it, nothing about the tracks is open and the type of
the whole is known when all codecs are (`Sound`). `"late"` and the first half of `"denied"` were missing from the
property's condition until the proof asked for them: metadata may deny a track between its first frame
and its codec, and a seek begins a new media info in the middle of a part.

`TransmuxingController`. `Placed`: the IO controller reads the part the controller is at, and a part's information is
there once it has been read. `Resolved`: the point to be resolved is the start of the group that
comes next. `Aligned`: the group the order asks for is the one that comes next, or, while a seek waits for its
part, the one that seek leads to. `GroupsInOrder` needs that
`_search` finds the last keyframe at or before a time; `Bisection` is a recursive function, and instead of an induction over its
calls the lemma takes a smallest interval on which it would fail: its two halves
are smaller. The same argument replaces the induction in other lemmas over `Nat` (a least element
of a nonempty set).

`FlvPlayer` extends `TransmuxingController`, so one module holds the proofs of both. The player's invariant extends the controller's with the messages on their way. `ResumeInv`: while no check
runs, each suspension on its way is followed by a resumption or a seek, and one of these is on its way to a suspended
controller, unless a seek waits for the part it is at (`Waiting`); `ReadInv`: nothing is suspended before the
first part has been read. The condition `Waiting` came from here: with one part the property had held without it.

`PlaybackGoesOn` is about a player at rest, and its invariant `PlayInv` says why each player that is not yet at rest will
come to be led on. `ReadyInv`: once a part has been read, the element has its metadata or an init segment is on its way.
`Grouped`: what is buffered is whole groups. `FirstInv`: while nothing has been read, nothing is sought. The rest is for a
source with an index and as long as nothing has gone wrong (`Sound`). `OrderInv`:
no suspension comes behind a seek, and a controller that is or will be suspended has something buffered to go on from.
`PointInv`: the segment of the last seek point on its way is buffered or comes before it, unless a seek is under way.
`Led`, the main part: the position is buffered; or it is before every group; or a seek to it is
among the commands (`Sent`) or has reached the controller (`Taken`); or its group is among the events
(`Announced`); or the controller is working towards it (`Loading`); or the player has still to hear of it (`Unheard`).
Each of the player's handlers, each command and whatever the controller brings moves a player from one of these to another.
The lemmas about queues (`EventPushed`, `CommandPushed` and those for their heads) are stated once. `Playable` had held in
a run with two groups without `"full"` and `BeforeKeyframes`; the invariant, checked with more groups before it was
proved, showed both.

Beyond the provers, and model-checked only:

* liveness under fairness (`DeleteEndsAudience`, `Verdict` of `Loaders` and of `IOController`, `SeekAnswered`);
* what a recursive definition computes over data, by induction; no `RECURSIVE` operator is used;
* the violations, which are traces.

`TrueTime`, `Decodable` and the second half of `Gapless` of `FLVDemuxer` are model-checked too, and for another reason.
They are about sources that are well formed: times ascend on a track, the earliest frame is in the first dispatch, a
track has one codec and its configuration comes before its frames. The code does not check that, `DemuxerAssumption` does
not say it, and a theorem that assumed it would be about the sources more than about the code.

## Plan

Modules next: `SharedObjectSync` (attributes, versions, update batches, listeners,
`ClientSharedObject`, with an abstract replicated map); `Playback` (`RtmpPublisher` with its
timer, pause, seek and conversation ids, `LoopedReader`, `FlvReader`, the F4V
tables); `Lifecycle`, `Proxy`, `Handshake`, `Client`.

The hazards they are for:

* `ServerApplication.java:87`: two connections get two applications of one name.
* `ServerHandler.java:193`: the acknowledgement window against an `int` counter; `:323`: one header object
  is written to many channels by encoders that set its type and delta; `:516`: a second publish on a connection.
* `RtmpPublisher.java:177`, `:220`: timer thread and event loop share the reader; a timer armed before a pause
  or seek is told apart by the conversation id only. `LoopedReader.java:99`: `hasNext` rewinds.
* `F4vReader.java:103`: a seek past the last sample.
* `StopMonitor.java:53`: after the stop signal the server must end.
* `ProxyHandler.java:204`: the other side is closed behind a write that is not flushed.
* `ServerHandshakeHandler.java:43`: a step that arrives in fragments or with the first chunks.
* `ClientHandler.java:322`: statuses under names the server does not use.
* `SharedObject.java:298`, `:562`, `:623`, `ClientSharedObject.java:168`, `:274`, `SharedObjectMessage.java:364`,
  `StatisticsCounter.java:45`: order of updates, listeners that register during a close, a clear that
  tells only the owner, values that cannot be encoded, a maximum set in two steps.

## Not modelled

Of the server: encoding of message bodies and AMF0 (pure, field by field), digests and ciphers of the
handshake, parsing of MP4 boxes, logging, configuration files, the Spring Boot wiring, the web socket
echo sample, and the parts of the plan above. Of the player: the bits of AudioSpecificConfig, MP3 headers, SPS
and AMF values, the bytes of MP4 boxes and silent frames, composition times and sync points,
redirects, seek handlers, the speed sampler, statistics, volume, `NativePlayer` (a wrapper of the element),
`MSStreamLoader` (never selected), logging, feature tests, polyfills and the page.
