---------------------------- MODULE IOController ----------------------------
(***************************************************************************)
(* IOController of the web player (flv.js, src/io/io-controller.js): the   *)
(* stash between a loader and the demuxer, its size following the speed of *)
(* the network, pause and resume by aborting and reopening the request,    *)
(* seeking, and the silent reconnection after a connection that ended too  *)
(* early.                                                                  *)
(*                                                                         *)
(* A byte is its position in the file, so a chunk is a sequence of         *)
(* positions and the label it is dispatched with can be compared with what *)
(* it holds.  The loader is any loader that keeps LoaderContract.  The     *)
(* consumer is the demuxer as the controller sees it: it takes the whole   *)
(* tags of what it is given and returns how many bytes that was.           *)
(***************************************************************************)
EXTENDS Integers, Sequences, SequencesExt, FiniteSetsExt

CONSTANTS
  Total,              \* bytes of the file
  TagEnds,            \* positions just past the header and each tag
  MaxChunk,           \* most bytes a loader hands over at once
  Openings,           \* the configurations, data sources and first bytes opened
  BufferInitialSize,  \* the 3MB of the first buffer
  Slack,              \* the 1MB a buffer has beyond the stash
  SpeedList,          \* _speedNormalizeList
  LowSpeed, HighSpeed, MaxStash,  \* 512, 1024 and 8192 of _adjustStashSize
  Speeds,             \* speeds the sampler may report, 0 for none
  MaxRequests         \* bound: requests made in a behaviour

\* The file ends with a tag, the sizes are positive and the list of speeds
\* ascends.  A source of which the index is known may be opened at a tag (open
\* with optionalFrom), and a length given for it (filesize, 0 for none) is true.
ASSUME IOAssumption ==
  /\ Total \in TagEnds /\ TagEnds \subseteq 1 .. Total
  /\ {Total, MaxChunk, Slack, BufferInitialSize, MaxStash} \subseteq Nat \ {0}
  /\ Openings \subseteq
       [live : BOOLEAN, stash : BOOLEAN, stashInitialSize : Nat \ {0},
        from : {0} \cup (TagEnds \ {Total}), filesize : {0, Total}]
  /\ SpeedList \in Seq(Nat \ {0}) /\ SpeedList # <<>>
  /\ \A i, j \in DOMAIN SpeedList : i < j => SpeedList[i] < SpeedList[j]
  /\ Speeds \subseteq Nat /\ {LowSpeed, HighSpeed, MaxRequests} \subseteq Nat

VARIABLES
  io,       \* the controller
  loader,   \* the loader and its request
  need,     \* the consumer: the first byte it has not taken
  given,    \* what this step dispatched, in order
  verdict,  \* the callback of this step: onComplete or onError
  lapses    \* history: the ways in which positions have been lost

vars == <<io, loader, need, given, verdict, lapses>>

Loader(from) == [phase |-> "open", from |-> from, got |-> 0, length |-> FALSE]

\* The constructor, _createLoader (the range loader wants no stash) and open
Init ==
  \E o \in Openings :
    /\ io = [live |-> o.live, enableStash |-> o.stash,
             stash |-> <<>>, stashByteStart |-> 0, stashInitialSize |-> o.stashInitialSize,
             stashSize |-> o.stashInitialSize, bufferSize |-> BufferInitialSize,
             to |-> -1, totalLength |-> o.filesize, fullRequestFlag |-> o.from = 0,
             reconnecting |-> FALSE, paused |-> FALSE, resumeFrom |-> 0,
             speed |-> 0, requests |-> 1, open |-> TRUE]
    /\ loader = Loader(o.from)
    /\ need = o.from
    /\ given = <<>>
    /\ verdict = "none"
    /\ lapses = {}

-----------------------------------------------------------------------------
(* the consumer *)

\* Only whole tags are taken, of data that goes on where it ended or starts the
\* file again; data that starts elsewhere is not understood and used up.
Consumed(at, bytes) ==
  LET end  == bytes[1] + Len(bytes)
      ends == {e \in TagEnds : bytes[1] < e /\ e <= end}
  IN  IF bytes[1] \in {at, 0} THEN Max(ends \cup {bytes[1]}) - bytes[1] ELSE Len(bytes)

-----------------------------------------------------------------------------
(* the size of the stash *)

\* The binary search of _normalizeSpeed; it does not run out of places, as the
\* speed is not below the first of the list.
SpeedSearch(kb) ==
  LET last == Len(SpeedList)
      search[b \in (1 .. last) \X (0 .. last)] ==  \* b: lbound and ubound
        LET mid == b[1] + (b[2] - b[1]) \div 2
        IN  IF b[1] > b[2] THEN 1
            ELSE IF mid = last \/ (kb >= SpeedList[mid] /\ kb < SpeedList[mid + 1]) THEN mid
            ELSE IF SpeedList[mid] < kb THEN search[<<mid + 1, b[2]>>]
            ELSE search[<<b[1], mid - 1>>]
  IN  search

NormalizeSpeed(kb) ==
  SpeedList[IF kb < SpeedList[1] THEN 1 ELSE SpeedSearch(kb)[<<1, Len(SpeedList)>>]]

\* _expandBuffer: the stash size is doubled until the bytes fit with the slack.
Grown(expected) ==
  LET grown[size \in Nat \ {0}] ==
        IF size + Slack < expected THEN grown[size * 2] ELSE size
  IN  grown

ExpandBuffer(s, expected) == [s EXCEPT !.bufferSize = Grown(expected)[s.stashSize] + Slack]

Room(s, bytes) == IF bytes > s.bufferSize THEN ExpandBuffer(s, bytes) ELSE s

\* Mutant of AdjustStashSize: the buffer behind the stash keeps its size.
AdjustStashSizeOnly(s, normalized) ==
  [s EXCEPT !.stashSize = IF normalized * 2 > MaxStash THEN MaxStash ELSE normalized * 2,
            !.speed = normalized]

AdjustStashSize(s, normalized) ==
  LET wanted == CASE s.live \/ normalized < LowSpeed -> normalized
                  [] ~s.live /\ normalized >= LowSpeed /\ normalized <= HighSpeed
                       -> (normalized * 3) \div 2
                  [] OTHER -> normalized * 2
      size == IF wanted > MaxStash THEN MaxStash ELSE wanted
  IN  [Room(s, size + Slack) EXCEPT !.stashSize = size, !.speed = normalized]

\* What the speed of the last second, if there is one, changes.
Measured(s, kb) ==
  IF kb # 0 /\ NormalizeSpeed(kb) # s.speed THEN AdjustStashSize(s, NormalizeSpeed(kb)) ELSE s

-----------------------------------------------------------------------------
(* dispatching *)

\* A run of the controller inside one handler: its state, the consumer's, what
\* has been dispatched on the way and where a new request starts, if one does.
Run(s) == [s |-> s, need |-> need, given |-> <<>>, from |-> -1]

\* _dispatchChunks
Dispatch(r, bytes, label) ==
  [r EXCEPT !.s.to = label + Len(bytes) - 1,
            !.need = bytes[1] + Consumed(r.need, bytes),
            !.given = Append(r.given, [at |-> label, bytes |-> bytes, wanted |-> r.need])]

Keep(r, bytes, start) == [r EXCEPT !.s.stash = bytes, !.s.stashByteStart = start]

\* Mutant of DispatchStash: what stays keeps the old start.
DispatchStashStart(r) ==
  Keep(Dispatch(r, r.s.stash, r.s.stashByteStart),
       SubSeq(r.s.stash, Consumed(r.need, r.s.stash) + 1, Len(r.s.stash)), r.s.stashByteStart)

\* The stash is dispatched; what was not taken stays.
DispatchStash(r) ==
  LET n == Consumed(r.need, r.s.stash)
  IN  Keep(Dispatch(r, r.s.stash, r.s.stashByteStart),
           SubSeq(r.s.stash, n + 1, Len(r.s.stash)), r.s.stashByteStart + n)

\* The chunk is dispatched; what was not taken becomes the stash.  If it was
\* taken whole, the start of the empty stash is left as it was.
DispatchChunk(r, chunk, byteStart) ==
  LET n == Consumed(r.need, chunk)
      d == Dispatch(r, chunk, byteStart)
  IN  IF n < Len(chunk)
      THEN Keep([d EXCEPT !.s = Room(d.s, Len(chunk) - n)],
                SubSeq(chunk, n + 1, Len(chunk)), byteStart + n)
      ELSE d

Add(r, chunk) ==
  [r EXCEPT !.s = [Room(r.s, Len(r.s.stash) + Len(chunk)) EXCEPT !.stash = r.s.stash \o chunk]]

\* A chunk would go into a stash larger than its buffer: the view of the stash
\* throws (RangeError), and the chunk is lost.
Overlarge(s, chunk) == Len(s.stash) + Len(chunk) <= s.stashSize /\ s.stashSize > s.bufferSize

\* _onLoaderChunkArrival without a stash, and with one
Unstashed(r, chunk, byteStart) ==
  IF r.s.stash = <<>> THEN DispatchChunk(r, chunk, byteStart)
  ELSE DispatchStash(Add(r, chunk))

Stashed(r, chunk, byteStart) ==
  LET first == r.s.stash = <<>> /\ r.s.stashByteStart = 0
      f == IF first THEN [r EXCEPT !.s.stashByteStart = byteStart] ELSE r
  IN  CASE Overlarge(f.s, chunk) -> f
        [] Len(f.s.stash) + Len(chunk) <= f.s.stashSize /\ ~Overlarge(f.s, chunk)
             -> [f EXCEPT !.s.stash = f.s.stash \o chunk]
        [] f.s.stash # <<>> /\ Len(f.s.stash) + Len(chunk) > f.s.stashSize
             -> Add(DispatchStash(f), chunk)
        [] OTHER -> DispatchChunk(f, chunk, byteStart)

\* _flushStashBuffer
Flush(r, drop) ==
  LET d == DispatchStash(r)
  IN  CASE r.s.stash = <<>> -> r
        [] r.s.stash # <<>> /\ (drop \/ d.s.stash = <<>>) -> Keep(d, <<>>, 0)
        [] OTHER -> d

-----------------------------------------------------------------------------
(* requests *)

\* _internalSeek: the loader is aborted and destroyed, a new one asks for the
\* bytes from there on.
InternalSeek(r, bytes, drop) ==
  [Flush(r, drop) EXCEPT !.s.to = -1, !.s.stashSize = r.s.stashInitialSize,
                         !.s.requests = @ + 1, !.from = bytes]

\* What a handler leaves behind.  A request it made has a new loader.
Ends(r, saying) ==
  /\ io' = r.s
  /\ need' = r.need
  /\ given' = r.given
  /\ verdict' = saying
  /\ loader' = IF r.from # -1 THEN Loader(r.from) ELSE loader

Bounded == io.requests < MaxRequests

\* Mutant of Pause: loading resumes behind what was dispatched, taken or not.
PauseDispatched ==
  /\ io.open /\ loader.phase = "open" /\ ~io.paused
  /\ io' = [io EXCEPT !.resumeFrom = io.to + 1, !.stash = <<>>, !.stashByteStart = 0,
                      !.paused = TRUE]
  /\ loader' = [loader EXCEPT !.phase = "aborted"]
  /\ lapses' = IF io.to = -1 /\ loader.from # 0 THEN lapses \cup {"nothing yet"} ELSE lapses
  /\ given' = <<>> /\ verdict' = "none"
  /\ UNCHANGED need

\* pause keeps the first byte not taken, from the stash or from what was
\* dispatched last; with nothing dispatched of this request that is byte 0.
Pause ==
  /\ io.open /\ loader.phase = "open" /\ ~io.paused
  /\ io' = [io EXCEPT
       !.resumeFrom = IF io.stash # <<>> THEN io.stashByteStart ELSE io.to + 1,
       !.to = IF io.stash # <<>> THEN io.stashByteStart - 1 ELSE @,
       !.stash = <<>>, !.stashByteStart = 0, !.paused = TRUE]
  /\ loader' = [loader EXCEPT !.phase = "aborted"]
  /\ lapses' = IF io.stash = <<>> /\ io.to = -1 /\ loader.from # 0
               THEN lapses \cup {"nothing yet"} ELSE lapses
  /\ given' = <<>> /\ verdict' = "none"
  /\ UNCHANGED need

Resume ==
  /\ io.open /\ io.paused /\ Bounded
  /\ Ends(InternalSeek([Run(io) EXCEPT !.s.paused = FALSE, !.s.resumeFrom = 0],
                       io.resumeFrom, TRUE), "none")
  /\ UNCHANGED lapses

\* A seek goes to a tag of the file, once its index is known; the demuxer is
\* told to expect it.
Seek ==
  /\ io.open /\ need > 0 /\ ~io.live /\ Bounded
  /\ \E bytes \in TagEnds \ {Total} :
       Ends(InternalSeek([Run([io EXCEPT !.paused = FALSE, !.stash = <<>>, !.stashByteStart = 0])
                            EXCEPT !.need = bytes], bytes, TRUE), "none")
  /\ lapses' = {}

Destroy ==
  /\ io.open
  /\ io' = [io EXCEPT !.open = FALSE, !.stash = <<>>, !.stashSize = 0, !.bufferSize = 0,
                      !.stashByteStart = 0, !.reconnecting = FALSE]
  /\ loader' = [loader EXCEPT !.phase = "destroyed"]
  /\ given' = <<>> /\ verdict' = "none"
  /\ UNCHANGED <<need, lapses>>

-----------------------------------------------------------------------------
(* what the loader says *)

Talking == io.open /\ (loader.phase = "open" \/ (io.live /\ loader.phase = "failed"))
Left == Total - loader.from - loader.got

\* _onContentLengthKnown, before the first byte of a request that says how long
\* its answer is
OnContentLengthKnown ==
  /\ Talking /\ loader.got = 0 /\ ~loader.length /\ Left > 0
  /\ loader' = [loader EXCEPT !.length = TRUE]
  /\ io' = IF io.fullRequestFlag
           THEN [io EXCEPT !.totalLength = Left, !.fullRequestFlag = FALSE] ELSE io
  /\ given' = <<>> /\ verdict' = "none"
  /\ UNCHANGED <<need, lapses>>

\* What an arrival, of a chunk that ends before end, leaves wrong: a chunk is lost,
\* or the start of an empty stash left behind.
Lapse(s, chunk, done, end) ==
  CASE ~s.enableStash -> {}
    [] s.enableStash /\ Overlarge(s, chunk) -> {"thrown"}
    [] s.enableStash /\ ~Overlarge(s, chunk) ->
         IF done.stash = <<>> /\ done.stashByteStart \notin {0, end} THEN {"taken whole"} ELSE {}

\* _onLoaderChunkArrival.  What it throws is caught by the fetch loader, which
\* reports it as an error, or by nobody.
OnLoaderChunkArrival ==
  /\ Talking
  /\ \E n \in 1 .. Min({MaxChunk, Left}), kb \in Speeds :
       LET at    == loader.from + loader.got
           chunk == [i \in 1 .. n |-> at + i - 1]
           r     == Run(Measured([io EXCEPT !.reconnecting = FALSE], kb))
           done  == IF io.enableStash THEN Stashed(r, chunk, at) ELSE Unstashed(r, chunk, at)
       IN  IF io.paused
           THEN UNCHANGED <<io, need, lapses>> /\ given' = <<>> /\ verdict' = "none"
                /\ loader' = [loader EXCEPT !.got = @ + n]
           ELSE /\ io' = done.s /\ need' = done.need /\ given' = done.given
                /\ verdict' = "none"
                /\ loader' = [loader EXCEPT !.got = @ + n]
                /\ lapses' = lapses \cup Lapse(r.s, chunk, done.s, at + n)

\* Mutants of OnLoaderComplete: the stash is not flushed; the end of a
\* reconnection is not reported.
OnLoaderCompleteUnflushed ==
  /\ io.open /\ (Talking \/ loader.phase = "aborted")
  /\ loader.length => Left = 0
  /\ given' = <<>>
  /\ loader' = [loader EXCEPT !.phase = "done"]
  /\ verdict' = "complete"
  /\ UNCHANGED <<io, need, lapses>>
OnLoaderCompleteReconnecting ==
  /\ io.open /\ (Talking \/ loader.phase = "aborted")
  /\ loader.length => Left = 0
  /\ LET r == Flush(Run(io), TRUE)
     IN  /\ io' = r.s /\ need' = r.need /\ given' = r.given
  /\ loader' = [loader EXCEPT !.phase = "done"]
  /\ verdict' = IF io.reconnecting THEN "none" ELSE "complete"
  /\ UNCHANGED lapses

\* _onLoaderComplete: at the end of the answer, in full when its length is
\* known; also of a request aborted just before its end was seen.
OnLoaderComplete ==
  /\ io.open /\ (Talking \/ loader.phase = "aborted")
  /\ loader.length => Left = 0
  /\ LET r == Flush(Run(io), TRUE)
     IN  /\ io' = r.s /\ need' = r.need /\ given' = r.given
  /\ loader' = [loader EXCEPT !.phase = "done"]
  /\ verdict' = "complete"
  /\ UNCHANGED lapses

\* _onLoaderError.  An early end is answered by one silent reconnection, for
\* the first byte after what was dispatched; a second in a row is reported.
OnLoaderError ==
  /\ io.open /\ (Talking \/ loader.phase = "aborted")
  /\ \E type \in {"early_eof", "other"} :
       LET r    == Flush(Run(io), FALSE)
           next == r.s.to + 1
           again == type = "early_eof" /\ ~io.reconnecting /\ ~io.live /\ io.totalLength > 0
       IN  /\ type = "early_eof" => ~loader.length \/ Left > 0
           /\ IF again
              THEN IF next < io.totalLength
                   THEN /\ Bounded
                        /\ Ends(InternalSeek([r EXCEPT !.s.reconnecting = TRUE], next, FALSE), "none")
                        /\ lapses' = IF r.s.to = -1 /\ loader.from # 0
                                     THEN lapses \cup {"nothing yet"} ELSE lapses
                   ELSE /\ loader' = [loader EXCEPT !.phase = "failed"]
                        /\ io' = r.s /\ need' = r.need /\ given' = r.given
                        /\ verdict' = "none"
                        /\ lapses' = lapses \cup {"silence"}
              ELSE /\ io' = [r.s EXCEPT !.reconnecting = FALSE]
                   /\ need' = r.need /\ given' = r.given
                   /\ verdict' = "error"
                   /\ loader' = [loader EXCEPT !.phase = "failed"]
                   /\ UNCHANGED lapses

Answer == OnContentLengthKnown \/ OnLoaderChunkArrival \/ OnLoaderComplete \/ OnLoaderError

Next == Answer \/ Pause \/ Resume \/ Seek \/ Destroy

Spec == Init /\ [][Next]_vars /\ WF_vars(Answer)

-----------------------------------------------------------------------------

\* What is written into the stash fits the buffer behind it, however the speed
\* and the unconsumed rest of the stash change the two sizes; a stash larger than
\* the buffer is one of the configured size, which nothing compares with it.
FitsBuffer ==
  io.open =>
    /\ Len(io.stash) <= io.bufferSize
    /\ io.stashSize <= io.bufferSize \/ io.stashSize = io.stashInitialSize

\* The stash holds positions of the file and fits its buffer, and every counter is
\* a number.  That need not be a position of the file: once a chunk was lost or a
\* start left behind, labels may run past its end.
TypeOK ==
  /\ FitsBuffer
  /\ io.stash \in Seq(0 .. Total)
  /\ {need, io.stashByteStart, io.resumeFrom, io.to + 1, loader.from, loader.got} \subseteq Nat
  /\ verdict \in {"none", "complete", "error"}

\* Every chunk reaches onDataArrival with the position of its first byte.
LabelsTrue == \A i \in DOMAIN given : given[i].bytes[1] = given[i].at

\* The same, as long as no chunk larger than an empty stash was taken whole
\* (DispatchChunk leaves the start of the stash behind then): _flushStashBuffer,
\* the merging of chunks and every reopening keep start and content together.  A
\* chunk that has been lost leaves the start behind as well.
Labelled == lapses \cap {"taken whole", "thrown"} = {} => LabelsTrue

\* Across stashing, pauses, resumptions and reconnections the demuxer is given
\* the first byte it has not taken, none skipped and none twice, except after a
\* pause or an early end before the first dispatch of a request (the request is
\* made again from byte 0), or after a wrong label or a lost chunk.
NoGap == lapses = {} => \A i \in DOMAIN given : given[i].bytes[1] = given[i].wanted

\* Completion is reported once every byte of the file has been taken: the flush
\* of the stash goes before the report.  A completion that arrives in a pause
\* (the stash was thrown away by then) is the exception.
CompleteIsAll ==
  verdict = "complete" /\ ~io.paused /\ loader.length /\ lapses = {} => need = Total

\* A request that is out ends with a report to the player, unless it is paused
\* or destroyed, or its early end is passed over in silence because the total
\* length says that there is nothing left.
Verdict ==
  loader.phase = "open"
    ~> (verdict # "none" \/ io.paused \/ ~io.open \/ "silence" \in lapses)
=============================================================================
