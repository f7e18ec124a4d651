----------------------------- MODULE FlvPlayer ------------------------------
(***************************************************************************)
(* FlvPlayer and Transmuxer of the web player (flv.js,                     *)
(* src/player/flv-player.js, src/core/transmuxer.js and                    *)
(* transmuxing-worker.js), composed with the TransmuxingController they    *)
(* drive.  Commands go to the controller and its events come back as       *)
(* messages of a worker, or through promises when there is none.  The      *)
(* media element reports every change of its position later, with an event *)
(* that looks the same whoever made the change, so the player marks its    *)
(* own with a flag; it suspends the controller when enough is buffered and *)
(* looks once a second whether to go on.                                   *)
(*                                                                         *)
(* The source buffers are the set of ticks they hold: MSEController is the *)
(* model of how they get there.                                            *)
(***************************************************************************)
EXTENDS TransmuxingController

CONSTANTS
  Settings,      \* values of [worker, accurateSeek, alwaysSeekKeyframe]
  Second,        \* the first tick that is not in the first second
  LazyMax, LazyRecover,  \* lazyLoadMaxDuration, lazyLoadRecoverDuration
  MaxSeeks,      \* bound: seeks of the user
  MaxLoads,      \* bound: loads
  MaxEvents,     \* bound: seeking events of the element that wait
  MaxMessages    \* bound: messages that wait, each way

ASSUME PlayerAssumption ==
  /\ Settings \subseteq [worker : BOOLEAN, accurateSeek : BOOLEAN, alwaysSeekKeyframe : BOOLEAN]
  /\ {Second, LazyMax, LazyRecover, MaxSeeks, MaxLoads, MaxEvents, MaxMessages} \subseteq Nat

VARIABLES
  player,    \* the FlvPlayer
  element,   \* the media element and what is buffered
  cmds,      \* commands on their way to the controller
  evts,      \* its events on their way back
  setting,   \* the configuration
  faults     \* history: "flag", "overtaken", "full": what has gone wrong

pvars == <<player, element, cmds, evts, setting, faults>>
vars == <<tvars, pvars>>

\* seekings: seeking events to be handled; ready: it has metadata; start: a
\* position was set before that, to which it goes then, with such an event
NewElement ==
  [now |-> 1, seekings |-> 0, ready |-> FALSE, start |-> FALSE, buffered |-> {}]

Init ==
  /\ TransmuxingInit
  /\ player = [attached |-> FALSE,        \* _mediaElement and _msectl
               sourceOpened |-> FALSE,    \* _mseSourceOpened
               pendingLoad |-> FALSE,     \* _hasPendingLoad
               transmuxer |-> FALSE,      \* _transmuxer
               checker |-> FALSE,         \* _progressChecker
               requestSetTime |-> FALSE,  \* _requestSetTime
               record |-> None,           \* _seekpointRecord, with its timer
               pendingSeek |-> None,      \* _pendingSeekTime
               loads |-> 0, seeks |-> 0]
  /\ element = NewElement
  /\ cmds = <<>>
  /\ evts = <<>>
  /\ setting \in Settings
  /\ faults = {}

\* Without a worker, commands are calls and events are promises, which run
\* before anything else does.
Idle == setting.worker \/ (cmds = <<>> /\ evts = <<>>)

\* The ticks of the keyframes, and those of the group that one starts
Starts == {TickOf(part, at) : part \in 1 .. Parts, at \in DOMAIN Keyframes}
Covers(tick) == {u \in Ticks : u >= tick /\ \A k \in Starts : k > tick => u < k}

\* The ticks of the buffered range that holds a tick
RangeOf(b, tick) == {u \in b : \A v \in Ticks : (v >= tick /\ v <= u) \/ (v >= u /\ v <= tick) => v \in b}

-----------------------------------------------------------------------------
(* parts of the handlers: the player q, the element e and the commands they   *)
(* leave behind                                                              *)

State == [q |-> player, e |-> element, cmds |-> <<>>]

\* currentTime set by the player itself: without metadata, the element goes there
\* once it has some, unless it is the beginning, where it starts anyway.
SetTime(s, tick) ==
  [s EXCEPT !.q.requestSetTime = TRUE, !.e.now = tick,
            !.e.seekings = IF s.e.ready THEN @ + 1 ELSE @,
            !.e.start = ~s.e.ready /\ tick # 1]

\* Mutant of Suspend: nothing looks whether to go on.
SuspendUnchecked(s) ==
  IF s.q.checker \/ ~s.q.transmuxer THEN s
  ELSE [s EXCEPT !.cmds = Append(@, <<"pause", None>>)]

\* _suspendTransmuxer, where no check of the progress is running
Suspend(s) ==
  IF s.q.checker \/ ~s.q.transmuxer THEN s
  ELSE [s EXCEPT !.cmds = Append(@, <<"pause", None>>), !.q.checker = TRUE]

\* _checkProgressAndResume
CheckProgress(s) ==
  IF s.e.now \in s.e.buffered /\ s.e.now + LazyRecover >= Max(RangeOf(s.e.buffered, s.e.now)) + 1
  THEN [s EXCEPT !.cmds = Append(@, <<"resume", None>>), !.q.checker = FALSE]
  ELSE s

\* Mutant of UnbufferedSeek: the flag is raised though the position is not set.
UnbufferedSeekFlagged(s, tick) ==
  LET sought == [s EXCEPT !.q.checker = FALSE, !.e.buffered = {}, !.q.requestSetTime = TRUE,
                          !.cmds = Append(@, <<"seek", tick>>)]
  IN  IF setting.accurateSeek THEN SetTime(sought, tick) ELSE sought

\* A seek to a place that is not buffered, of both the source buffers and the
\* controller; the check of the progress ends, as the seek makes it go on.
UnbufferedSeek(s, tick) ==
  LET sought == [s EXCEPT !.q.checker = FALSE, !.e.buffered = {},
                          !.cmds = Append(@, <<"seek", tick>>)]
  IN  IF setting.accurateSeek THEN SetTime(sought, tick) ELSE sought

\* The place just before the first picture, in the first second
AtBegin(s, tick) ==
  s.e.buffered # {} /\ Min(s.e.buffered) < Second /\ tick < Min(s.e.buffered)

\* getNearestKeyframe of the MSEController: the keyframe that starts the group of
\* a buffered place
Idr(tick) == Max({k \in Starts : k <= tick})

\* What is buffered leads playback to where the check resumes: the position is
\* in it, or before it, where stuck playback is moved to its start.
Leads(e) == e.buffered # {} /\ (e.now \in e.buffered \/ e.now < Min(e.buffered))

\* A suspension that overtakes a seek: it will stop the controller before it has
\* read anything of the place sought.
Seeking ==
  ctl.resolve # None \/ ctl.pendingSeek # None \/ \E i \in DOMAIN cmds : cmds[i][1] = "seek"
Suspending(s) == s.q.checker /\ ~player.checker
Overtaken(s) == IF Seeking /\ Suspending(s) THEN {"overtaken"} ELSE {}

\* _onmseBufferFull before what is buffered leads to the position: nothing will
\* be played that would make room.
FullEarly(s) == IF Suspending(s) /\ ~Leads(s.e) THEN {"full"} ELSE {}

Checked(s) == IF s.q.checker THEN CheckProgress(s) ELSE s

\* The flag is up for the beginning, set before there was metadata: no event tells
\* of that.
Unanswered(s) == IF s.q.requestSetTime /\ ~s.e.ready /\ ~s.e.start THEN {"flag"} ELSE {}

Becomes(s, noted) ==
  /\ player' = s.q
  /\ element' = s.e
  /\ cmds' = cmds \o s.cmds
  /\ Len(cmds') <= MaxMessages
  /\ faults' = faults \cup Unanswered(s) \cup noted

Still == out' = <<>> /\ UNCHANGED <<ctl, media, expect, lapses>>

-----------------------------------------------------------------------------
(* calls of the page *)

\* A position asked for before there is an element is set when there is one;
\* the element goes there once it has metadata.
SeekUnattached(tick) ==
  /\ Idle /\ ~player.attached /\ player.seeks < MaxSeeks
  /\ player' = [player EXCEPT !.pendingSeek = tick, !.seeks = @ + 1]
  /\ Still /\ UNCHANGED <<element, cmds, evts, setting, faults>>

AttachMediaElement ==
  /\ Idle /\ ~player.attached /\ ~player.transmuxer /\ player.loads < MaxLoads
  /\ player' = [player EXCEPT !.attached = TRUE, !.pendingSeek = None]
  /\ element' = IF player.pendingSeek = None THEN NewElement
                ELSE [NewElement EXCEPT !.now = player.pendingSeek, !.start = player.pendingSeek # 1]
  /\ Still /\ UNCHANGED <<cmds, evts, setting, faults>>

\* load makes a transmuxer and starts it.
Loaded(s) ==
  LET rewound == IF s.e.ready THEN SetTime(s, 1) ELSE s
  IN  [rewound EXCEPT !.q.transmuxer = TRUE, !.q.loads = @ + 1, !.q.pendingLoad = FALSE,
                      !.cmds = <<<<"start", None>>>>]

Load ==
  /\ Idle /\ player.attached /\ ~player.transmuxer /\ ~player.pendingLoad
  /\ player.loads < MaxLoads /\ element.seekings < MaxEvents
  /\ Becomes(IF player.sourceOpened THEN Loaded(State)
             ELSE [State EXCEPT !.q.pendingLoad = TRUE], {})
  /\ Still /\ UNCHANGED <<evts, setting>>

OnSourceOpen ==
  /\ Idle /\ player.attached /\ ~player.sourceOpened
  /\ LET opened == [State EXCEPT !.q.sourceOpened = TRUE]
     IN  Becomes(IF player.pendingLoad THEN Loaded(opened) ELSE opened, {})
  /\ Still /\ UNCHANGED <<evts, setting>>

\* unload: what the worker had still to say is not heard any more.  The check
\* of the progress and the record of a seek stay.
Unload ==
  /\ Idle /\ player.transmuxer
  /\ player' = [player EXCEPT !.transmuxer = FALSE]
  /\ element' = [element EXCEPT !.buffered = {}]
  /\ cmds' = <<>> /\ evts' = <<>>
  /\ ctl' = [ctl EXCEPT !.index = 1, !.infos = {}, !.demuxer = None, !.pendingSeek = None,
                        !.resolve = None, !.reporter = FALSE, !.io = NoIO, !.life = "new"]
  /\ out' = <<>> /\ expect' = Keyframes[1] /\ lapses' = {}
  /\ UNCHANGED <<media, setting, faults>>

\* detachMediaElement, of a player that has been unloaded
DetachMediaElement ==
  /\ Idle /\ player.attached /\ ~player.transmuxer
  /\ player' = [player EXCEPT !.attached = FALSE]
  /\ element' = [element EXCEPT !.seekings = 0, !.ready = FALSE, !.start = FALSE,
                                 !.buffered = {}]
  /\ faults' = IF player.requestSetTime THEN faults \cup {"flag"} ELSE faults
  /\ Still /\ UNCHANGED <<cmds, evts, setting>>

\* _internalSeek, by the setter of currentTime of a loaded player
InternalSeek(tick) ==
  /\ Idle /\ player.transmuxer /\ player.seeks < MaxSeeks /\ element.seekings < MaxEvents
  /\ LET s == [State EXCEPT !.q.seeks = @ + 1]
     IN  Becomes(CASE AtBegin(s, tick) -> SetTime(s, Min(s.e.buffered))
                   [] ~AtBegin(s, tick) /\ tick \in s.e.buffered ->
                        Checked(SetTime(s, IF setting.alwaysSeekKeyframe THEN Idr(tick) ELSE tick))
                   [] OTHER -> UnbufferedSeek(s, tick), {})
  /\ Still /\ UNCHANGED <<evts, setting>>

\* The user moves the element's own progress bar.
ProgressBar(tick) ==
  /\ Idle /\ player.attached /\ element.ready /\ player.seeks < MaxSeeks
  /\ element.seekings < MaxEvents
  /\ player' = [player EXCEPT !.seeks = @ + 1]
  /\ element' = [element EXCEPT !.now = tick, !.seekings = @ + 1]
  /\ Still /\ UNCHANGED <<cmds, evts, setting, faults>>

-----------------------------------------------------------------------------
(* events of the element, and timers *)

\* _onvSeeking
OnvSeeking ==
  /\ Idle /\ player.attached /\ element.seekings > 0
  /\ LET s == [State EXCEPT !.e.seekings = @ - 1]
         tick == element.now
     IN  Becomes(
           CASE player.requestSetTime -> [s EXCEPT !.q.requestSetTime = FALSE]
             [] ~player.requestSetTime /\ AtBegin(s, tick) -> SetTime(s, Min(s.e.buffered))
             [] ~player.requestSetTime /\ ~AtBegin(s, tick) /\ tick \in s.e.buffered ->
                  Checked(IF setting.alwaysSeekKeyframe THEN SetTime(s, Idr(tick)) ELSE s)
             [] OTHER -> [s EXCEPT !.q.record = tick], {})
  /\ Still /\ UNCHANGED <<evts, setting>>

\* _checkAndApplyUnbufferedSeekpoint, once the record is old enough: the place
\* sought is the one the element is at by now.  Nothing has stopped the timer if
\* the player has been unloaded since; it then fails, of an element or a
\* transmuxer that is not there, the latter after having cleared the buffers.
ApplyUnbufferedSeekpoint ==
  /\ Idle /\ player.record # None /\ player.attached
  /\ element.seekings < MaxEvents
  /\ LET s == [State EXCEPT !.q.record = None]
     IN  Becomes(CASE element.now \in element.buffered -> s
                   [] element.now \notin element.buffered /\ player.transmuxer
                        -> UnbufferedSeek(s, element.now)
                   [] OTHER -> [s EXCEPT !.q.checker = FALSE, !.e.buffered = {}], {})
  /\ Still /\ UNCHANGED <<evts, setting>>

\* The interval of _checkProgressAndResume, which unload leaves running: without
\* a transmuxer it fails where it would resume.
ProgressTimer ==
  /\ Idle /\ player.checker /\ player.attached
  /\ Becomes(IF player.transmuxer THEN CheckProgress(State)
             ELSE [CheckProgress(State) EXCEPT !.cmds = <<>>], {})
  /\ Still /\ UNCHANGED <<evts, setting>>

\* _onmseUpdateEnd: a check for each end of an append
OnmseUpdateEnd ==
  /\ Idle /\ player.attached /\ element.buffered # {}
  /\ element.now \in element.buffered
  /\ Max(RangeOf(element.buffered, element.now)) + 1 >= element.now + LazyMax
  /\ Becomes(Suspend(State), Overtaken(Suspend(State)))
  /\ Still /\ UNCHANGED <<evts, setting>>

\* _checkAndResumeStuckPlayback
ResumeStuckPlayback ==
  /\ Idle /\ player.attached /\ element.ready /\ element.buffered # {}
  /\ element.now < Min(element.buffered) /\ element.seekings < MaxEvents
  /\ Becomes(SetTime(State, Min(element.buffered)), {})
  /\ Still /\ UNCHANGED <<evts, setting>>

Play ==
  /\ Idle /\ element.now + 1 \in element.buffered /\ element.now \in element.buffered
  /\ element' = [element EXCEPT !.now = @ + 1]
  /\ Still /\ UNCHANGED <<player, cmds, evts, setting, faults>>

-----------------------------------------------------------------------------
(* what the transmuxer hears from the controller *)

Hears(msg) ==
  /\ evts # <<>> /\ Head(evts).msg = msg
  /\ setting.worker \/ cmds = <<>>
  /\ evts' = Tail(evts)
  /\ Still /\ UNCHANGED setting

OnInitSegment ==
  /\ Hears("init") /\ element.seekings < MaxEvents
  /\ element' = [element EXCEPT !.ready = TRUE, !.start = FALSE,
                                 !.seekings = IF element.start THEN @ + 1 ELSE @]
  /\ UNCHANGED <<player, cmds, faults>>

\* The segment is appended, or waits for room; the check whether enough is
\* loaded compares it with the position of now.
OnMediaSegment ==
  /\ Hears("media")
  /\ LET covers == Covers(Head(evts).tick)
         s == [State EXCEPT !.e.buffered = @ \cup covers]
         far == Max(covers) + 1 >= element.now + LazyMax
     IN  \E full \in {FALSE, element.buffered # {}} :
           LET t == IF full \/ far THEN Suspend(s) ELSE s
           IN  Becomes(t, Overtaken(t) \cup (IF far THEN {} ELSE FullEarly(t)))

\* Mutant of OnRecommendSeekpoint: the position is left where it is.
OnRecommendSeekpointLeft ==
  Hears("seekpoint") /\ UNCHANGED <<player, element, cmds, faults>>

OnRecommendSeekpoint ==
  /\ Hears("seekpoint") /\ element.seekings < MaxEvents
  /\ Becomes(IF setting.accurateSeek THEN State ELSE SetTime(State, Head(evts).tick), {})

\* Events that are only passed on to the page
OnOtherEvent ==
  /\ \E msg \in {"mediainfo", "demux_error", "io_error", "complete"} : Hears(msg)
  /\ UNCHANGED <<player, element, cmds, faults>>

-----------------------------------------------------------------------------
(* the controller *)

Command ==
  /\ cmds # <<>>
  /\ LET cmd == Head(cmds)
     IN  \/ cmd[1] = "start" /\ Start
         \/ cmd[1] = "pause" /\ Pause
         \/ cmd[1] = "resume" /\ Resume
         \/ cmd[1] = "seek" /\ Seek(cmd[2])
  /\ cmds' = Tail(cmds)
  /\ UNCHANGED <<player, element, evts, setting, faults>>

Bring ==
  /\ Idle
  /\ Data \/ OnIOException
  /\ evts' = evts \o out'
  /\ Len(evts') <= MaxMessages
  /\ UNCHANGED <<player, element, cmds, setting, faults>>

Next ==
  \/ AttachMediaElement \/ Load \/ OnSourceOpen \/ Unload \/ DetachMediaElement
  \/ \E tick \in Ticks : SeekUnattached(tick) \/ InternalSeek(tick) \/ ProgressBar(tick)
  \/ OnvSeeking \/ ApplyUnbufferedSeekpoint \/ ProgressTimer \/ OnmseUpdateEnd
  \/ ResumeStuckPlayback \/ Play
  \/ OnInitSegment \/ OnMediaSegment \/ OnRecommendSeekpoint \/ OnOtherEvent
  \/ Command \/ Bring

Spec == Init /\ [][Next]_vars

-----------------------------------------------------------------------------

\* Positions are ticks of the source and no more events wait than the bounds
\* allow; the controller is at a part of it.
TypeOK ==
  /\ TransmuxingTypeOK
  /\ element.now \in Ticks /\ element.buffered \subseteq Ticks
  /\ element.seekings \in 0 .. MaxEvents
  /\ player.record \in Ticks \cup {None}

\* The flag that marks the player's own change of the position is only up while
\* the event of a change is to come: otherwise the next seek of the user would
\* be taken for the player's and ignored.  An element taken away in between leaves
\* it up, and so does the beginning, set before there is metadata.
FlagMatches ==
  player.requestSetTime /\ "flag" \notin faults => element.seekings > 0 \/ element.start

\* No message and no event is on its way, and the controller is suspended.
Suspended == cmds = <<>> /\ evts = <<>> /\ player.transmuxer /\ ctl.io.state = "paused"
Settled == Suspended /\ element.seekings = 0 /\ player.record = None

\* A seek waits for the part at whose head the controller is.
Waiting ==
  ctl.pendingSeek # None /\ ctl.io.at = 0 /\ SearchSegment(ctl.pendingSeek) = ctl.index

\* A controller that has been suspended is going to be resumed: the check of the
\* progress runs, whatever seeks, suspensions and resumptions have crossed each
\* other on their way.  A seek in a source without an index stops the check and
\* is then ignored by the controller; a seek into the part at whose head the
\* controller has been suspended stops the check, and then waits for that part.
WillResume == Suspended /\ media.indexed /\ ~Waiting => player.checker

LeadsOn == Leads(element)

\* An accurate seek has gone to a place before the first keyframe of a later part:
\* that the first group of the part does not cover.
BeforeKeyframes ==
  LET part == SearchSegment(element.now)
  IN  setting.accurateSeek /\ part # 1 /\ element.now < TickOf(part, 1)

\* And the check comes to resume the controller: what is buffered leads playback
\* to where it does, after any crossing of seeks, segments, events of the element
\* and suspensions, if no suspension has overtaken a seek, the source buffers
\* have not been full before they held the position, and nothing has been
\* forgotten.
Playable ==
  Settled /\ media.indexed /\ Orderly /\ faults = {} /\ ~Waiting /\ ~BeforeKeyframes => LeadsOn

\* The position that a seek waits for comes: the controller is not left
\* suspended, with nothing to resume it, before it has found it.
SeekpointComes == Settled /\ ~setting.accurateSeek /\ ctl.resolve # None => LeadsOn
=============================================================================
