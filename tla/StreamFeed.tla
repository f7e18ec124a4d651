------------------------------ MODULE StreamFeed ------------------------------
(***************************************************************************)
(* What travels on one live stream: its publisher's messages, the list of  *)
(* sequence headers kept for late viewers, and the HTTP-FLV viewers that   *)
(* copy the list and then join the group.  Publisher and viewers run on    *)
(* event loops; two on different loops interleave at every access to the   *)
(* shared list and to the one buffer in which a message is written to all. *)
(*                                                                         *)
(* The stream is published and unpublished in turn (sessions); races       *)
(* between publishers are LiveStream's.                                    *)
(***************************************************************************)
EXTENDS Naturals, Sequences, Functions

CONSTANTS
  Viewers, Publisher,  \* Publisher is the one handler that publishes and records
  RtmpLoops,           \* the event loops of the RTMP server: the publisher's
  HttpLoops,           \* the event loops of the HTTP server: the viewers'
  Media,               \* the media that have a sequence header: audio, video
  MaxSessions,         \* bound on the publications of the stream
  MaxMessages          \* bound on the messages sent

ASSUME FeedAssumption ==
  Publisher \notin Viewers /\ RtmpLoops \cap HttpLoops = {} /\ MaxMessages \in Nat

Writers == Viewers \cup {Publisher}

VARIABLES
  session,   \* publications so far
  live,      \* the stream has a publisher
  msgs,      \* the messages made, in order; a message is named by its number
  meta,      \* ServerStream.meta, 0 for null
  configs,   \* ServerStream.configMessages
  mods,      \* the ArrayList's modCount
  group,     \* ServerStream.subscribers
  loop,      \* the event loop of each handler
  pc,        \* where each handler is
  status,    \* of a viewer: "new", "asked", "refused", "gone"
  cursor,    \* of a viewer's iterator over the list
  expected,  \* its expectedModCount
  joined,    \* modCount when the viewer joined the group
  given,     \* the messages written to a viewer's channel
  written,   \* how many of them its loop has taken up
  enc,       \* a write of a shared buffer under way
  index,     \* the readerIndex of each message's buffer, 0 or Full
  encoded,   \* DataMessage.encoded of each message
  torn       \* the tags that lack their body or were dropped, and the handlers
             \* whose writes of the same message overlapped theirs

vars == <<session, live, msgs, meta, configs, mods, group, loop, pc, status, cursor,
          expected, joined, given, written, enc, index, encoded, torn>>
streamVars == <<session, live, msgs, meta, configs, mods>>
viewerVars == <<status, cursor, expected, joined, given, written>>
bufferVars == <<index, encoded, torn>>

Full == 1
NoEnc == [msg |-> 0, at |-> "none", size |-> 0, length |-> 0, rivals |-> {}]

Kinds == {"meta", "config", "media"}
Init ==
  /\ session = 0 /\ live = FALSE /\ msgs = <<>> /\ meta = 0
  /\ configs = <<>> /\ mods = 0 /\ group = {}
  /\ loop \in {l \in [Writers -> RtmpLoops \cup HttpLoops] :
                 l[Publisher] \in RtmpLoops /\ \A v \in Viewers : l[v] \in HttpLoops}
  /\ pc = [w \in Writers |-> "idle"]
  /\ status = [v \in Viewers |-> "new"]
  /\ cursor = [v \in Viewers |-> 0]
  /\ expected = [v \in Viewers |-> 0] /\ joined = [v \in Viewers |-> 0]
  /\ given = [v \in Viewers |-> <<>>] /\ written = [v \in Viewers |-> 0]
  /\ enc = [w \in Writers |-> NoEnc]
  /\ index = [m \in 1..MaxMessages |-> 0]
  /\ encoded = [m \in 1..MaxMessages |-> FALSE]
  /\ torn = {}

-----------------------------------------------------------------------------
(* Handlers start when their loop is free, and then run to their end.      *)

Resting(w) == pc[w] = "idle" /\ enc[w] = NoEnc
CanStart(w) == \A x \in Writers : loop[x] = loop[w] => Resting(x)

Goto(w, label) == pc' = [pc EXCEPT ![w] = label]

\* A data message is about to be written by w: FlvHttpWriter or FlvWriter.write.
StartWrite(w, m) ==
  enc' = [enc EXCEPT
    ![w] = [msg |-> m, at |-> "flag", size |-> 0, length |-> 0, rivals |-> {}]]

\* A Metadata is encoded into a buffer of its own.
SharesBuffer(m) == msgs[m].kind # "meta"

-----------------------------------------------------------------------------
(* The publisher's handler.                                                *)

\* setPublisher(channel), setPublisher(null): both clear the list.
SetPublisher(publishing) ==
  /\ CanStart(Publisher) /\ live # publishing
  /\ publishing => session < MaxSessions
  /\ session' = IF publishing THEN session + 1 ELSE session
  /\ live' = publishing
  /\ configs' = <<>> /\ mods' = mods + 1
  /\ UNCHANGED <<msgs, meta, group, loop, pc, viewerVars, enc, bufferVars>>

\* The sequence header that a new message of this kind and medium relies on.
Needs(kind, medium) ==
  LET own == {i \in DOMAIN msgs : /\ msgs[i].kind = "config" /\ msgs[i].medium = medium
                                  /\ msgs[i].session = session}
  IN IF kind = "media" /\ own # {} THEN CHOOSE i \in own : \A j \in own : j <= i ELSE 0

\* channelRead0 gets a message of the publisher: metadata is kept at once, a
\* sequence header is to be added to the list, and everything to be broadcast.
Receive(kind, medium) ==
  /\ CanStart(Publisher) /\ live /\ Len(msgs) < MaxMessages
  /\ msgs' = Append(msgs, [kind |-> kind, medium |-> medium, session |-> session,
                           needs |-> Needs(kind, medium)])
  /\ meta' = IF kind = "meta" THEN Len(msgs') ELSE meta
  /\ Goto(Publisher, IF kind = "config" THEN "add" ELSE "write")
  /\ UNCHANGED <<session, live, configs, mods, group, loop, viewerVars, enc, bufferVars>>

\* Mutant of AddConfig: the case ends instead of falling through to broadcast.
AddConfigOnly ==
  /\ pc[Publisher] = "add"
  /\ configs' = Append(configs, Len(msgs)) /\ mods' = mods + 1
  /\ Goto(Publisher, "idle")
  /\ UNCHANGED <<session, live, msgs, meta, group, loop, viewerVars, enc, bufferVars>>

\* subscriberStream.addConfigMessage(message)
AddConfig ==
  /\ pc[Publisher] = "add"
  /\ configs' = Append(configs, Len(msgs)) /\ mods' = mods + 1
  /\ Goto(Publisher, "write")
  /\ UNCHANGED <<session, live, msgs, meta, group, loop, viewerVars, enc, bufferVars>>

\* broadcast: hand it to every channel of the group, then record it.
Broadcast ==
  /\ pc[Publisher] = "write"
  /\ given' = [v \in Viewers |->
       IF v \in group THEN Append(given[v], Len(msgs)) ELSE given[v]]
  /\ Goto(Publisher, "idle")
  /\ IF SharesBuffer(Len(msgs)) THEN StartWrite(Publisher, Len(msgs)) ELSE UNCHANGED enc
  /\ UNCHANGED <<streamVars, group, loop, status, cursor, expected, joined, written,
                 bufferVars>>

-----------------------------------------------------------------------------
(* A viewer's handlers.                                                    *)

\* A GET of the stream: the metadata is written (null throws, and the error
\* reply closes the channel), then the list's iterator is made.
Get(v) ==
  /\ CanStart(v) /\ status[v] = "new"
  /\ \/ /\ meta = 0
        /\ status' = [status EXCEPT ![v] = "refused"]
        /\ UNCHANGED <<given, written, expected, pc>>
     \/ /\ meta # 0
        /\ status' = [status EXCEPT ![v] = "asked"]
        /\ given' = [given EXCEPT ![v] = <<meta>>]
        /\ written' = [written EXCEPT ![v] = 1]
        /\ expected' = [expected EXCEPT ![v] = mods]
        /\ Goto(v, "copy")
  /\ UNCHANGED <<streamVars, group, loop, cursor, joined, enc, bufferVars>>

\* hasNext, next and write of one sequence header.
CopyHeader(v) ==
  /\ pc[v] = "copy" /\ enc[v] = NoEnc
  /\ cursor[v] # Len(configs) /\ mods = expected[v]
  /\ cursor' = [cursor EXCEPT ![v] = @ + 1]
  /\ given' = [given EXCEPT ![v] = Append(@, configs[cursor[v] + 1])]
  /\ written' = [written EXCEPT ![v] = @ + 1]
  /\ StartWrite(v, configs[cursor[v] + 1])
  /\ UNCHANGED <<streamVars, group, loop, pc, status, expected, joined, bufferVars>>

\* hasNext, and next throws: the list has changed.  The error reply closes.
CopyThrows(v) ==
  /\ pc[v] = "copy" /\ enc[v] = NoEnc
  /\ cursor[v] # Len(configs) /\ mods # expected[v]
  /\ status' = [status EXCEPT ![v] = "refused"]
  /\ Goto(v, "idle")
  /\ UNCHANGED <<streamVars, group, loop, cursor, expected, joined, given, written, enc,
                 bufferVars>>

\* Mutant of CopyEnds: the last header is left out.
CopyEndsEarly(v) ==
  /\ pc[v] = "copy" /\ enc[v] = NoEnc
  /\ cursor[v] + 1 >= Len(configs)
  /\ Goto(v, "join")
  /\ UNCHANGED <<streamVars, group, loop, viewerVars, enc, bufferVars>>

\* hasNext is false: cursor = size, whatever happened to the list.
CopyEnds(v) ==
  /\ pc[v] = "copy" /\ enc[v] = NoEnc
  /\ cursor[v] = Len(configs)
  /\ Goto(v, "join")
  /\ UNCHANGED <<streamVars, group, loop, viewerVars, enc, bufferVars>>

\* getSubscribers().add(channel)
Join(v) ==
  /\ pc[v] = "join"
  /\ group' = group \cup {v}
  /\ joined' = [joined EXCEPT ![v] = mods]
  /\ Goto(v, "idle")
  /\ UNCHANGED <<streamVars, loop, status, cursor, expected, given, written, enc, bufferVars>>

\* The viewer's loop takes up a message that the publisher's loop handed to it;
\* the handler runs for a channel that has closed as well.
TakeUp(v) ==
  /\ CanStart(v) /\ written[v] < Len(given[v])
  /\ written' = [written EXCEPT ![v] = @ + 1]
  /\ LET m == given[v][written[v] + 1]
     IN IF SharesBuffer(m) THEN StartWrite(v, m) ELSE UNCHANGED enc
  /\ UNCHANGED <<streamVars, group, loop, pc, status, cursor, expected, joined, given,
                 bufferVars>>

\* The viewer's channel closes.
Leave(v) ==
  /\ CanStart(v) /\ status[v] = "asked"
  /\ status' = [status EXCEPT ![v] = "gone"]
  /\ group' = group \ {v}
  /\ UNCHANGED <<streamVars, loop, pc, cursor, expected, joined, given, written, enc, bufferVars>>

-----------------------------------------------------------------------------
(* Writing a tag from the buffer that all writers of a message share.      *)

\* The handlers that are writing m from its buffer.
Writing(m) == {x \in Writers : enc[x].msg = m /\ enc[x].at \in {"size", "length", "index"}}

\* w turns to the buffer of its message; those that are writing
\* it too become its rivals, and it theirs.
TurnToBuffer(w) ==
  LET others == Writing(enc[w].msg)
  IN enc' = [x \in Writers |->
       CASE x = w         -> [enc[w] EXCEPT !.at = "size", !.rivals = others]
         [] x \in others -> [enc[x] EXCEPT !.rivals = @ \cup {w}]
         [] OTHER         -> enc[x]]

\* Mutant of Encode: no resetReaderIndex.
EncodeWithoutReset(w) ==
  LET m == enc[w].msg IN
  /\ enc[w].at = "flag"
  /\ TurnToBuffer(w)
  /\ encoded' = [encoded EXCEPT ![m] = TRUE]
  /\ UNCHANGED <<streamVars, group, loop, pc, viewerVars, index, torn>>

\* DataMessage.encode: the first call sets the flag, a later one resets.
Encode(w) ==
  LET m == enc[w].msg IN
  /\ enc[w].at = "flag"
  /\ TurnToBuffer(w)
  /\ \/ encoded[m] /\ index' = [index EXCEPT ![m] = 0] /\ UNCHANGED encoded
     \/ ~encoded[m] /\ encoded' = [encoded EXCEPT ![m] = TRUE] /\ UNCHANGED index
  /\ UNCHANGED <<streamVars, group, loop, pc, viewerVars, torn>>

\* The size in the tag's header: readableBytes() in FlvAtom's constructor.
TagSize(w) ==
  /\ enc[w].at = "size"
  /\ enc' = [enc EXCEPT ![w].at = "length", ![w].size = Full - index[enc[w].msg]]
  /\ UNCHANGED <<streamVars, group, loop, pc, viewerVars, bufferVars>>

\* out.writeBytes(data) copies what is readable ...
CopyBody(w) ==
  /\ enc[w].at = "length"
  /\ enc' = [enc EXCEPT ![w].at = "index", ![w].length = Full - index[enc[w].msg]]
  /\ UNCHANGED <<streamVars, group, loop, pc, viewerVars, bufferVars>>

\* ... and moves the reader index on, which throws beyond the end.
MoveIndex(w) ==
  LET m    == enc[w].msg
      next == index[m] + enc[w].length
  IN
  /\ enc[w].at = "index"
  /\ enc' = [enc EXCEPT ![w] = NoEnc]
  /\ index' = IF next <= Full THEN [index EXCEPT ![m] = next] ELSE index
  /\ torn' = IF next <= Full /\ enc[w].size = Full /\ enc[w].length = Full
             THEN torn
             ELSE torn \cup {[by |-> w, msg |-> m, rivals |-> enc[w].rivals]}
  /\ UNCHANGED <<streamVars, group, loop, pc, viewerVars, encoded>>

-----------------------------------------------------------------------------
Next ==
  \/ \E publishing \in BOOLEAN : SetPublisher(publishing)
  \/ \E kind \in Kinds, medium \in Media : Receive(kind, medium)
  \/ AddConfig \/ Broadcast
  \/ \E v \in Viewers : \/ Get(v) \/ CopyHeader(v) \/ CopyThrows(v) \/ CopyEnds(v)
                        \/ Join(v) \/ TakeUp(v) \/ Leave(v)
  \/ \E w \in Writers : Encode(w) \/ TagSize(w) \/ CopyBody(w) \/ MoveIndex(w)

Spec == Init /\ [][Next]_vars

-----------------------------------------------------------------------------
(* Properties.                                                             *)

\* The list did not change from a viewer's first look at it until it joined.
Undisturbed(v) == v \in group /\ expected[v] = joined[v]

\* A viewer that joined undisturbed has been given every sequence header that
\* is in the list, those added since included, as soon as the publisher's
\* handler is through with them. (channelRead0 of both handlers, broadcast)
Informed ==
  pc[Publisher] # "write" =>
    \A v \in Viewers : Undisturbed(v) => Range(configs) \subseteq Range(given[v])

\* Such a viewer never gets media ahead of the sequence header that the media
\* relies on, across publications and republications.
\* (channelRead0 of both handlers, setPublisher)
Decodable ==
  \A v \in Viewers : Undisturbed(v) =>
    \A i \in DOMAIN given[v] :
      LET k == msgs[given[v][i]].needs
      IN k # 0 => \E j \in 1..(i - 1) : given[v][j] = k

\* A tag is torn only by the race itself: one that no other handler's write of
\* the same message overlapped is whole, however often the message was written
\* before, by whom, and however those writes ended. (DataMessage.encode)
TornByOverlap == \A tag \in torn : tag.rivals # {}
=============================================================================
