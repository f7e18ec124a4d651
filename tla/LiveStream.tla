------------------------------ MODULE LiveStream ------------------------------
(***************************************************************************)
(* Who publishes, who watches, and which ServerStream object a name leads  *)
(* to.  One ServerHandler per RTMP connection (Conns), one HTTP-FLV        *)
(* handler per viewer (Viewers).  Each connection's handler runs on one    *)
(* event loop, different connections run on different ones: the handlers   *)
(* share the ServerApplication's map of streams and the ServerStream       *)
(* objects without a lock, so every handler is split where it reads shared *)
(* state that it uses later.  pc[x] says where connection x's handler is;  *)
(* "idle" means between two messages.                                      *)
(*                                                                         *)
(* Left to other modules: the media and sequence headers that travel on a  *)
(* stream, and the playback of recorded files (RtmpPublisher).             *)
(***************************************************************************)
EXTENDS Naturals, FiniteSets

CONSTANTS
  Encoders,    \* RTMP connections that publish, each with its own ServerHandler
  Players,     \* RTMP connections that play; the sets may overlap
  Viewers,     \* HTTP-FLV connections
  Names,       \* stream names, after cleanName
  Types,       \* publish types the clients ask for
  Streams,     \* identities of ServerStream objects; bounds how many are made
  MaxPublish,  \* bound on the publish commands of one connection
  NoConn, NoStream, NoName

ASSUME ConstantsAssumption ==
  /\ (Encoders \cup Players) \cap Viewers = {}
  /\ NoConn \notin Encoders \cup Players
  /\ NoStream \notin Streams
  /\ NoName \notin Names
  /\ MaxPublish \in Nat
  /\ Types \subseteq {"live", "record", "append"}

Conns   == Encoders \cup Players
Clients == Conns \cup Viewers

\* ServerStream.PublishType; "untyped" is the null type that play passes.
PublishTypes == {"live", "record", "append"}
StreamTypes  == PublishTypes \cup {"untyped"}

Labels == {"idle", "create", "check", "claim", "append", "evict", "remove",
           "join"}

VARIABLES
  typ,       \* stream object -> its publishType, "unborn" before it is made
  nameOf,    \* stream object -> its name
  registry,  \* ServerApplication.streams: name -> stream object
  pub,       \* ServerStream.publisher
  subs,      \* ServerStream.subscribers, a DefaultChannelGroup
  cur,       \* ServerHandler.subscriberStream
  rec,       \* ServerHandler.recorder, named by the stream it was opened for
  writers,   \* the FlvWriters whose file is open: <<handler, stream>>
  status,    \* "open", "closed" by the server, "lost" by the peer
  closing,   \* a close not yet run: "rejected" (CLOSE listener), "ordered" (group)
  pc,        \* where the handler is
  after,     \* what follows unpublishIfLive in the handler
  req,       \* the arguments of getStream while a stream is being made
  target,    \* the stream a player is about to join
  publishes  \* publish commands received, at most MaxPublish

vars == <<typ, nameOf, registry, pub, subs, cur, rec, writers, status, closing,
          pc, after, req, target, publishes>>
streamVars  == <<typ, nameOf, registry, pub>>
handlerVars == <<cur, rec, writers, publishes>>

NoReq == [name |-> NoName, type |-> "untyped"]

TypeOK ==
  /\ typ \in [Streams -> StreamTypes \cup {"unborn"}]
  /\ nameOf \in [Streams -> Names \cup {NoName}]
  /\ registry \in [Names -> Streams \cup {NoStream}]
  /\ pub \in [Streams -> Conns \cup {NoConn}]
  /\ subs \in [Streams -> SUBSET Clients]
  /\ cur \in [Conns -> Streams \cup {NoStream}]
  /\ rec \in [Conns -> Streams \cup {NoStream}]
  /\ writers \in SUBSET (Conns \X Streams)
  /\ status \in [Clients -> {"open", "closed", "lost"}]
  /\ closing \in [Clients -> {"no", "rejected", "ordered"}]
  /\ pc \in [Clients -> Labels]
  /\ after \in [Conns -> {"idle", "shut", "remove"}]
  /\ req \in [Conns -> [name: Names \cup {NoName}, type: StreamTypes]]
  /\ target \in [Clients -> Streams \cup {NoStream}]
  /\ publishes \in [Conns -> 0..MaxPublish]

Init ==
  /\ typ = [s \in Streams |-> "unborn"]
  /\ nameOf = [s \in Streams |-> NoName]
  /\ registry = [n \in Names |-> NoStream]
  /\ pub = [s \in Streams |-> NoConn]
  /\ subs = [s \in Streams |-> {}]
  /\ cur = [c \in Conns |-> NoStream]
  /\ rec = [c \in Conns |-> NoStream]
  /\ writers = {}
  /\ status = [x \in Clients |-> "open"]
  /\ closing = [x \in Clients |-> "no"]
  /\ pc = [x \in Clients |-> "idle"]
  /\ after = [c \in Conns |-> "idle"]
  /\ req = [c \in Conns |-> NoReq]
  /\ target = [x \in Clients |-> NoStream]
  /\ publishes = [c \in Conns |-> 0]

-----------------------------------------------------------------------------
(* Helpers.                                                                *)

\* x can be handed its next message.
Ready(x) == status[x] = "open" /\ pc[x] = "idle"

Goto(x, label) == pc' = [pc EXCEPT ![x] = label]

\* A closed channel leaves every group (DefaultChannelGroup's close listener).
LeaveGroups(x) == subs' = [s \in Streams |-> subs[s] \ {x}]

\* The constructor leaves the group and the config list of an untyped stream null.
HasGroup(s) == s # NoStream /\ typ[s] # "untyped"

-----------------------------------------------------------------------------
(* publish.                                                                *)

\* Mutant of Publish: a stream that play left untyped is made again.
PublishReplacesUntyped(c, n, t) ==
  /\ Ready(c) /\ publishes[c] < MaxPublish
  /\ publishes' = [publishes EXCEPT ![c] = @ + 1]
  /\ \/ /\ HasGroup(registry[n])
        /\ cur' = [cur EXCEPT ![c] = registry[n]]
        /\ Goto(c, "check")
        /\ UNCHANGED req
     \/ /\ ~HasGroup(registry[n])
        /\ req' = [req EXCEPT ![c] = [name |-> n, type |-> t]]
        /\ Goto(c, "create")
        /\ UNCHANGED cur
  /\ UNCHANGED <<streamVars, subs, rec, writers, status, closing, after, target>>

\* publishResponse up to the map look-up in ServerApplication.getStream.
Publish(c, n, t) ==
  /\ Ready(c) /\ publishes[c] < MaxPublish
  /\ publishes' = [publishes EXCEPT ![c] = @ + 1]
  /\ \/ /\ registry[n] # NoStream
        /\ cur' = [cur EXCEPT ![c] = registry[n]]
        /\ Goto(c, "check")
        /\ UNCHANGED req
     \/ /\ registry[n] = NoStream
        /\ req' = [req EXCEPT ![c] = [name |-> n, type |-> t]]
        /\ Goto(c, "create")
        /\ UNCHANGED cur
  /\ UNCHANGED <<streamVars, subs, rec, writers, status, closing, after, target>>

\* The rest of getStream: a new ServerStream is put under the name, whatever
\* the map holds by now.  A publish goes on to its check; a play finds a stream
\* that is not live and leaves this module for the playback of a file.
CreateStream(c) ==
  /\ pc[c] = "create"
  /\ \E s \in Streams :
       /\ typ[s] = "unborn"
       /\ typ' = [typ EXCEPT ![s] = req[c].type]
       /\ nameOf' = [nameOf EXCEPT ![s] = req[c].name]
       /\ registry' = [registry EXCEPT ![req[c].name] = s]
       /\ \/ /\ req[c].type = "untyped"
             /\ Goto(c, "idle")
             /\ UNCHANGED cur
          \/ /\ req[c].type # "untyped"
             /\ cur' = [cur EXCEPT ![c] = s]
             /\ Goto(c, "check")
  /\ req' = [req EXCEPT ![c] = NoReq]
  /\ UNCHANGED <<pub, subs, rec, writers, status, closing, after, target, publishes>>

\* subscriberStream.getPublisher() != null: BadName, with a CLOSE listener on
\* the write.  The handler keeps its subscriberStream.
CheckPublisher(c) ==
  /\ pc[c] = "check"
  /\ \/ /\ pub[cur[c]] # NoConn
        /\ closing' = [closing EXCEPT ![c] = "rejected"]
        /\ Goto(c, "idle")
     \/ /\ pub[cur[c]] = NoConn
        /\ Goto(c, "claim")
        /\ UNCHANGED closing
  /\ UNCHANGED <<streamVars, subs, handlerVars, status, after, req, target>>

\* setPublisher and the rest of publishResponse.  On an untyped stream
\* setPublisher throws after its assignment (configMessages is null); opening
\* the file may throw too, and either exception only ends the handler.
SetPublisher(c) ==
  LET s == cur[c] IN
  /\ pc[c] = "claim"
  /\ pub' = [pub EXCEPT ![s] = c]
  /\ \/ /\ typ[s] = "untyped"
        /\ Goto(c, "idle")
        /\ UNCHANGED <<rec, writers>>
     \/ /\ typ[s] \in {"live", "record"}
        /\ rec' = [rec EXCEPT ![c] = s]
        /\ writers' = writers \cup {<<c, s>>}
        /\ Goto(c, "idle")
     \/ /\ typ[s] \in {"live", "record"}   \* the FlvWriter cannot be opened
        /\ Goto(c, "idle")
        /\ UNCHANGED <<rec, writers>>
     \/ /\ typ[s] = "append"
        /\ Goto(c, "append")
        /\ UNCHANGED <<rec, writers>>
  /\ UNCHANGED <<typ, nameOf, registry, subs, cur, status, closing, after, req,
                 target, publishes>>

-----------------------------------------------------------------------------
(* unpublishIfLive, and the handlers that call it.                         *)

\* What a handler does once unpublishIfLive has returned: nothing more, the
\* rest of deleteStream, or ctx.close of the transport.
Return(c, next) ==
  /\ after' = [after EXCEPT ![c] = "idle"]
  /\ \/ /\ next = "shut"
        /\ status' = [status EXCEPT ![c] = "closed"]
        /\ closing' = [closing EXCEPT ![c] = "no"]
        /\ LeaveGroups(c)
        /\ Goto(c, "idle")
     \/ /\ next # "shut"
        /\ Goto(c, next)
        /\ UNCHANGED <<status, closing, subs>>

\* Mutants of DropRecorder: the file is not closed; the reference is kept.
DropRecorderLeavesFile(c) ==
  /\ rec' = [rec EXCEPT ![c] = NoStream]
  /\ UNCHANGED writers
DropRecorderKeepsReference(c) ==
  /\ writers' = writers \ {<<c, rec[c]>>}
  /\ UNCHANGED rec

\* recorder.close(); recorder = null
DropRecorder(c) ==
  /\ rec' = [rec EXCEPT ![c] = NoStream]
  /\ writers' = writers \ {<<c, rec[c]>>}

\* subscriberStream != null && subscriberStream.getPublisher() != null
HasPublisher(s) == s # NoStream /\ pub[s] # NoConn

\* unpublishIfLive up to its condition.  doClose, which goes before it in
\* deleteStream and in a close, has already closed the recorder's file.
UnpublishIfLive(c, next) ==
  /\ \/ /\ HasPublisher(cur[c])
        /\ Goto(c, "evict")
        /\ after' = [after EXCEPT ![c] = next]
        /\ writers' = IF next = "idle" THEN writers ELSE writers \ {<<c, rec[c]>>}
        /\ UNCHANGED <<rec, status, closing, subs>>
     \/ /\ ~HasPublisher(cur[c])
        /\ DropRecorder(c)
        /\ Return(c, next)
  /\ UNCHANGED <<streamVars, cur, publishes, req, target>>

\* closeStream, and publish with the argument false.
CloseStream(c) == Ready(c) /\ UnpublishIfLive(c, "idle")

\* "append not implemented yet, un-publishing..."
UnpublishAppend(c) == pc[c] = "append" /\ UnpublishIfLive(c, "idle")

\* deleteStream: doClose first.
DeleteStream(c) == Ready(c) /\ UnpublishIfLive(c, "remove")

\* Mutant of Close: doClose without unpublishIfLive.
CloseWithoutUnpublish(c) ==
  /\ pc[c] = "idle" /\ status[c] # "closed" /\ closing[c] # "no"
  /\ DropRecorder(c)
  /\ Return(c, "shut")
  /\ UNCHANGED <<streamVars, cur, publishes, req, target>>

\* The outbound close event reaches ServerHandler.close: doClose, ctx.close.
Close(c) ==
  /\ pc[c] = "idle" /\ status[c] # "closed" /\ closing[c] # "no"
  /\ UnpublishIfLive(c, "shut")

\* The publisher is read again; whoever it is, it is told and cleared.
Evict(c) ==
  /\ pc[c] = "evict"
  /\ HasPublisher(cur[c]) /\ HasGroup(cur[c])
  /\ pub' = [pub EXCEPT ![cur[c]] = NoConn]
  /\ DropRecorder(c)
  /\ Return(c, after[c])
  /\ UNCHANGED <<typ, nameOf, registry, cur, publishes, req, target>>

\* The second read finds null, or an untyped stream has no subscriber group:
\* a NullPointerException leaves the handler.  In a close it fails the promise
\* and the channel stays open.
EvictThrows(c) ==
  /\ pc[c] = "evict"
  /\ ~(HasPublisher(cur[c]) /\ HasGroup(cur[c]))
  /\ Goto(c, "idle")
  /\ after' = [after EXCEPT ![c] = "idle"]
  /\ closing' = [closing EXCEPT ![c] = IF after[c] = "shut" THEN "no" ELSE @]
  /\ UNCHANGED <<streamVars, subs, handlerVars, status, req, target>>

\* Mutant of RemoveStream: the group is not closed.
RemoveStreamKeepsAudience(c) ==
  /\ pc[c] = "remove"
  /\ Goto(c, "idle")
  /\ registry' = [n \in Names |->
       IF HasGroup(cur[c]) /\ n = nameOf[cur[c]] THEN NoStream ELSE registry[n]]
  /\ UNCHANGED <<typ, nameOf, pub, subs, handlerVars, status, closing, after, req, target>>

\* The rest of deleteStream: close every subscriber, then forget the name,
\* whichever object it leads to by now.  Without a group it throws.
RemoveStream(c) ==
  LET s == cur[c] IN
  /\ pc[c] = "remove"
  /\ Goto(c, "idle")
  /\ \/ /\ HasGroup(s)
        /\ closing' = [x \in Clients |->
             IF x \in subs[s] /\ closing[x] = "no" THEN "ordered" ELSE closing[x]]
        /\ registry' = [registry EXCEPT ![nameOf[s]] = NoStream]
     \/ /\ ~HasGroup(s)
        /\ UNCHANGED <<closing, registry>>
  /\ UNCHANGED <<typ, nameOf, pub, subs, handlerVars, status, after, req, target>>

-----------------------------------------------------------------------------
(* Watching.                                                               *)

\* playResponse: getStream makes an untyped stream under an unknown name; a
\* live stream is joined after its start messages; any other is a file.
Play(c, n) ==
  /\ Ready(c)
  /\ \/ /\ registry[n] = NoStream
        /\ req' = [req EXCEPT ![c] = [name |-> n, type |-> "untyped"]]
        /\ Goto(c, "create")
        /\ UNCHANGED target
     \/ /\ registry[n] # NoStream /\ typ[registry[n]] = "live"
        /\ target' = [target EXCEPT ![c] = registry[n]]
        /\ Goto(c, "join")
        /\ UNCHANGED req
  /\ UNCHANGED <<streamVars, subs, handlerVars, status, closing, after>>

\* Mutant of HttpGet: the viewer remembers the name, not the stream object.
HttpGetByName(v, n) ==
  /\ Ready(v) /\ closing[v] = "no"
  /\ registry[n] # NoStream
  /\ target' = [target EXCEPT ![v] = n]
  /\ UNCHANGED <<streamVars, subs, handlerVars, status, closing, pc, after, req>>

\* A GET for a stream that exists and whose metadata has arrived.
HttpGet(v, n) ==
  /\ Ready(v) /\ closing[v] = "no"
  /\ registry[n] # NoStream /\ typ[registry[n]] \in PublishTypes
  /\ \A s \in Streams : v \notin subs[s]    \* one request a connection
  /\ target' = [target EXCEPT ![v] = registry[n]]
  /\ Goto(v, "join")
  /\ UNCHANGED <<streamVars, subs, handlerVars, status, closing, after, req>>

\* A GET without an answer: no such stream (406), or no metadata yet (500).
HttpRefuse(v) ==
  /\ Ready(v) /\ closing[v] = "no"
  /\ \A s \in Streams : v \notin subs[s]
  /\ closing' = [closing EXCEPT ![v] = "rejected"]
  /\ UNCHANGED <<streamVars, subs, handlerVars, status, pc, after, req, target>>

\* getSubscribers().add(channel)
JoinGroup(x) ==
  /\ pc[x] = "join"
  /\ subs' = [subs EXCEPT ![target[x]] = @ \cup {x}]
  /\ target' = [target EXCEPT ![x] = NoStream]
  /\ Goto(x, "idle")
  /\ UNCHANGED <<streamVars, handlerVars, status, closing, after, req>>

\* A viewer's close runs no code of the streams.
CloseViewer(v) ==
  /\ Ready(v) /\ closing[v] # "no"
  /\ status' = [status EXCEPT ![v] = "closed"]
  /\ closing' = [closing EXCEPT ![v] = "no"]
  /\ LeaveGroups(v)
  /\ UNCHANGED <<streamVars, handlerVars, pc, after, req, target>>

\* The peer goes away.  ServerHandler has no channelInactive: nothing of it
\* runs.  A BadName still queued fails and its listener closes all the same;
\* a close ordered by another loop may find the handler already removed.
PeerLost(x) ==
  /\ Ready(x)
  /\ status' = [status EXCEPT ![x] = "lost"]
  /\ \/ /\ x \in Conns
        /\ UNCHANGED closing
     \/ /\ x \in Viewers \/ closing[x] = "ordered"
        /\ closing' = [closing EXCEPT ![x] = "no"]
  /\ LeaveGroups(x)
  /\ UNCHANGED <<streamVars, handlerVars, pc, after, req, target>>

-----------------------------------------------------------------------------
(* The steps a handler takes once it has started.                          *)
HandlerStep(c) ==
  \/ CreateStream(c) \/ CheckPublisher(c) \/ SetPublisher(c)
  \/ UnpublishAppend(c) \/ Evict(c) \/ EvictThrows(c) \/ RemoveStream(c)

\* What the peer may send next.
Command(c) ==
  \/ c \in Players /\ \E n \in Names : Play(c, n)
  \/ c \in Encoders /\ \E n \in Names, t \in Types : Publish(c, n, t)
  \/ c \in Encoders /\ (CloseStream(c) \/ DeleteStream(c))

Next ==
  \/ \E c \in Conns : Command(c) \/ HandlerStep(c) \/ Close(c)
  \/ \E v \in Viewers : (\E n \in Names : HttpGet(v, n)) \/ HttpRefuse(v) \/ CloseViewer(v)
  \/ \E x \in Clients : JoinGroup(x) \/ PeerLost(x)

\* Every event loop runs the handler it has started and the closes it is due.
Fairness ==
  /\ \A c \in Conns : WF_vars(HandlerStep(c)) /\ WF_vars(Close(c))
  /\ \A v \in Viewers : WF_vars(CloseViewer(v))
  /\ \A x \in Clients : WF_vars(JoinGroup(x))

Spec     == Init /\ [][Next]_vars
FairSpec == Spec /\ Fairness

-----------------------------------------------------------------------------
(* Properties.                                                             *)

\* For connections that publish once (MaxPublish = 1): whoever a stream names
\* as its publisher still holds that stream, so that its orderly end would
\* clear it, and has not ended already: no orderly close leaves a name taken.
\* (ServerHandler.publishResponse, unpublishIfLive, doClose)
NoGhostPublisher ==
  \A s \in Streams, c \in Conns :
    pub[s] = c => cur[c] = s /\ status[c] # "closed"

\* For connections that publish once: a recording file that is open is the one
\* its handler still refers to, and no handler that ran doClose left one open.
\* (ServerHandler.publishResponse, deleteStream, doClose)
RecorderReleased ==
  \A c \in Conns, s \in Streams :
    <<c, s>> \in writers => rec[c] = s /\ status[c] # "closed"

\* For connections that publish once: a connection that recorded a stream, and
\* has not ended its publication itself, is its publisher unless another
\* connection took the same stream as its subscriberStream.
\* (ServerHandler.publishResponse, unpublishIfLive)
OustedOnlyByRival ==
  \A c \in Conns, s \in Streams :
    rec[c] = s /\ pub[s] # c => \E d \in Conns \ {c} : cur[d] = s

\* A play reached the name first: the registered stream is untyped, no handler
\* is about to register another, none holds a typed stream of that name (whose
\* deleteStream would remove the name).
Poisoned(n) ==
  /\ registry[n] # NoStream /\ typ[registry[n]] = "untyped"
  /\ \A c \in Conns : ~(pc[c] = "create" /\ req[c].name = n)
  /\ \A c \in Conns : cur[c] # NoStream =>
       typ[cur[c]] = "untyped" \/ nameOf[cur[c]] # n

\* A name that a play took before any publish stays unusable: no sequence of
\* publish, closeStream, deleteStream, closes and losses frees it.
\* (ServerApplication.getStream, ServerStream.setPublisher, deleteStream)
PoisonedStays == [][\A n \in Names : Poisoned(n) => Poisoned(n)']_vars

\* "disconnecting publisher client, stream already in use": two open
\* connections never have the same stream accepted and recording at once.
\* (ServerHandler.publishResponse)
OnePublisherPerStream ==
  \A c, d \in Conns : \A s \in Streams :
    rec[c] = s /\ rec[d] = s /\ status[c] = "open" /\ status[d] = "open" => c = d

\* The viewers that are in the group when deleteStream closes it are all
\* disconnected. (ServerHandler.deleteStream)
DeleteEndsAudience ==
  \A c \in Conns, v \in Viewers :
    (pc[c] = "remove" /\ HasGroup(cur[c]) /\ v \in subs[cur[c]]) ~> (status[v] # "open")
=============================================================================
