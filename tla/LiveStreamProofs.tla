--------------------------- MODULE LiveStreamProofs ---------------------------
(***************************************************************************)
(* What LiveStream guarantees for any number of connections, viewers,      *)
(* names and stream objects.                                               *)
(***************************************************************************)
EXTENDS LiveStream, TLAPS

\* A handler that is past getStream holds a stream object.
HoldsStream ==
  \A c \in Conns : pc[c] \in {"check", "claim", "append"} => cur[c] \in Streams

TypeInv == TypeOK /\ HoldsStream

\* The types hold in the beginning.
LEMMA TypeInvInit == Init => TypeInv
  BY ConstantsAssumption DEF Init, TypeInv, TypeOK, HoldsStream, Conns, Clients,
     StreamTypes, PublishTypes, Labels, NoReq

USE DEF StreamTypes, PublishTypes, Labels, NoReq, Goto, streamVars, handlerVars,
        Return, LeaveGroups, DropRecorder, HasPublisher, HasGroup, Ready

\* unpublishIfLive keeps the types wherever the handler goes on.
LEMMA TypeInvUnpublish ==
  ASSUME TypeInv, NEW c \in Conns, NEW next \in {"idle", "shut", "remove"},
         UnpublishIfLive(c, next)
  PROVE  TypeInv'
<1> USE DEF TypeInv, TypeOK, HoldsStream, Conns, Clients
<1>1. CASE HasPublisher(cur[c])
  <2>1. writers' \in SUBSET (Conns \X Streams)
    BY <1>1 DEF UnpublishIfLive
  <2>2. pc' \in [Clients -> Labels] /\ after' \in [Conns -> {"idle", "shut", "remove"}]
    BY <1>1 DEF UnpublishIfLive
  <2>3. HoldsStream'
    BY <1>1 DEF UnpublishIfLive
  <2>4. QED
    BY <1>1, <2>1, <2>2, <2>3 DEF UnpublishIfLive
<1>2. CASE ~HasPublisher(cur[c])
  BY <1>2, SMTT(30) DEF UnpublishIfLive
<1>3. QED
  BY <1>1, <1>2

\* Every step keeps the types.
LEMMA TypeInvNext == TypeInv /\ [Next]_vars => TypeInv'
<1> SUFFICES ASSUME TypeInv, [Next]_vars PROVE TypeInv'
  OBVIOUS
<1> USE ConstantsAssumption DEF TypeInv, TypeOK, HoldsStream, Conns, Clients
<1>1. ASSUME NEW c \in Conns, NEW n \in Names, Play(c, n) PROVE TypeInv'
  BY <1>1, SMTT(30) DEF Play
<1>2. ASSUME NEW c \in Conns, NEW n \in Names, NEW t \in Types, Publish(c, n, t)
      PROVE TypeInv'
  BY <1>2 DEF Publish
<1>3. ASSUME NEW c \in Conns, CloseStream(c) PROVE TypeInv'
  BY <1>3, TypeInvUnpublish DEF CloseStream
<1>4. ASSUME NEW c \in Conns, DeleteStream(c) PROVE TypeInv'
  BY <1>4, TypeInvUnpublish DEF DeleteStream
<1>5. ASSUME NEW c \in Conns, Close(c) PROVE TypeInv'
  BY <1>5, TypeInvUnpublish DEF Close
<1>6. ASSUME NEW c \in Conns, CreateStream(c) PROVE TypeInv'
  <2>1. req[c].type \in StreamTypes /\ req[c].name \in Names \cup {NoName}
    OBVIOUS
  <2>2. PICK s \in Streams :
          /\ typ' = [typ EXCEPT ![s] = req[c].type]
          /\ nameOf' = [nameOf EXCEPT ![s] = req[c].name]
          /\ registry' = [registry EXCEPT ![req[c].name] = s]
          /\ \/ Goto(c, "idle") /\ UNCHANGED cur
             \/ cur' = [cur EXCEPT ![c] = s] /\ Goto(c, "check")
    BY <1>6 DEF CreateStream
  <2>3. /\ typ' \in [Streams -> StreamTypes \cup {"unborn"}]
        /\ nameOf' \in [Streams -> Names \cup {NoName}]
        /\ registry' \in [Names -> Streams \cup {NoStream}]
    BY <2>1, <2>2
  <2>4. cur' \in [Conns -> Streams \cup {NoStream}] /\ pc' \in [Clients -> Labels] /\ HoldsStream'
    BY <2>2
  <2>5. req' \in [Conns -> [name: Names \cup {NoName}, type: StreamTypes]]
    BY <1>6 DEF CreateStream
  <2>6. QED
    BY <1>6, <2>3, <2>4, <2>5 DEF CreateStream
<1>7. ASSUME NEW c \in Conns, CheckPublisher(c) PROVE TypeInv'
  BY <1>7 DEF CheckPublisher
<1>8. ASSUME NEW c \in Conns, SetPublisher(c) PROVE TypeInv'
  BY <1>8 DEF SetPublisher
<1>9. ASSUME NEW c \in Conns, UnpublishAppend(c) PROVE TypeInv'
  BY <1>9, TypeInvUnpublish DEF UnpublishAppend
<1>10. ASSUME NEW c \in Conns, Evict(c) PROVE TypeInv'
  BY <1>10 DEF Evict
<1>11. ASSUME NEW c \in Conns, EvictThrows(c) PROVE TypeInv'
  BY <1>11 DEF EvictThrows
<1>12. ASSUME NEW c \in Conns, RemoveStream(c) PROVE TypeInv'
  BY <1>12 DEF RemoveStream
<1>13. ASSUME NEW v \in Viewers, NEW n \in Names, HttpGet(v, n) PROVE TypeInv'
  BY <1>13 DEF HttpGet
<1>14. ASSUME NEW v \in Viewers, HttpRefuse(v) \/ CloseViewer(v) PROVE TypeInv'
  BY <1>14 DEF HttpRefuse, CloseViewer
<1>15. ASSUME NEW x \in Clients, JoinGroup(x) \/ PeerLost(x) PROVE TypeInv'
  BY <1>15, SMTT(30) DEF JoinGroup, PeerLost
<1>16. CASE UNCHANGED vars
  BY <1>16 DEF vars
<1>17. QED
  BY <1>1, <1>2, <1>3, <1>4, <1>5, <1>6, <1>7, <1>8, <1>9, <1>10, <1>11, <1>12,
     <1>13, <1>14, <1>15, <1>16 DEF Next, Command, HandlerStep

\* Every variable keeps its type, whatever clients do.
THEOREM TypeCorrect == Spec => []TypeOK
<1>1. TypeInv => TypeOK
  BY DEF TypeInv
<1>2. QED
  BY <1>1, TypeInvInit, TypeInvNext, PTL DEF Spec

-----------------------------------------------------------------------------
(* Connections that publish once.  NoGhostPublisher and its companions are  *)
(* not inductive by themselves: a handler on its way from getStream to      *)
(* setPublisher must not be a publisher already, and before its publish     *)
(* command it must hold nothing.                                            *)

\* Before its publish command a connection holds and owns nothing.
Fresh(c) ==
  /\ cur[c] = NoStream /\ rec[c] = NoStream
  /\ \A s \in Streams : pub[s] # c

Ownership ==
  /\ \A c \in Conns : publishes[c] = 0 =>
       /\ Fresh(c) /\ pc[c] \notin {"check", "claim", "append"}
       /\ ~(pc[c] = "create" /\ req[c].type # "untyped")
  /\ \A c \in Conns : pc[c] = "create" /\ req[c].type # "untyped" => Fresh(c)
  /\ \A c \in Conns : pc[c] \in {"check", "claim"} =>
       rec[c] = NoStream /\ \A s \in Streams : pub[s] # c
  /\ \A c \in Conns : status[c] = "closed" => pc[c] = "idle"
  /\ \A c \in Conns : rec[c] # NoStream => rec[c] = cur[c]

OwnerInv == TypeInv /\ Ownership /\ NoGhostPublisher /\ RecorderReleased /\ OustedOnlyByRival

\* The invariant holds in the beginning.
LEMMA OwnerInvInit == Init => OwnerInv
  BY TypeInvInit, ConstantsAssumption
     DEF Init, OwnerInv, Ownership, Fresh, NoGhostPublisher, RecorderReleased,
         OustedOnlyByRival, Conns, Clients

\* unpublishIfLive keeps the invariant wherever the handler goes on.
LEMMA OwnerUnpublish ==
  ASSUME OwnerInv, NEW c \in Conns, NEW next \in {"idle", "shut", "remove"},
         status[c] # "closed", UnpublishIfLive(c, next)
  PROVE  Ownership' /\ NoGhostPublisher' /\ RecorderReleased' /\ OustedOnlyByRival'
<1> USE ConstantsAssumption DEF OwnerInv, TypeInv, TypeOK, HoldsStream, Conns, Clients
<1>1. CASE HasPublisher(cur[c])
  <2>1. Ownership'
    BY <1>1 DEF UnpublishIfLive, Ownership, Fresh
  <2>2. NoGhostPublisher' /\ OustedOnlyByRival'
    BY <1>1 DEF UnpublishIfLive, NoGhostPublisher, OustedOnlyByRival
  <2>3. RecorderReleased'
    BY <1>1 DEF UnpublishIfLive, RecorderReleased
  <2>4. QED
    BY <2>1, <2>2, <2>3
<1>2. CASE ~HasPublisher(cur[c])
  <2>1. Ownership'
    BY <1>2 DEF UnpublishIfLive, Ownership, Fresh
  <2>2. NoGhostPublisher'
    BY <1>2 DEF UnpublishIfLive, NoGhostPublisher
  <2>3. OustedOnlyByRival'
    BY <1>2 DEF UnpublishIfLive, OustedOnlyByRival
  <2>4. RecorderReleased'
    BY <1>2 DEF UnpublishIfLive, RecorderReleased
  <2>5. QED
    BY <2>1, <2>2, <2>3, <2>4
<1>3. QED
  BY <1>1, <1>2

\* Every step keeps it.
LEMMA OwnerInvNext ==
  ASSUME MaxPublish = 1
  PROVE  OwnerInv /\ [Next]_vars => OwnerInv'
<1> DEFINE Goal == Ownership' /\ NoGhostPublisher' /\ RecorderReleased' /\ OustedOnlyByRival'
<1> SUFFICES ASSUME OwnerInv, [Next]_vars PROVE Goal
  BY TypeInvNext DEF OwnerInv
<1> USE ConstantsAssumption DEF OwnerInv, TypeInv, TypeOK, HoldsStream, Conns, Clients
<1>1. ASSUME NEW c \in Conns, NEW n \in Names, Play(c, n) PROVE Goal
  BY <1>1 DEF Play, Ownership, Fresh, NoGhostPublisher, RecorderReleased, OustedOnlyByRival
<1>2. ASSUME NEW c \in Conns, NEW n \in Names, NEW t \in Types, Publish(c, n, t)
      PROVE Goal
  <2>1. publishes[c] = 0 /\ publishes' = [publishes EXCEPT ![c] = 1]
    <3>1. publishes[c] \in 0..1 /\ publishes[c] < 1
      BY <1>2 DEF Publish
    <3>2. publishes[c] = 0 /\ publishes[c] + 1 = 1
      BY <3>1
    <3>3. publishes' = [publishes EXCEPT ![c] = publishes[c] + 1]
      BY <1>2 DEF Publish
    <3>4. QED
      BY <3>2, <3>3
  <2>2. Ownership'
    <3>1. Fresh(c) /\ status[c] = "open" /\ UNCHANGED <<pub, rec, status>>
      BY <1>2, <2>1 DEF Publish, Ownership
    <3>2. \/ cur' = [cur EXCEPT ![c] = registry[n]] /\ Goto(c, "check") /\ UNCHANGED req
          \/ UNCHANGED cur /\ Goto(c, "create") /\ req' = [req EXCEPT ![c] = [name |-> n, type |-> t]]
      BY <1>2 DEF Publish
    <3>3. \A d \in Conns \ {c} : Fresh(d) => Fresh(d)'
      BY <3>1, <3>2 DEF Fresh
    <3>4. QED
      BY <2>1, <3>1, <3>2, <3>3 DEF Ownership, Fresh
  <2>3. NoGhostPublisher' /\ RecorderReleased'
    BY <1>2, <2>1 DEF Publish, Ownership, Fresh, NoGhostPublisher, RecorderReleased
  <2>4. OustedOnlyByRival'
    BY <1>2, <2>1 DEF Publish, Ownership, Fresh, OustedOnlyByRival
  <2>5. QED
    BY <2>2, <2>3, <2>4
<1>3. ASSUME NEW c \in Conns, CloseStream(c) PROVE Goal
  BY <1>3, OwnerUnpublish DEF CloseStream
<1>4. ASSUME NEW c \in Conns, DeleteStream(c) PROVE Goal
  BY <1>4, OwnerUnpublish DEF DeleteStream
<1>5. ASSUME NEW c \in Conns, Close(c) PROVE Goal
  BY <1>5, OwnerUnpublish DEF Close
<1>6. ASSUME NEW c \in Conns, CreateStream(c) PROVE Goal
  <2>1. PICK s \in Streams :
          \/ req[c].type = "untyped" /\ Goto(c, "idle") /\ UNCHANGED cur
          \/ /\ req[c].type # "untyped" /\ Goto(c, "check")
             /\ cur' = [cur EXCEPT ![c] = s]
    BY <1>6 DEF CreateStream
  <2>2. /\ UNCHANGED <<pub, rec, writers, status, publishes>>
        /\ pc[c] = "create" /\ req' = [req EXCEPT ![c] = NoReq]
    BY <1>6 DEF CreateStream
  <2>3. req[c].type # "untyped" => publishes[c] # 0 /\ Fresh(c)
    BY <2>2 DEF Ownership
  <2>4. Ownership'
    BY <2>1, <2>2, <2>3 DEF Ownership, Fresh
  <2>5. NoGhostPublisher' /\ RecorderReleased' /\ OustedOnlyByRival'
    BY <2>1, <2>2, <2>3 DEF Fresh, NoGhostPublisher, RecorderReleased, OustedOnlyByRival
  <2>6. QED
    BY <2>4, <2>5
<1>7. ASSUME NEW c \in Conns, CheckPublisher(c) PROVE Goal
  BY <1>7 DEF CheckPublisher, Ownership, Fresh, NoGhostPublisher, RecorderReleased,
     OustedOnlyByRival
<1>8. ASSUME NEW c \in Conns, SetPublisher(c) PROVE Goal
  <2>1. cur[c] \in Streams /\ rec[c] = NoStream /\ status[c] # "closed" /\ publishes[c] # 0
    BY <1>8 DEF SetPublisher, Ownership
  <2>2. Ownership'
    <3>1. /\ pub' = [pub EXCEPT ![cur[c]] = c]
          /\ UNCHANGED <<cur, status, publishes, req>>
      BY <1>8 DEF SetPublisher
    <3>2. /\ pc' = [pc EXCEPT ![c] = "idle"] \/ pc' = [pc EXCEPT ![c] = "append"]
          /\ rec' = rec \/ rec' = [rec EXCEPT ![c] = cur[c]]
      BY <1>8 DEF SetPublisher
    <3>3. \A d \in Conns \ {c} : Fresh(d) => Fresh(d)'
      BY <2>1, <3>1, <3>2 DEF Fresh
    <3>4. QED
      BY <2>1, <3>1, <3>2, <3>3 DEF Ownership
  <2>3. NoGhostPublisher' /\ RecorderReleased'
    BY <1>8, <2>1 DEF SetPublisher, NoGhostPublisher, RecorderReleased
  <2>4. OustedOnlyByRival'
    BY <1>8, <2>1 DEF SetPublisher, OustedOnlyByRival
  <2>5. QED
    BY <2>2, <2>3, <2>4
<1>9. ASSUME NEW c \in Conns, UnpublishAppend(c) PROVE Goal
  <2>1. status[c] # "closed"
    BY <1>9 DEF UnpublishAppend, Ownership
  <2>2. QED
    BY <1>9, <2>1, OwnerUnpublish DEF UnpublishAppend
<1>10. ASSUME NEW c \in Conns, Evict(c) PROVE Goal
  <2>1. status[c] # "closed" /\ cur[c] # NoStream
    BY <1>10 DEF Evict, Ownership
  <2>2. Ownership'
    BY <1>10, <2>1, SMTT(30) DEF Evict, Ownership, Fresh
  <2>3. NoGhostPublisher'
    BY <1>10, <2>1 DEF Evict, NoGhostPublisher
  <2>4. RecorderReleased'
    BY <1>10, <2>1 DEF Evict, RecorderReleased
  <2>5. OustedOnlyByRival'
    BY <1>10, <2>1 DEF Evict, OustedOnlyByRival
  <2>6. QED
    BY <2>2, <2>3, <2>4, <2>5
<1>11. ASSUME NEW c \in Conns, EvictThrows(c) PROVE Goal
  BY <1>11 DEF EvictThrows, Ownership, Fresh, NoGhostPublisher, RecorderReleased,
     OustedOnlyByRival
<1>12. ASSUME NEW c \in Conns, RemoveStream(c) PROVE Goal
  BY <1>12 DEF RemoveStream, Ownership, Fresh, NoGhostPublisher, RecorderReleased,
     OustedOnlyByRival
<1>13. ASSUME NEW v \in Viewers, NEW n \in Names, HttpGet(v, n) PROVE Goal
  BY <1>13 DEF HttpGet, Ownership, Fresh, NoGhostPublisher, RecorderReleased,
     OustedOnlyByRival
<1>14. ASSUME NEW v \in Viewers, HttpRefuse(v) \/ CloseViewer(v) PROVE Goal
  BY <1>14 DEF HttpRefuse, CloseViewer, Ownership, Fresh, NoGhostPublisher,
     RecorderReleased, OustedOnlyByRival
<1>15. ASSUME NEW x \in Clients, JoinGroup(x) \/ PeerLost(x) PROVE Goal
  BY <1>15 DEF JoinGroup, PeerLost, Ownership, Fresh, NoGhostPublisher,
     RecorderReleased, OustedOnlyByRival
<1>16. CASE UNCHANGED vars
  BY <1>16 DEF vars, Ownership, Fresh, NoGhostPublisher, RecorderReleased, OustedOnlyByRival
<1>17. QED
  BY <1>1, <1>2, <1>3, <1>4, <1>5, <1>6, <1>7, <1>8, <1>9, <1>10, <1>11, <1>12,
     <1>13, <1>14, <1>15, <1>16 DEF Next, Command, HandlerStep

\* However many connections compete, when each publishes once: an orderly close
\* never leaves its stream taken.
THEOREM OrderlyCloseReleases ==
  ASSUME MaxPublish = 1
  PROVE  Spec => []NoGhostPublisher
<1>1. OwnerInv => NoGhostPublisher
  BY DEF OwnerInv
<1>2. OwnerInv /\ [Next]_vars => OwnerInv'
  BY OwnerInvNext
<1>3. QED
  BY <1>1, <1>2, OwnerInvInit, PTL DEF Spec

\* ... no recording file is left open by a handler that has closed, ...
THEOREM RecorderAlwaysReleased ==
  ASSUME MaxPublish = 1
  PROVE  Spec => []RecorderReleased
<1>1. OwnerInv => RecorderReleased
  BY DEF OwnerInv
<1>2. OwnerInv /\ [Next]_vars => OwnerInv'
  BY OwnerInvNext
<1>3. QED
  BY <1>1, <1>2, OwnerInvInit, PTL DEF Spec

\* ... and only a rival on the same stream object takes a publication away.
THEOREM OnlyRivalsOust ==
  ASSUME MaxPublish = 1
  PROVE  Spec => []OustedOnlyByRival
<1>1. OwnerInv => OustedOnlyByRival
  BY DEF OwnerInv
<1>2. OwnerInv /\ [Next]_vars => OwnerInv'
  BY OwnerInvNext
<1>3. QED
  BY <1>1, <1>2, OwnerInvInit, PTL DEF Spec

-----------------------------------------------------------------------------
(* The poisoned name.  It needs that registered and held streams have been  *)
(* made, so that making another changes nothing of them.                    *)

Born(s) == typ[s] # "unborn"

NamesInv ==
  /\ \A n \in Names : registry[n] # NoStream => Born(registry[n])
  /\ \A c \in Conns : cur[c] # NoStream => Born(cur[c])
  /\ \A n \in Names : registry[n] # NoStream => nameOf[registry[n]] = n
  /\ \A c \in Conns : pc[c] = "create" => req[c].name \in Names

NamedInv == TypeInv /\ NamesInv

\* The invariant holds in the beginning.
LEMMA NamedInvInit == Init => NamedInv
  BY TypeInvInit, ConstantsAssumption DEF Init, NamedInv, NamesInv, Conns, Clients

\* Unpublishing keeps names.
LEMMA NamesUnpublish ==
  ASSUME NamedInv, NEW c \in Conns, NEW next \in {"idle", "shut", "remove"},
         UnpublishIfLive(c, next)
  PROVE  /\ NamesInv'
         /\ \A n \in Names : Poisoned(n) => Poisoned(n)'
<1> USE DEF NamedInv, TypeInv, TypeOK, NamesInv, Born, Conns, Clients
<1>1. /\ UNCHANGED <<typ, nameOf, registry, cur, req>>
      /\ \A d \in Conns : pc'[d] = "create" => pc[d] = "create"
  BY DEF UnpublishIfLive
<1>2. QED
  BY <1>1 DEF Poisoned

\* Every step keeps names.
LEMMA NamesNext ==
  ASSUME NamedInv, [Next]_vars
  PROVE  NamesInv' /\ \A n \in Names : Poisoned(n) => Poisoned(n)'
<1> DEFINE Goal == NamesInv' /\ \A n \in Names : Poisoned(n) => Poisoned(n)'
<1> USE ConstantsAssumption DEF NamedInv, TypeInv, TypeOK, HoldsStream, NamesInv, Born,
        Conns, Clients
<1>1. ASSUME NEW c \in Conns, NEW m \in Names, Play(c, m) PROVE Goal
  BY <1>1 DEF Play, Poisoned
<1>2. ASSUME NEW c \in Conns, NEW m \in Names, NEW t \in Types, Publish(c, m, t)
      PROVE Goal
  <2>1. NamesInv'
    BY <1>2 DEF Publish
  <2>2. ASSUME NEW n \in Names, Poisoned(n) PROVE Poisoned(n)'
    BY <1>2, <2>2 DEF Publish, Poisoned
  <2>3. QED
    BY <2>1, <2>2
<1>3. ASSUME NEW c \in Conns, CloseStream(c) PROVE Goal
  BY <1>3, NamesUnpublish DEF CloseStream
<1>4. ASSUME NEW c \in Conns, DeleteStream(c) PROVE Goal
  BY <1>4, NamesUnpublish DEF DeleteStream
<1>5. ASSUME NEW c \in Conns, Close(c) PROVE Goal
  BY <1>5, NamesUnpublish DEF Close
<1>6. ASSUME NEW c \in Conns, CreateStream(c) PROVE Goal
  <2>1. PICK s \in Streams :
          /\ typ[s] = "unborn"
          /\ typ' = [typ EXCEPT ![s] = req[c].type]
          /\ nameOf' = [nameOf EXCEPT ![s] = req[c].name]
          /\ registry' = [registry EXCEPT ![req[c].name] = s]
          /\ \/ Goto(c, "idle") /\ UNCHANGED cur
             \/ cur' = [cur EXCEPT ![c] = s] /\ Goto(c, "check")
    BY <1>6 DEF CreateStream
  <2>2. req' = [req EXCEPT ![c] = NoReq] /\ pc[c] = "create"
    BY <1>6 DEF CreateStream
  <2>3. req[c].type # "unborn" /\ req[c].name \in Names
    BY <2>2
  <2>4. NamesInv'
    BY <2>1, <2>2, <2>3
  <2>5. ASSUME NEW n \in Names, Poisoned(n) PROVE Poisoned(n)'
    <3>1. req[c].name # n
      BY <2>2, <2>5 DEF Poisoned
    <3>2. registry'[n] = registry[n] /\ registry[n] # s /\ typ'[registry[n]] = "untyped"
      BY <2>1, <2>5, <3>1 DEF Poisoned
    <3>3. \A d \in Conns : cur'[d] # NoStream =>
            typ'[cur'[d]] = "untyped" \/ nameOf'[cur'[d]] # n
      BY <2>1, <2>5, <3>1 DEF Poisoned
    <3>4. \A d \in Conns : ~(pc'[d] = "create" /\ req'[d].name = n)
      BY <2>1, <2>2, <2>5 DEF Poisoned
    <3>5. QED
      BY <2>5, <3>2, <3>3, <3>4 DEF Poisoned
  <2>6. QED
    BY <2>4, <2>5
<1>7. ASSUME NEW c \in Conns, CheckPublisher(c) PROVE Goal
  BY <1>7 DEF CheckPublisher, Poisoned
<1>8. ASSUME NEW c \in Conns, SetPublisher(c) PROVE Goal
  <2>1. /\ UNCHANGED <<typ, nameOf, registry, cur, req>>
        /\ \A d \in Conns : pc'[d] = "create" => pc[d] = "create"
    BY <1>8 DEF SetPublisher
  <2>2. QED
    BY <2>1 DEF Poisoned
<1>9. ASSUME NEW c \in Conns, UnpublishAppend(c) PROVE Goal
  BY <1>9, NamesUnpublish DEF UnpublishAppend
<1>10. ASSUME NEW c \in Conns, Evict(c) PROVE Goal
  <2>1. /\ UNCHANGED <<typ, nameOf, registry, cur, req>>
        /\ \A d \in Conns : pc'[d] = "create" => pc[d] = "create"
    BY <1>10 DEF Evict
  <2>2. QED
    BY <2>1 DEF Poisoned
<1>11. ASSUME NEW c \in Conns, EvictThrows(c) PROVE Goal
  BY <1>11 DEF EvictThrows, Poisoned
<1>12. ASSUME NEW c \in Conns, RemoveStream(c) PROVE Goal
  <2>1. NamesInv'
    BY <1>12 DEF RemoveStream
  <2>2. ASSUME NEW n \in Names, Poisoned(n) PROVE Poisoned(n)'
    <3>1. registry'[n] = registry[n]
      BY <1>12, <2>2 DEF RemoveStream, Poisoned
    <3>2. QED
      BY <1>12, <2>2, <3>1 DEF RemoveStream, Poisoned
  <2>3. QED
    BY <2>1, <2>2
<1>13. ASSUME NEW v \in Viewers, NEW m \in Names, HttpGet(v, m) PROVE Goal
  BY <1>13 DEF HttpGet, Poisoned
<1>14. ASSUME NEW v \in Viewers, HttpRefuse(v) \/ CloseViewer(v) PROVE Goal
  BY <1>14 DEF HttpRefuse, CloseViewer, Poisoned
<1>15. ASSUME NEW x \in Clients, JoinGroup(x) \/ PeerLost(x) PROVE Goal
  BY <1>15 DEF JoinGroup, PeerLost, Poisoned
<1>16. CASE UNCHANGED vars
  BY <1>16 DEF vars, Poisoned
<1>17. QED
  BY <1>1, <1>2, <1>3, <1>4, <1>5, <1>6, <1>7, <1>8, <1>9, <1>10, <1>11, <1>12,
     <1>13, <1>14, <1>15, <1>16 DEF Next, Command, HandlerStep

\* A name that a play takes first is lost to publishers for good, with any
\* number of connections and commands.
THEOREM PlayPoisonsName == Spec => PoisonedStays
<1>1. NamedInv /\ [Next]_vars => NamedInv'
  BY TypeInvNext, NamesNext DEF NamedInv
<1>2. NamedInv /\ [Next]_vars => [\A n \in Names : Poisoned(n) => Poisoned(n)']_vars
  BY NamesNext
<1>3. QED
  BY <1>1, <1>2, NamedInvInit, PTL DEF Spec, PoisonedStays
=============================================================================
