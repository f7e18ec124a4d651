---------------------------- MODULE LoadersProofs -----------------------------
(***************************************************************************)
(* Every loader of the web player keeps the contract IOController relies    *)
(* on, for any resource, any start and any ranges: the refinement of        *)
(* LoaderContract by Loaders, step by step.                                 *)
(***************************************************************************)
EXTENDS Loaders, TLAPS

Verdicts == {"error", "complete"}

TypeInv ==
  /\ kind \in Kinds
  /\ status \in {"idle", "connecting", "buffering"} \cup Verdicts
  /\ bound \in BOOLEAN /\ requestAbort \in BOOLEAN /\ wait \in BOOLEAN
  /\ stopped \in BOOLEAN /\ filesize \in BOOLEAN
  /\ from \in Starts
  /\ contentLength \in {Unknown, Total - from, 0 - from}
  /\ received \in Nat
  /\ net \in [state: {"none", "sent", "body", "refused", "closing", "closed", "ending"},
              left: Nat]
  /\ log \subseteq {"data"} \cup Verdicts

Idle == net.state = "none"

\* Completion is said by a request that is over, of a file that is whole; a
\* loader that is still to be opened has neither said nor taken anything.
CommonInv ==
  /\ "complete" \in log => Idle
  /\ bound /\ status = "idle" /\ ~stopped => log = {} /\ received = 0 /\ contentLength = Unknown

\* The bytes still to come are the rest of the resource.
Rest == received + net.left = Total - from

\* A fetch that is out after an abort or a destroy knows that it is to stop.
FetchInv ==
  kind = "fetch" =>
    /\ net.state \in {"none", "sent", "body"}
    /\ requestAbort /\ bound => stopped
    /\ net.state = "sent" => received = 0 /\ contentLength = Unknown
    /\ ~Idle => /\ Rest
                /\ bound => Working
                /\ stopped \/ ~bound => requestAbort

\* An open socket belongs to a loader that was not stopped.
WsInv ==
  kind = "ws" =>
    /\ net.state \in {"none", "sent", "body", "refused", "closing", "closed"}
    /\ net.state \in {"sent", "body"} => bound /\ ~stopped
    /\ ~Idle /\ bound => status # "idle"

\* An xhr is out only for a loader that was not stopped.
MozInv ==
  kind = "moz" =>
    /\ net.state \in {"none", "sent", "body", "ending"}
    /\ net.state = "ending" => status = "error"
    /\ ~Idle => bound /\ ~stopped /\ status # "idle" /\ Rest

\* A range that is out has bytes to bring, and none past the end.
RangeInv ==
  kind = "range" =>
    /\ net.state \in {"none", "sent", "body"}
    /\ net.state = "sent" => status # "error"
    /\ ~Idle => /\ bound /\ ~stopped /\ status # "idle"
                /\ "error" \in log => status = "error"
                /\ net.left > 0
                /\ from + received < Total
                /\ wait => received = 0 /\ contentLength = Unknown
                /\ ~wait => from + received + net.left <= Total

KindInv == FetchInv /\ WsInv /\ MozInv /\ RangeInv

IInv == TypeInv /\ CommonInv /\ KindInv /\ CompleteIsAll


-----------------------------------------------------------------------------
(* What an event says. *)

\* The callbacks of an event are made only while they are set.
Heard(calls, kinds) ==
  /\ said' = IF bound THEN calls ELSE said
  /\ log' = IF bound THEN log \cup kinds ELSE log
  /\ stopped' = stopped

\* A failure is an error callback and nothing else.
LEMMA SayFailed ==
  ASSUME NEW type, Say(<<C!Failed(type)>>)
  PROVE  Heard(<<C!Failed(type)>>, {"error"})
<1> DEFINE calls == <<C!Failed(type)>>
<1>1. {calls[i].call : i \in DOMAIN calls} = {"error"}
  BY DEF C!Failed
<1>2. QED
  BY <1>1 DEF Say, Heard

\* Data is a data callback and nothing else.
LEMMA SayData ==
  ASSUME NEW at, NEW n, Say(<<C!Data(at, n)>>)
  PROVE  Heard(<<C!Data(at, n)>>, {"data"})
<1> DEFINE calls == <<C!Data(at, n)>>
<1>1. {calls[i].call : i \in DOMAIN calls} = {"data"}
  BY DEF C!Data
<1>2. QED
  BY <1>1 DEF Say, Heard

\* Completion is a complete callback and nothing else.
LEMMA SayCompleted ==
  ASSUME NEW at, NEW n, Say(<<C!Completed(at, n)>>)
  PROVE  Heard(<<C!Completed(at, n)>>, {"complete"})
<1> DEFINE calls == <<C!Completed(at, n)>>
<1>1. {calls[i].call : i \in DOMAIN calls} = {"complete"}
  BY DEF C!Completed
<1>2. QED
  BY <1>1 DEF Say, Heard

\* The last bytes and the completion may be said by one event.
LEMMA SayDataCompleted ==
  ASSUME NEW at, NEW n, NEW from_, NEW m, Say(<<C!Data(at, n), C!Completed(from_, m)>>)
  PROVE  Heard(<<C!Data(at, n), C!Completed(from_, m)>>, {"data", "complete"})
<1> DEFINE calls == <<C!Data(at, n), C!Completed(from_, m)>>
<1>1. DOMAIN calls = {1, 2} /\ calls[1].call = "data" /\ calls[2].call = "complete"
  BY DEF C!Data, C!Completed
<1>2. {calls[i].call : i \in DOMAIN calls} = {"data", "complete"}
  BY <1>1
<1>3. QED
  BY <1>2 DEF Say, Heard

-----------------------------------------------------------------------------
(* The invariant is inductive. *)

USE DEF Kinds, Unknown, NoRequest, Verdicts, Idle, Silent, own, Sent, Become, Working, Take

\* The invariant holds in the beginning.
LEMMA InitIInv == Init => IInv
<1> SUFFICES ASSUME Init PROVE IInv
  OBVIOUS
<1> USE LoadersAssumption DEF Init
<1>1. TypeInv
 <2>1. kind \in Kinds /\ status = "idle" /\ bound \in BOOLEAN /\ requestAbort \in BOOLEAN /\ wait \in BOOLEAN /\ stopped \in BOOLEAN
   OBVIOUS
 <2>2. filesize \in BOOLEAN
   OBVIOUS
 <2>3. net \in [state: {"none", "sent", "body", "refused", "closing", "closed", "ending"},
              left: Nat]
   OBVIOUS
 <2>4. QED BY <2>1, <2>2, <2>3 DEF TypeInv
<1>2. CommonInv
  BY DEF CommonInv
<1>3. KindInv
  BY DEF KindInv, FetchInv, WsInv, MozInv, RangeInv
<1>4. CompleteIsAll
  BY DEF CompleteIsAll
<1>5. QED
  BY <1>1, <1>2, <1>3, <1>4 DEF IInv

\* The events of a fetch keep the invariant.
LEMMA FetchIInv ==
  ASSUME IInv, FetchOpen \/ FetchResponse \/ FetchRejected \/ FetchRead \/ FetchDone
               \/ FetchReadFailed
  PROVE  IInv'
<1> USE LoadersAssumption DEF IInv, TypeInv, CommonInv, KindInv, FetchInv, WsInv, MozInv,
        RangeInv, CompleteIsAll, Rest
<1>1. CASE FetchOpen
  BY <1>1 DEF FetchOpen
<1>2. CASE FetchResponse
  <2>1. CASE requestAbort
    <3>1. /\ status' = "idle" /\ net' = NoRequest /\ requestAbort' = FALSE
          /\ UNCHANGED <<own, bound, received, wait, said, log, stopped, contentLength>>
      BY <1>2, <2>1 DEF FetchResponse
    <3>2. TypeInv'
      BY <3>1
    <3>3. CommonInv' /\ CompleteIsAll'
      BY <1>2, <2>1, <3>1 DEF FetchResponse
    <3>4. KindInv'
      BY <1>2, <2>1, <3>1 DEF FetchResponse
    <3>5. QED
      BY <3>2, <3>3, <3>4
  <2>2. CASE net' = [net EXCEPT !.state = "body"] /\ ~requestAbort /\ Silent
    BY <1>2, <2>2 DEF FetchResponse
  <2>3. CASE /\ status' = "error" /\ net' = NoRequest /\ Say(<<C!Failed("http_status")>>)
             /\ UNCHANGED <<requestAbort, contentLength>>
    <3>1. Heard(<<C!Failed("http_status")>>, {"error"})
      BY <2>3, SayFailed
    <3>2. /\ kind = "fetch" /\ net.state = "sent"
          /\ UNCHANGED <<own, bound, received, wait>>
      BY <1>2 DEF FetchResponse
    <3>3. QED
      BY <2>3, <3>1, <3>2 DEF Heard
  <2>4. QED
    BY <1>2, <2>1, <2>2, <2>3 DEF FetchResponse
<1>3. CASE FetchRejected
  BY <1>3, SayFailed DEF FetchRejected, Heard
<1>4. CASE FetchRead
  <2>1. PICK n \in 1 .. net.left :
          IF requestAbort
          THEN requestAbort' = FALSE /\ status' = "complete" /\ net' = NoRequest /\ Silent
               /\ UNCHANGED received
          ELSE status' = "buffering" /\ Take(n) /\ Say(<<C!Data(At, n)>>)
               /\ UNCHANGED requestAbort
    BY <1>4 DEF FetchRead
  <2>2. CASE requestAbort
    <3>1. /\ kind = "fetch" /\ net.state = "body"
          /\ status' = "complete" /\ net' = NoRequest /\ requestAbort' = FALSE
          /\ UNCHANGED <<own, bound, received, wait, said, log, stopped, contentLength>>
      BY <1>4, <2>1, <2>2 DEF FetchRead
    <3>2. TypeInv'
      BY <3>1
    <3>3. QED
      BY <2>2, <3>1, <3>2
  <2>3. CASE ~requestAbort
    <3>1. Heard(<<C!Data(At, n)>>, {"data"})
      BY <2>1, <2>3, SayData
    <3>2. /\ net' = [net EXCEPT !.left = @ - n] /\ net.left - n \in Nat
          /\ received' = received + n /\ received' \in Nat
      BY <2>1, <2>3
    <3>3. QED
      BY <1>4, <2>1, <2>3, <3>1, <3>2 DEF FetchRead, Heard
  <2>4. QED
    BY <2>2, <2>3
<1>5. CASE FetchDone
  <2>1. CASE Missing
    BY <1>5, <2>1, SayFailed DEF FetchDone, Heard
  <2>2. CASE ~Missing
    <3>1. Heard(<<C!Completed(from, received)>>, {"complete"})
      BY <1>5, <2>2, SayCompleted DEF FetchDone
    <3>2. contentLength > 0 => contentLength = Total - from /\ received = contentLength
      BY <1>5, <2>2 DEF FetchDone, Missing
    <3>3. QED
      BY <1>5, <2>2, <3>1, <3>2 DEF FetchDone, Heard
  <2>3. QED
    BY <2>1, <2>2
<1>6. CASE FetchReadFailed
  <2>1. PICK type : Say(<<C!Failed(type)>>)
    BY <1>6 DEF FetchReadFailed
  <2>2. Heard(<<C!Failed(type)>>, {"error"})
    BY <2>1, SayFailed
  <2>3. QED
    BY <1>6, <2>2 DEF FetchReadFailed, Heard
<1>7. QED
  BY <1>1, <1>2, <1>3, <1>4, <1>5, <1>6

\* The events of a web socket keep the invariant.
LEMMA WsIInv ==
  ASSUME IInv, WsOpen \/ OnWebSocketOpen \/ OnWebSocketMessage \/ OnWebSocketError
               \/ OnWebSocketClose
  PROVE  IInv'
<1> USE LoadersAssumption DEF IInv, TypeInv, CommonInv, KindInv, FetchInv, WsInv, MozInv,
        RangeInv, CompleteIsAll, Rest
<1>1. CASE WsOpen
  <2>1. CASE status' = "connecting" /\ net' = Sent(Total) /\ Silent
    BY <1>1, <2>1 DEF WsOpen
  <2>2. CASE status' = "error" /\ UNCHANGED net /\ Say(<<C!Failed("exception")>>)
    BY <1>1, <2>2, SayFailed DEF WsOpen, Heard
  <2>3. QED
    BY <1>1, <2>1, <2>2 DEF WsOpen
<1>2. CASE OnWebSocketOpen
  BY <1>2 DEF OnWebSocketOpen
<1>3. CASE OnWebSocketMessage
  <2>1. CASE \E n \in 1 .. net.left : Take(n) /\ Say(<<C!Data(At, n)>>)
    <3>1. PICK n \in 1 .. net.left : Take(n) /\ Say(<<C!Data(At, n)>>)
      BY <2>1
    <3>2. Heard(<<C!Data(At, n)>>, {"data"})
      BY <3>1, SayData
    <3>3. /\ net' = [net EXCEPT !.left = @ - n] /\ net.left - n \in Nat
          /\ received' \in Nat
      BY <3>1
    <3>4. QED
      BY <1>3, <3>2, <3>3 DEF OnWebSocketMessage, Heard
  <2>2. CASE status' = "error" /\ Say(<<C!Failed("exception")>>) /\ UNCHANGED <<net, received>>
    BY <1>3, <2>2, SayFailed DEF OnWebSocketMessage, Heard
  <2>3. QED
    BY <1>3, <2>1, <2>2 DEF OnWebSocketMessage
<1>4. CASE OnWebSocketError
  BY <1>4, SayFailed DEF OnWebSocketError, Heard
<1>5. CASE OnWebSocketClose
  <2>1. CASE requestAbort
    <3>1. /\ kind = "ws" /\ net' = NoRequest /\ requestAbort' = FALSE
          /\ UNCHANGED <<own, status, bound, contentLength, received, wait, said, log, stopped>>
      BY <1>5, <2>1 DEF OnWebSocketClose
    <3>2. TypeInv'
      BY <3>1
    <3>3. QED
      BY <3>1, <3>2
  <2>2. CASE ~requestAbort
    <3>1. Heard(<<C!Completed(0, received)>>, {"complete"})
      BY <1>5, <2>2, SayCompleted DEF OnWebSocketClose
    <3>2. QED
      BY <1>5, <2>2, <3>1 DEF OnWebSocketClose, Heard
  <2>3. QED
    BY <2>1, <2>2
<1>6. QED
  BY <1>1, <1>2, <1>3, <1>4, <1>5

\* The events of a chunked xhr keep the invariant.
LEMMA MozIInv ==
  ASSUME IInv, MozOpen \/ MozHeaders \/ MozProgress \/ MozError \/ MozLoadEnd
  PROVE  IInv'
<1> USE LoadersAssumption DEF IInv, TypeInv, CommonInv, KindInv, FetchInv, WsInv, MozInv,
        RangeInv, CompleteIsAll, Rest
<1>1. CASE MozOpen
  BY <1>1 DEF MozOpen
<1>2. CASE MozHeaders
  <2>1. CASE status' = "buffering" /\ Silent
    BY <1>2, <2>1 DEF MozHeaders
  <2>2. CASE status' = "error" /\ Say(<<C!Failed("http_status")>>)
    BY <1>2, <2>2, SayFailed DEF MozHeaders, Heard
  <2>3. QED
    BY <1>2, <2>1, <2>2 DEF MozHeaders
<1>3. CASE MozProgress
  <2>1. PICK n \in 1 .. net.left : Take(n) /\ Say(<<C!Data(At, n)>>)
    BY <1>3 DEF MozProgress
  <2>2. Heard(<<C!Data(At, n)>>, {"data"})
    BY <2>1, SayData
  <2>3. /\ net' = [net EXCEPT !.left = @ - n] /\ net.left - n \in Nat
        /\ received' = received + n /\ received' \in Nat
    BY <2>1
  <2>4. contentLength' \in {Unknown, Total - from, 0 - from}
    BY <1>3 DEF MozProgress
  <2>5. QED
    BY <1>3, <2>2, <2>3, <2>4 DEF MozProgress, Heard
<1>4. CASE MozError
  <2>1. PICK type : Say(<<C!Failed(type)>>)
    BY <1>4 DEF MozError
  <2>2. Heard(<<C!Failed(type)>>, {"error"})
    BY <2>1, SayFailed
  <2>3. QED
    BY <1>4, <2>2 DEF MozError, Heard
<1>5. CASE MozLoadEnd
  <2>1. CASE requestAbort \/ status = "error"
    <3>1. /\ kind = "moz" /\ net' = NoRequest /\ requestAbort' = FALSE
          /\ UNCHANGED <<own, status, bound, contentLength, received, wait, said, log, stopped>>
      BY <1>5, <2>1 DEF MozLoadEnd
    <3>2. TypeInv'
      BY <3>1
    <3>3. QED
      BY <3>1, <3>2
  <2>2. CASE ~(requestAbort \/ status = "error")
    <3>1. Heard(<<C!Completed(from, received)>>, {"complete"})
      BY <1>5, <2>2, SayCompleted DEF MozLoadEnd
    <3>2. net.left = 0 \/ contentLength = Unknown
      BY <1>5, <2>2 DEF MozLoadEnd
    <3>3. contentLength > 0 => contentLength = Total - from /\ received = contentLength
      BY <1>5, <3>2 DEF MozLoadEnd
    <3>4. QED
      BY <1>5, <2>2, <3>1, <3>3 DEF MozLoadEnd, Heard
  <2>3. QED
    BY <2>1, <2>2
<1>6. QED
  BY <1>1, <1>2, <1>3, <1>4, <1>5

\* A sub-range that starts before the end has bytes, and none past the end.
LEMMA SubRangeInside ==
  ASSUME from \in Starts, NEW got \in Nat, from + got < Total,
         NEW size \in ChunkSizes, NEW length \in {Unknown, Total - from, 0 - from}
  PROVE  LET sent == SubRange(got, length, size)
         IN  /\ sent \in [state: {"sent"}, left: Nat]
             /\ sent.state = "sent" /\ sent.left > 0
             /\ from + got + sent.left <= Total
<1> DEFINE to == IF length # Unknown /\ got + size >= length
                 THEN from + length - 1 ELSE from + got + size
           end == IF to = -1 THEN Total ELSE Smaller(to + 1, Total)
           left == end - (from + got)
<1>1. from \in Nat /\ size \in Nat /\ size > 0 /\ Total \in Nat /\ got \in Nat
  BY LoadersAssumption
<1>2. to \in Int /\ (to = -1 \/ to + 1 > from + got)
  BY <1>1
<1>3. left \in Nat /\ left > 0 /\ from + got + left <= Total
  BY <1>1, <1>2 DEF Smaller
<1>4. SubRange(got, length, size) = [state |-> "sent", left |-> left]
  BY DEF SubRange
<1>5. QED
  BY <1>3, <1>4

\* The events of a range keep the invariant.
LEMMA RangeIInv ==
  ASSUME IInv, RangeOpen \/ RangeHeaders \/ RangeProgress \/ RangeLoad \/ RangeError
  PROVE  IInv'
<1> USE LoadersAssumption DEF IInv, TypeInv, CommonInv, KindInv, FetchInv, WsInv, MozInv,
        RangeInv, CompleteIsAll, Rest
<1>1. CASE RangeOpen
  <2>1. CASE filesize
    <3>1. PICK size \in ChunkSizes : net' = SubRange(0, Unknown, size)
      BY <1>1, <2>1 DEF RangeOpen
    <3>2. from \in Starts /\ from + 0 < Total
      OBVIOUS
    <3>3. /\ net' \in [state: {"sent"}, left: Nat] /\ net'.state = "sent" /\ net'.left > 0
          /\ from + net'.left <= Total
      BY <3>1, <3>2, SubRangeInside
    <3>4. wait' \in BOOLEAN /\ ~wait'
      BY <1>1, <2>1 DEF RangeOpen
    <3>5. QED
      BY <1>1, <3>2, <3>3, <3>4 DEF RangeOpen
  <2>2. CASE ~filesize
    <3>1. net' = Sent(Total) /\ wait' \in BOOLEAN /\ wait'
      BY <1>1, <2>2 DEF RangeOpen
    <3>2. QED
      BY <1>1, <3>1 DEF RangeOpen
  <2>3. QED
    BY <2>1, <2>2
<1>2. CASE RangeHeaders
  <2>1. CASE status' = (IF wait THEN status ELSE "buffering") /\ Silent
    <3>1. status' \in {status, "buffering"} /\ wait' = wait
      BY <1>2, <2>1 DEF RangeHeaders
    <3>2. QED
      BY <1>2, <2>1, <3>1 DEF RangeHeaders
  <2>2. CASE status' = "error" /\ Say(<<C!Failed("http_status")>>)
    BY <1>2, <2>2, SayFailed DEF RangeHeaders, Heard
  <2>3. QED
    BY <1>2, <2>1, <2>2 DEF RangeHeaders
<1>3. CASE RangeProgress
  <2>1. wait' \in BOOLEAN /\ ~wait'
    BY <1>3 DEF RangeProgress
  <2>2. CASE wait
    <3>1. PICK total \in {0, Total}, size \in ChunkSizes :
            contentLength' = total - from /\ net' = SubRange(0, total - from, size)
      BY <1>3, <2>2 DEF RangeProgress
    <3>2. from \in Starts /\ from + 0 < Total /\ received = 0
      BY <1>3, <2>2 DEF RangeProgress
    <3>3. /\ net' \in [state: {"sent"}, left: Nat] /\ net'.state = "sent" /\ net'.left > 0
          /\ from + net'.left <= Total
      BY <3>1, <3>2, SubRangeInside
    <3>4. QED
      BY <1>3, <2>1, <3>2, <3>3 DEF RangeProgress
  <2>3. CASE ~wait
    BY <1>3, <2>1, <2>3 DEF RangeProgress
  <2>4. QED
    BY <2>2, <2>3
<1>4. CASE RangeLoad
  <2>1. PICK n \in 1 .. net.left :
          /\ received' = received + n
          /\ \/ /\ received + n < contentLength
                /\ \E size \in ChunkSizes : net' = SubRange(received + n, contentLength, size)
                /\ Say(<<C!Data(At, n)>>)
                /\ UNCHANGED status
             \/ /\ received + n >= contentLength
                /\ net' = NoRequest
                /\ Say(<<C!Data(At, n), C!Completed(from, received + n)>>)
                /\ status' = "complete"
    BY <1>4 DEF RangeLoad
  <2>2. /\ kind = "range" /\ net.state = "body" /\ status # "error" /\ ~wait
        /\ contentLength \in {Total - from, 0 - from}
        /\ UNCHANGED <<own, bound, requestAbort, contentLength, wait>>
    BY <1>4 DEF RangeLoad
  <2>3. received' \in Nat /\ from + received' <= Total
    BY <2>1, <2>2
  <2>4. CASE received + n < contentLength
    <3>1. PICK size \in ChunkSizes : net' = SubRange(received', contentLength, size)
      BY <2>1, <2>4
    <3>2. from \in Starts /\ from + received' < Total
      <4>1. from \in Nat /\ Total \in Nat
        OBVIOUS
      <4>2. contentLength = Total - from
        BY <2>1, <2>2, <2>3, <2>4, <4>1
      <4>3. QED
        BY <2>1, <2>3, <2>4, <4>1, <4>2
    <3>3. /\ net' \in [state: {"sent"}, left: Nat] /\ net'.state = "sent" /\ net'.left > 0
          /\ from + received' + net'.left <= Total
      <4>1. contentLength \in {Unknown, Total - from, 0 - from}
        BY <2>2
      <4>2. QED
        BY ONLY <2>3, <3>1, <3>2, <4>1, SubRangeInside
    <3>4. Heard(<<C!Data(At, n)>>, {"data"}) /\ status' = status
      BY <2>1, <2>2, <2>4, SayData
    <3>5. QED
      BY <2>2, <2>3, <3>2, <3>3, <3>4 DEF Heard
  <2>5. CASE received + n >= contentLength
    <3>1. Heard(<<C!Data(At, n), C!Completed(from, received + n)>>, {"data", "complete"})
      BY <2>1, <2>2, <2>5, SayDataCompleted
    <3>2. net' = NoRequest /\ status' = "complete"
      BY <2>1, <2>2, <2>5
    <3>3. contentLength > 0 => contentLength = Total - from /\ received' = contentLength
      BY <2>1, <2>2, <2>3, <2>5
    <3>4. QED
      BY <2>2, <2>3, <3>1, <3>2, <3>3 DEF Heard
  <2>6. QED
    BY <2>1, <2>4, <2>5
<1>5. CASE RangeError
  <2>1. PICK type : Say(<<C!Failed(type)>>)
    BY <1>5 DEF RangeError
  <2>2. Heard(<<C!Failed(type)>>, {"error"})
    BY <2>1, SayFailed
  <2>3. QED
    BY <1>5, <2>2 DEF RangeError, Heard
<1>6. QED
  BY <1>1, <1>2, <1>3, <1>4, <1>5

\* Telling a loader to stop keeps the invariant.
LEMMA StopIInv == IInv /\ (Abort \/ Destroy) => IInv'
<1> SUFFICES ASSUME IInv, Abort \/ Destroy PROVE IInv'
  OBVIOUS
<1> USE LoadersAssumption DEF IInv, TypeInv, CommonInv, KindInv, FetchInv, WsInv, MozInv,
        RangeInv, CompleteIsAll, Rest
<1>1. ASSUME AbortOf
      PROVE  /\ kind = "fetch" => requestAbort' /\ net' = net
             /\ kind = "ws" => net' = [net EXCEPT !.state = CASE @ = "sent" -> "refused"
                                                              [] @ = "body" -> "closing"
                                                              [] OTHER -> @]
             /\ kind \in {"moz", "range"} => net' = NoRequest
             /\ requestAbort' \in BOOLEAN
  BY <1>1 DEF AbortOf, FetchAbort, WsAbort, MozAbort, RangeAbort
<1>2. CASE Abort
  BY <1>1, <1>2 DEF Abort
<1>3. CASE Destroy
  <2>1. /\ bound /\ bound' = FALSE /\ status' = "idle"
        /\ UNCHANGED <<own, contentLength, received, wait, said, log, stopped>>
    BY <1>3 DEF Destroy
  <2>2. CASE kind = "ws"
    <3>1. net' = [net EXCEPT !.state = CASE @ = "sent" -> "refused"
                                         [] @ = "body" -> "closing"
                                         [] OTHER -> @]
          /\ requestAbort' \in BOOLEAN
      BY <1>1, <1>3, <2>2 DEF Destroy
    <3>2. QED
      BY <2>1, <2>2, <3>1
  <2>3. CASE kind \in {"moz", "range"}
    <3>1. net' = NoRequest /\ requestAbort' \in BOOLEAN
      BY <1>1, <1>3, <2>3 DEF Destroy
    <3>2. QED
      BY <2>1, <2>3, <3>1
  <2>4. CASE kind = "fetch" /\ ~Working
    <3>1. UNCHANGED <<net, requestAbort>>
      BY <1>3, <2>4 DEF Destroy
    <3>2. QED
      BY <2>1, <2>4, <3>1
  <2>5. CASE kind = "fetch" /\ Working
    <3>1. UNCHANGED net /\ requestAbort' \in BOOLEAN /\ requestAbort'
      BY <1>1, <1>3, <2>5 DEF Destroy
    <3>2. QED
      BY <2>1, <2>5, <3>1
  <2>6. QED
    BY <2>2, <2>3, <2>4, <2>5
<1>4. QED
  BY <1>2, <1>3

\* Every step keeps the invariant.
LEMMA NextIInv == IInv /\ [Next]_vars => IInv'
<1> SUFFICES ASSUME IInv, [Next]_vars PROVE IInv'
  OBVIOUS
<1>1. CASE Open \/ Event
  BY <1>1, FetchIInv, WsIInv, MozIInv, RangeIInv DEF Open, Event
<1>2. CASE Abort \/ Destroy
  BY <1>2, StopIInv
<1>3. CASE UNCHANGED vars
  BY <1>3 DEF vars, IInv, TypeInv, CommonInv, KindInv, FetchInv, WsInv, MozInv,
        RangeInv, CompleteIsAll, Rest
<1>4. QED
  BY <1>1, <1>2, <1>3 DEF Next

\* A loader that knows how much there is never reports completion with bytes
\* missing: the end of a body is not taken for the end of the file.
THEOREM CompletionIsWhole == Spec => []CompleteIsAll
<1>1. IInv => CompleteIsAll
  BY DEF IInv
<1>2. QED
  BY <1>1, InitIInv, NextIInv, PTL DEF Spec

-----------------------------------------------------------------------------
(* The contract.  Each lemma maps one way an event may end to the step of    *)
(* the contract it is.                                                       *)

Keeps == UNCHANGED <<own, bound>>

USE DEF Keeps

\* An event that says nothing and neither opens nor resets the loader is a stutter.
LEMMA MapSilent ==
  ASSUME TypeInv, Keeps, Silent, received' = received,
         bound /\ ~stopped => (status = "idle" <=> status' = "idle")
  PROVE  UNCHANGED C!vars
  BY DEF C!vars, Phase, Base, TypeInv

\* After destroy an event that brings no bytes is a stutter.
LEMMA MapUnheard ==
  ASSUME ~bound, Keeps, received' = received, said' = said
  PROVE  UNCHANGED C!vars
  BY DEF C!vars, Phase, Base

\* A failure that is reported before completion is the failure of the contract.
LEMMA MapFail ==
  ASSUME TypeInv, bound, Keeps, NEW type \in {"early_eof", "http_status", "exception"},
         Heard(<<C!Failed(type)>>, {"error"}), received' = received, "complete" \notin log
  PROVE  C!Fail
  BY DEF C!Fail, Phase, Base, TypeInv, Heard

\* Bytes handed over by an open loader are labelled with their position.
LEMMA MapDeliver ==
  ASSUME TypeInv, bound, Keeps, NEW n \in Nat, n > 0,
         Heard(<<C!Data(At, n)>>, {"data"}), received' = received + n,
         "complete" \notin log, ~stopped, status # "idle", status' # "idle"
  PROVE  C!Deliver
<1>1. received' > received /\ received' - received = n
  BY DEF TypeInv
<1>2. At = Base + received
  BY LoadersAssumption DEF At, Base, TypeInv
<1>3. Phase \in {"open", "failed"} /\ Phase' = Phase
  BY DEF Phase, Heard
<1>4. Base' = Base
  BY DEF Base
<1>5. QED
  BY <1>1, <1>2, <1>3, <1>4 DEF C!Deliver, Heard

\* Completion is said once, of the position and the bytes the loader counted.
LEMMA MapComplete ==
  ASSUME TypeInv, bound, Keeps, Heard(<<C!Completed(Base, received)>>, {"complete"}),
         received' = received, "complete" \notin log, status # "idle"
  PROVE  C!Complete
  BY DEF C!Complete, Phase, Base, Heard

\* The last range says its bytes, then completion.
LEMMA MapLast ==
  ASSUME TypeInv, bound, Keeps, NEW n \in Nat, n > 0,
         Heard(<<C!Data(At, n), C!Completed(from, received')>>, {"data", "complete"}),
         received' = received + n, kind = "range",
         log \cap Verdicts = {}, ~stopped, status # "idle"
  PROVE  C!DeliverLast
<1>1. received' > received /\ received' - received = n
  BY DEF TypeInv
<1>2. At = Base + received /\ Base = from /\ Base' = Base
  BY LoadersAssumption DEF At, Base, TypeInv
<1>3. Phase = "open" /\ Phase' = "done"
  BY DEF Phase, Heard
<1>4. QED
  BY <1>1, <1>2, <1>3 DEF C!DeliverLast, Heard

\* Every event of a fetch is a step of the contract or a stutter.
LEMMA FetchMaps ==
  ASSUME IInv, FetchOpen \/ FetchResponse \/ FetchRejected \/ FetchRead \/ FetchDone
               \/ FetchReadFailed
  PROVE  C!Next \/ UNCHANGED C!vars
<1> USE DEF IInv, TypeInv, CommonInv, KindInv, FetchInv, CompleteIsAll
<1>1. CASE FetchOpen
  <2>1. Phase = "new" /\ Phase' = "open" /\ Base' = Base
    BY <1>1 DEF FetchOpen, Phase, Base
  <2>2. QED
    BY <1>1, <2>1 DEF FetchOpen, C!Open, C!Next
<1>2. CASE FetchResponse
  <2>1. CASE requestAbort
    BY <1>2, <2>1, MapSilent DEF FetchResponse
  <2>2. CASE net' = [net EXCEPT !.state = "body"] /\ ~requestAbort /\ Silent
    BY <1>2, <2>2, MapSilent DEF FetchResponse
  <2>3. CASE Say(<<C!Failed("http_status")>>)
    <3>1. Heard(<<C!Failed("http_status")>>, {"error"})
      BY <2>3, SayFailed
    <3>2. QED
      BY <1>2, <3>1, MapFail, MapUnheard DEF FetchResponse, Heard, C!Next
  <2>4. QED
    BY <1>2, <2>1, <2>2, <2>3 DEF FetchResponse
<1>3. CASE FetchRejected
  <2>1. Heard(<<C!Failed("exception")>>, {"error"})
    BY <1>3, SayFailed DEF FetchRejected
  <2>2. QED
    BY <1>3, <2>1, MapFail, MapUnheard DEF FetchRejected, Heard, C!Next
<1>4. CASE FetchRead
  <2>1. CASE requestAbort
    BY <1>4, <2>1, MapSilent DEF FetchRead
  <2>2. CASE ~requestAbort
    <3>1. PICK n \in 1 .. net.left : Take(n) /\ Say(<<C!Data(At, n)>>) /\ status' = "buffering"
      BY <1>4, <2>2 DEF FetchRead
    <3>2. Heard(<<C!Data(At, n)>>, {"data"})
      BY <3>1, SayData
    <3>3. n \in Nat /\ n > 0
      BY <3>1
    <3>4. bound /\ ~stopped /\ status # "idle" /\ "complete" \notin log /\ Keeps
      BY <1>4, <2>2 DEF FetchRead
    <3>5. QED
      BY <3>1, <3>2, <3>3, <3>4, MapDeliver DEF C!Next
  <2>3. QED
    BY <2>1, <2>2
<1>5. CASE FetchDone
  <2>1. CASE Missing
    <3>1. Heard(<<C!Failed("early_eof")>>, {"error"})
      BY <1>5, <2>1, SayFailed DEF FetchDone
    <3>2. QED
      BY <1>5, <3>1, MapFail, MapUnheard DEF FetchDone, Heard, C!Next
  <2>2. CASE ~Missing
    <3>1. Heard(<<C!Completed(Base, received)>>, {"complete"})
      BY <1>5, <2>2, SayCompleted DEF FetchDone, Base
    <3>2. QED
      BY <1>5, <3>1, MapComplete, MapUnheard DEF FetchDone, Heard, C!Next
  <2>3. QED
    BY <2>1, <2>2
<1>6. CASE FetchReadFailed
  <2>1. PICK type \in {"early_eof", "exception"} : Say(<<C!Failed(type)>>)
    BY <1>6 DEF FetchReadFailed
  <2>2. Heard(<<C!Failed(type)>>, {"error"})
    BY <2>1, SayFailed
  <2>3. QED
    BY <1>6, <2>2, MapFail, MapUnheard DEF FetchReadFailed, Heard, C!Next
<1>7. QED
  BY <1>1, <1>2, <1>3, <1>4, <1>5, <1>6

\* Every event of a web socket is a step of the contract or a stutter.
LEMMA WsMaps ==
  ASSUME IInv, WsOpen \/ OnWebSocketOpen \/ OnWebSocketMessage \/ OnWebSocketError
               \/ OnWebSocketClose
  PROVE  C!Next \/ UNCHANGED C!vars
<1> USE DEF IInv, TypeInv, CommonInv, KindInv, WsInv, CompleteIsAll
<1>1. CASE WsOpen
  <2>1. CASE status' = "connecting" /\ Silent
    <3>1. Phase = "new" /\ Phase' = "open" /\ Base' = Base
      BY <1>1, <2>1 DEF WsOpen, Phase, Base
    <3>2. QED
      BY <1>1, <2>1, <3>1 DEF WsOpen, C!Open, C!Next
  <2>2. CASE Say(<<C!Failed("exception")>>)
    <3>1. Heard(<<C!Failed("exception")>>, {"error"})
      BY <2>2, SayFailed
    <3>2. QED
      BY <1>1, <3>1, MapFail DEF WsOpen, Heard, C!Next
  <2>3. QED
    BY <1>1, <2>1, <2>2 DEF WsOpen
<1>2. CASE OnWebSocketOpen
  BY <1>2, MapSilent DEF OnWebSocketOpen
<1>3. CASE OnWebSocketMessage
  <2>1. CASE \E n \in 1 .. net.left : Take(n) /\ Say(<<C!Data(At, n)>>)
    <3>1. PICK n \in 1 .. net.left : Take(n) /\ Say(<<C!Data(At, n)>>)
      BY <2>1
    <3>2. Heard(<<C!Data(At, n)>>, {"data"})
      BY <3>1, SayData
    <3>3. n \in Nat /\ n > 0 /\ net'.state = "body"
      BY <1>3, <3>1 DEF OnWebSocketMessage
    <3>4. bound /\ ~stopped /\ status # "idle" /\ "complete" \notin log /\ Keeps
      BY <1>3 DEF OnWebSocketMessage
    <3>5. status' # "idle"
      BY <1>3, <3>4 DEF OnWebSocketMessage
    <3>6. QED
      BY <3>1, <3>2, <3>3, <3>4, <3>5, MapDeliver DEF C!Next
  <2>2. CASE Say(<<C!Failed("exception")>>) /\ UNCHANGED received
    <3>1. Heard(<<C!Failed("exception")>>, {"error"})
      BY <2>2, SayFailed
    <3>2. QED
      BY <1>3, <2>2, <3>1, MapFail DEF OnWebSocketMessage, C!Next
  <2>3. QED
    BY <1>3, <2>1, <2>2 DEF OnWebSocketMessage
<1>4. CASE OnWebSocketError
  <2>1. Heard(<<C!Failed("exception")>>, {"error"})
    BY <1>4, SayFailed DEF OnWebSocketError
  <2>2. QED
    BY <1>4, <2>1, MapFail, MapUnheard DEF OnWebSocketError, Heard, C!Next
<1>5. CASE OnWebSocketClose
  <2>1. CASE requestAbort
    BY <1>5, <2>1, MapSilent DEF OnWebSocketClose
  <2>2. CASE ~requestAbort
    <3>1. Heard(<<C!Completed(Base, received)>>, {"complete"})
      BY <1>5, <2>2, SayCompleted DEF OnWebSocketClose, Base
    <3>2. QED
      BY <1>5, <3>1, MapComplete, MapUnheard DEF OnWebSocketClose, Heard, C!Next
  <2>3. QED
    BY <2>1, <2>2
<1>6. QED
  BY <1>1, <1>2, <1>3, <1>4, <1>5

\* Every event of a chunked xhr is a step of the contract or a stutter.
LEMMA MozMaps ==
  ASSUME IInv, MozOpen \/ MozHeaders \/ MozProgress \/ MozError \/ MozLoadEnd
  PROVE  C!Next \/ UNCHANGED C!vars
<1> USE DEF IInv, TypeInv, CommonInv, KindInv, MozInv, CompleteIsAll
<1>1. CASE MozOpen
  <2>1. Phase = "new" /\ Phase' = "open" /\ Base' = Base
    BY <1>1 DEF MozOpen, Phase, Base
  <2>2. QED
    BY <1>1, <2>1 DEF MozOpen, C!Open, C!Next
<1>2. CASE MozHeaders
  <2>1. CASE status' = "buffering" /\ Silent
    BY <1>2, <2>1, MapSilent DEF MozHeaders
  <2>2. CASE Say(<<C!Failed("http_status")>>)
    <3>1. Heard(<<C!Failed("http_status")>>, {"error"})
      BY <2>2, SayFailed
    <3>2. QED
      BY <1>2, <3>1, MapFail DEF MozHeaders, C!Next
  <2>3. QED
    BY <1>2, <2>1, <2>2 DEF MozHeaders
<1>3. CASE MozProgress
  <2>1. PICK n \in 1 .. net.left : Take(n) /\ Say(<<C!Data(At, n)>>)
    BY <1>3 DEF MozProgress
  <2>2. Heard(<<C!Data(At, n)>>, {"data"})
    BY <2>1, SayData
  <2>3. n \in Nat /\ n > 0
    BY <2>1
  <2>4. bound /\ ~stopped /\ status # "idle" /\ "complete" \notin log /\ Keeps /\ status' = status
    BY <1>3 DEF MozProgress
  <2>5. QED
    BY <2>1, <2>2, <2>3, <2>4, MapDeliver DEF C!Next
<1>4. CASE MozError
  <2>1. PICK type \in {"early_eof", "exception"} : Say(<<C!Failed(type)>>)
    BY <1>4 DEF MozError
  <2>2. Heard(<<C!Failed(type)>>, {"error"})
    BY <2>1, SayFailed
  <2>3. QED
    BY <1>4, <2>2, MapFail DEF MozError, C!Next
<1>5. CASE MozLoadEnd
  <2>1. CASE requestAbort \/ status = "error"
    BY <1>5, <2>1, MapSilent DEF MozLoadEnd
  <2>2. CASE ~(requestAbort \/ status = "error")
    <3>1. Heard(<<C!Completed(Base, received)>>, {"complete"})
      BY <1>5, <2>2, SayCompleted DEF MozLoadEnd, Base
    <3>2. QED
      BY <1>5, <3>1, MapComplete DEF MozLoadEnd, C!Next
  <2>3. QED
    BY <2>1, <2>2
<1>6. QED
  BY <1>1, <1>2, <1>3, <1>4, <1>5

\* Every event of a range is a step of the contract or a stutter.
LEMMA RangeMaps ==
  ASSUME IInv, RangeOpen \/ RangeHeaders \/ RangeProgress \/ RangeLoad \/ RangeError
  PROVE  C!Next \/ UNCHANGED C!vars
<1> USE DEF IInv, TypeInv, CommonInv, KindInv, RangeInv, CompleteIsAll
<1>1. CASE RangeOpen
  <2>1. Phase = "new" /\ Phase' = "open" /\ Base' = Base
    BY <1>1 DEF RangeOpen, Phase, Base
  <2>2. QED
    BY <1>1, <2>1 DEF RangeOpen, C!Open, C!Next
<1>2. CASE RangeHeaders
  <2>1. CASE status' \in {status, "buffering"} /\ Silent
    BY <1>2, <2>1, MapSilent DEF RangeHeaders
  <2>2. CASE Say(<<C!Failed("http_status")>>)
    <3>1. Heard(<<C!Failed("http_status")>>, {"error"})
      BY <2>2, SayFailed
    <3>2. QED
      BY <1>2, <3>1, MapFail DEF RangeHeaders, C!Next
  <2>3. QED
    BY <1>2, <2>1, <2>2 DEF RangeHeaders
<1>3. CASE RangeProgress
  BY <1>3, MapSilent DEF RangeProgress
<1>4. CASE RangeLoad
  <2>1. PICK n \in 1 .. net.left :
          /\ received' = received + n
          /\ \/ /\ received + n < contentLength
                /\ Say(<<C!Data(At, n)>>)
                /\ UNCHANGED status
             \/ /\ received + n >= contentLength
                /\ Say(<<C!Data(At, n), C!Completed(from, received + n)>>)
                /\ status' = "complete"
    BY <1>4 DEF RangeLoad
  <2>2. /\ bound /\ ~stopped /\ status # "idle" /\ log \cap Verdicts = {}
        /\ Keeps /\ kind = "range" /\ n \in Nat /\ n > 0
    BY <1>4, <2>1 DEF RangeLoad
  <2>3. CASE received + n < contentLength
    <3>1. Heard(<<C!Data(At, n)>>, {"data"}) /\ status' = status
      BY <1>4, <2>1, <2>3, SayData DEF RangeLoad
    <3>2. QED
      BY <2>1, <2>2, <3>1, MapDeliver DEF C!Next
  <2>4. CASE received + n >= contentLength
    <3>1. Heard(<<C!Data(At, n), C!Completed(from, received')>>, {"data", "complete"})
      BY <1>4, <2>1, <2>4, SayDataCompleted DEF RangeLoad
    <3>2. QED
      BY <2>1, <2>2, <3>1, MapLast DEF C!Next
  <2>5. QED
    BY <2>1, <2>3, <2>4
<1>5. CASE RangeError
  <2>1. PICK type \in {"early_eof", "exception"} : Say(<<C!Failed(type)>>)
    BY <1>5 DEF RangeError
  <2>2. Heard(<<C!Failed(type)>>, {"error"})
    BY <2>1, SayFailed
  <2>3. QED
    BY <1>5, <2>2, MapFail DEF RangeError, C!Next
<1>6. QED
  BY <1>1, <1>2, <1>3, <1>4, <1>5

\* Telling a loader to stop is the contract's abort, its destroy, or nothing new.
LEMMA StopMaps ==
  ASSUME IInv, Abort \/ Destroy
  PROVE  C!Next \/ UNCHANGED C!vars
<1> USE DEF IInv, TypeInv, CommonInv
<1>1. CASE Abort
  <2>1. bound /\ bound' /\ status # "idle" /\ stopped' /\ UNCHANGED <<own, log, said, received>>
    BY <1>1 DEF Abort
  <2>2. Base' = Base
    BY <2>1 DEF Base
  <2>3. CASE "complete" \in log \/ stopped
    <3>1. Phase' = Phase
      BY <2>1, <2>3 DEF Phase
    <3>2. QED
      BY <2>1, <2>2, <3>1 DEF C!vars
  <2>4. CASE "complete" \notin log /\ ~stopped
    <3>1. Phase \in {"open", "failed"} /\ Phase' = "aborted"
      BY <2>1, <2>4 DEF Phase
    <3>2. QED
      BY <2>1, <2>2, <3>1 DEF C!Abort, C!Next
  <2>5. QED
    BY <2>3, <2>4
<1>2. CASE Destroy
  BY <1>2 DEF Destroy, C!Destroy, C!Next, Phase, Base
<1>3. QED
  BY <1>1, <1>2

\* A loader starts where the contract starts.
LEMMA InitMaps == Init => C!Init
<1> SUFFICES ASSUME Init PROVE C!Init
  OBVIOUS
<1>1. Phase = "new"
  BY DEF Init, Phase
<1>2. Base \in Nat
  BY LoadersAssumption DEF Init, Base
<1>3. QED
  BY <1>1, <1>2 DEF Init, C!Init

\* Every step of a loader is a step of the contract or a stutter.
LEMMA NextMaps == IInv /\ [Next]_vars => [C!Next]_(C!vars)
<1> SUFFICES ASSUME IInv, [Next]_vars PROVE C!Next \/ UNCHANGED C!vars
  OBVIOUS
<1>1. CASE Open \/ Event
  BY <1>1, FetchMaps, WsMaps, MozMaps, RangeMaps DEF Open, Event
<1>2. CASE Abort \/ Destroy
  BY <1>2, StopMaps
<1>3. CASE UNCHANGED vars
  BY <1>3 DEF vars, C!vars, Phase, Base
<1>4. QED
  BY <1>1, <1>2, <1>3 DEF Next

\* Every loader keeps the contract: bytes in order and truly labelled, none
\* after abort, completion last, silence after destroy.
THEOREM LoadersKeepContract == Spec => Contract
<1>1. Spec => []IInv
  BY InitIInv, NextIInv, PTL DEF Spec
<1>2. QED
  BY <1>1, InitMaps, NextMaps, PTL DEF Spec, Contract, C!Spec

=============================================================================
