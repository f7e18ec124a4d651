------------------------------ MODULE Loaders -------------------------------
(***************************************************************************)
(* The loaders of the web player (flv.js, src/io): FetchStreamLoader,      *)
(* WebSocketLoader, MozChunkedLoader and RangeLoader, each with the events *)
(* its browser interface delivers to it.  The browser, the connection and  *)
(* the server are the environment: any response may be refused, cut short  *)
(* or broken, with or without a Content-Length.  IOController selects the   *)
(* kind, opens the loader once, and may abort and destroy it between any   *)
(* two events.                                                             *)
(***************************************************************************)
EXTENDS Integers, Sequences

CONSTANTS
  Total,       \* bytes of the resource; of the stream, for a web socket
  Starts,      \* positions a request may start from
  ChunkSizes   \* sub-range sizes the measured speed may lead RangeLoader to

ASSUME LoadersAssumption ==
  /\ Total \in Nat \ {0}
  /\ Starts \subseteq 0 .. Total - 1
  /\ ChunkSizes \subseteq Nat \ {0}

Unknown == -1 - Total   \* null, which no length is
Kinds == {"fetch", "ws", "moz", "range"}

VARIABLES
  kind,           \* the loader class _selectLoader chose
  status,         \* _status
  bound,          \* the callbacks are set (destroy clears them)
  requestAbort,   \* _requestAbort
  from,           \* _range.from
  contentLength,  \* _contentLength
  received,       \* _receivedLength
  wait,           \* RangeLoader: _waitForTotalLength
  filesize,       \* dataSource.filesize is given
  net,            \* the browser's side of the request
  said,           \* the callbacks of the latest event
  log,            \* history: the kinds of callbacks made so far
  stopped         \* history: abort has been called

own == <<kind, from, filesize>>
history == <<log, stopped>>
vars == <<kind, status, bound, requestAbort, from, contentLength, received,
          wait, filesize, net, said, log, stopped>>

\* What the contract calls the loader's phase, and the position it counts from.
Phase ==
  CASE ~bound -> "destroyed"
    [] bound /\ "complete" \in log -> "done"
    [] bound /\ "complete" \notin log /\ stopped -> "aborted"
    [] OTHER -> IF "error" \in log THEN "failed"
                ELSE IF status = "idle" THEN "new" ELSE "open"

Base == IF kind = "ws" THEN 0 ELSE from

C == INSTANCE LoaderContract WITH phase <- Phase, base <- Base, got <- received

Working == status \in {"connecting", "buffering"}

\* A callback that is not set any more is not called.
Say(calls) ==
  /\ said' = IF bound THEN calls ELSE said
  /\ log'  = IF bound THEN log \cup {calls[i].call : i \in DOMAIN calls} ELSE log
  /\ UNCHANGED stopped

Silent == UNCHANGED <<said, log, stopped>>

NoRequest == [state |-> "none", left |-> 0]
Sent(bytes) == [state |-> "sent", left |-> bytes]

Become(s) == net' = [net EXCEPT !.state = s]
At == IF kind = "ws" THEN received ELSE from + received

Missing == contentLength # Unknown /\ received < contentLength

\* The bytes taken from the response are handed over.
Take(n) ==
  /\ net' = [net EXCEPT !.left = @ - n]
  /\ received' = received + n

Init ==
  /\ kind \in Kinds
  /\ from \in Starts
  /\ filesize \in (IF kind = "range" THEN BOOLEAN ELSE {FALSE})
  /\ status = "idle"
  /\ bound = TRUE
  /\ requestAbort = FALSE
  /\ contentLength = Unknown
  /\ received = 0
  /\ wait = FALSE
  /\ net = NoRequest
  /\ said = <<>>
  /\ log = {}
  /\ stopped = FALSE

-----------------------------------------------------------------------------
(* fetch *)

FetchOpen ==
  /\ kind = "fetch" /\ status = "idle" /\ net = NoRequest /\ bound /\ ~stopped
  /\ status' = "connecting"
  /\ net' = Sent(Total - from)
  /\ Silent
  /\ UNCHANGED <<own, bound, requestAbort, contentLength, received, wait>>

\* The promise of the response: an abort asked for meanwhile wins.
FetchResponse ==
  /\ kind = "fetch" /\ net.state = "sent"
  /\ \/ /\ requestAbort
        /\ requestAbort' = FALSE
        /\ status' = "idle"
        /\ net' = NoRequest
        /\ Silent
        /\ UNCHANGED contentLength
     \/ /\ ~requestAbort
        /\ \E length \in {Unknown, net.left} : contentLength' = length
        /\ Become("body")
        /\ Silent
        /\ UNCHANGED <<status, requestAbort>>
     \/ /\ ~requestAbort
        /\ status' = "error"
        /\ net' = NoRequest
        /\ Say(<<C!Failed("http_status")>>)
        /\ UNCHANGED <<requestAbort, contentLength>>
  /\ UNCHANGED <<own, bound, received, wait>>

\* No response at all: the rejection is reported, aborted or not.
FetchRejected ==
  /\ kind = "fetch" /\ net.state = "sent"
  /\ status' = "error"
  /\ net' = NoRequest
  /\ Say(<<C!Failed("exception")>>)
  /\ UNCHANGED <<own, bound, requestAbort, contentLength, received, wait>>

\* A chunk of the body; an abort is only noticed here.
FetchRead ==
  /\ kind = "fetch" /\ net.state = "body"
  /\ \E n \in 1 .. net.left :
       IF requestAbort
       THEN /\ requestAbort' = FALSE
            /\ status' = "complete"
            /\ net' = NoRequest
            /\ Silent
            /\ UNCHANGED received
       ELSE /\ status' = "buffering"
            /\ Take(n)
            /\ Say(<<C!Data(At, n)>>)
            /\ UNCHANGED requestAbort
  /\ UNCHANGED <<own, bound, contentLength, wait>>

\* Mutant of FetchDone: the end of the body is not compared with its length.
FetchDoneUnchecked ==
  /\ kind = "fetch" /\ net.state = "body"
  /\ net' = NoRequest
  /\ status' = "complete" /\ Say(<<C!Completed(from, received)>>)
  /\ UNCHANGED <<own, bound, requestAbort, contentLength, received, wait>>

\* The body ends, in full or early.
FetchDone ==
  /\ kind = "fetch" /\ net.state = "body"
  /\ net' = NoRequest
  /\ IF Missing
     THEN status' = "error" /\ Say(<<C!Failed("early_eof")>>)
     ELSE status' = "complete" /\ Say(<<C!Completed(from, received)>>)
  /\ UNCHANGED <<own, bound, requestAbort, contentLength, received, wait>>

\* Reading the body fails: of a broken connection, or for another reason.
FetchReadFailed ==
  /\ kind = "fetch" /\ net.state = "body"
  /\ net' = NoRequest
  /\ status' = "error"
  /\ \E network \in BOOLEAN :
       Say(<<C!Failed(IF network /\ (contentLength = Unknown \/ Missing)
                      THEN "early_eof" ELSE "exception")>>)
  /\ UNCHANGED <<own, bound, requestAbort, contentLength, received, wait>>

\* abort leaves the status to the promise
FetchAbort ==
  /\ requestAbort' = TRUE
  /\ UNCHANGED net

-----------------------------------------------------------------------------
(* web socket *)

WsOpen ==
  /\ kind = "ws" /\ status = "idle" /\ net = NoRequest /\ bound /\ ~stopped
  /\ \/ status' = "connecting" /\ net' = Sent(Total) /\ Silent
     \/ status' = "error" /\ UNCHANGED net /\ Say(<<C!Failed("exception")>>)
  /\ UNCHANGED <<own, bound, requestAbort, contentLength, received, wait>>

OnWebSocketOpen ==
  /\ kind = "ws" /\ net.state = "sent"
  /\ status' = "buffering"
  /\ Become("body")
  /\ Silent
  /\ UNCHANGED <<own, bound, requestAbort, contentLength, received, wait>>

\* A binary message is data whatever the status; a text message is an error
\* that leaves the socket open.
OnWebSocketMessage ==
  /\ kind = "ws" /\ net.state = "body"
  /\ \/ /\ \E n \in 1 .. net.left : Take(n) /\ Say(<<C!Data(At, n)>>)
        /\ UNCHANGED status
     \/ /\ status' = "error"
        /\ Say(<<C!Failed("exception")>>)
        /\ UNCHANGED <<net, received>>
  /\ UNCHANGED <<own, bound, requestAbort, contentLength, wait>>

\* The browser reports an error just before the closing it leads to; closing
\* a socket that is still connecting is such an error.
OnWebSocketError ==
  /\ kind = "ws" /\ net.state \in {"sent", "body", "refused"}
  /\ status' = "error"
  /\ Become("closed")
  /\ Say(<<C!Failed("exception")>>)
  /\ UNCHANGED <<own, bound, requestAbort, contentLength, received, wait>>

OnWebSocketClose ==
  /\ kind = "ws" /\ net.state \in {"body", "closing", "closed"}
  /\ net' = NoRequest
  /\ IF requestAbort
     THEN /\ requestAbort' = FALSE
          /\ Silent
          /\ UNCHANGED status
     ELSE /\ status' = "complete"
          /\ Say(<<C!Completed(0, received)>>)
          /\ UNCHANGED requestAbort
  /\ UNCHANGED <<own, bound, contentLength, received, wait>>

\* Only a socket that is connecting or open is closed, and remembered as such.
WsAbort ==
  /\ requestAbort' = (requestAbort \/ net.state \in {"sent", "body"})
  /\ net' = [net EXCEPT !.state = CASE @ = "sent" -> "refused"
                                    [] @ = "body" -> "closing"
                                    [] OTHER -> @]
-----------------------------------------------------------------------------
(* moz-chunked-arraybuffer *)

MozOpen ==
  /\ kind = "moz" /\ status = "idle" /\ net = NoRequest /\ bound /\ ~stopped
  /\ status' = "connecting"
  /\ net' = Sent(Total - from)
  /\ Silent
  /\ UNCHANGED <<own, bound, requestAbort, contentLength, received, wait>>

\* readyState 2 of a request that abort has not taken away.
MozHeaders ==
  /\ kind = "moz" /\ net.state = "sent"
  /\ Become("body")
  /\ \/ status' = "buffering" /\ Silent
     \/ status' = "error" /\ Say(<<C!Failed("http_status")>>)
  /\ UNCHANGED <<own, bound, requestAbort, contentLength, received, wait>>

MozProgress ==
  /\ kind = "moz" /\ net.state = "body" /\ status # "error"
  /\ contentLength' \in (IF received = 0 THEN {Unknown, Total - from} ELSE {contentLength})
  /\ \E n \in 1 .. net.left : Take(n) /\ Say(<<C!Data(At, n)>>)
  /\ UNCHANGED <<own, status, bound, requestAbort, wait>>

\* Mutant of MozError: the report is left to loadend.
MozErrorLater ==
  /\ kind = "moz" /\ net.state \in {"sent", "body"}
  /\ status' = "error"
  /\ Become("ending")
  /\ Silent
  /\ UNCHANGED <<own, bound, requestAbort, contentLength, received, wait>>

\* onerror, with loadend to follow
MozError ==
  /\ kind = "moz" /\ net.state \in {"sent", "body"}
  /\ status' = "error"
  /\ Become("ending")
  /\ Say(<<C!Failed(IF Missing THEN "early_eof" ELSE "exception")>>)
  /\ UNCHANGED <<own, bound, requestAbort, contentLength, received, wait>>

\* loadend, of a response that is complete or after an error
MozLoadEnd ==
  /\ kind = "moz"
  /\ \/ net.state = "ending"
     \/ net.state = "body" /\ (net.left = 0 \/ contentLength = Unknown \/ status = "error")
  /\ net' = NoRequest
  /\ IF requestAbort \/ status = "error"
     THEN /\ requestAbort' = FALSE
          /\ Silent
          /\ UNCHANGED status
     ELSE /\ status' = "complete"
          /\ Say(<<C!Completed(from, received)>>)
          /\ UNCHANGED requestAbort
  /\ UNCHANGED <<own, bound, contentLength, received, wait>>

\* Aborting the request in flight runs _onLoadEnd at once, which takes the
\* flag back.
MozAbort ==
  /\ requestAbort' = FALSE
  /\ net' = NoRequest

-----------------------------------------------------------------------------
(* ranges, one request each; the first may only ask for the total length.  *)
(* A server that does not tell it leaves _totalLength null, and null less  *)
(* the start is a length of zero or less: what is then asked for, up to    *)
(* the position before it, -1, is all there is from the start on.          *)

Smaller(a, b) == IF a < b THEN a ELSE b

\* _openSubRange: the positions of a range are inclusive, -1 stands for the end,
\* and the server answers with what there is of it.
SubRange(got, length, size) ==
  LET to == IF length # Unknown /\ got + size >= length
            THEN from + length - 1
            ELSE from + got + size
      end == IF to = -1 THEN Total ELSE Smaller(to + 1, Total)
  IN  Sent(end - (from + got))

RangeOpen ==
  /\ kind = "range" /\ status = "idle" /\ net = NoRequest /\ bound /\ ~stopped
  /\ status' = "connecting"
  /\ wait' = ~filesize
  /\ IF filesize
     THEN \E size \in ChunkSizes : net' = SubRange(0, Unknown, size)
     ELSE net' = Sent(Total)
  /\ Silent
  /\ UNCHANGED <<own, bound, requestAbort, contentLength, received>>

RangeHeaders ==
  /\ kind = "range" /\ net.state = "sent"
  /\ Become("body")
  /\ \/ /\ status' = IF wait THEN status ELSE "buffering"
        /\ Silent
     \/ /\ status' = "error"
        /\ Say(<<C!Failed("http_status")>>)
  /\ UNCHANGED <<own, bound, requestAbort, contentLength, received, wait>>

\* The first progress of the request for the total length ends it and opens
\* the first range; the first of a range only fixes the length to load.
RangeProgress ==
  /\ kind = "range" /\ net.state = "body" /\ status # "error"
  /\ contentLength = Unknown
  /\ wait' = FALSE
  /\ \/ /\ wait
        /\ \E total \in {0, Total}, size \in ChunkSizes :
             /\ contentLength' = total - from
             /\ net' = SubRange(0, total - from, size)
     \/ /\ ~wait
        /\ contentLength' = Total - from
        /\ UNCHANGED net
  /\ Silent
  /\ UNCHANGED <<own, status, bound, requestAbort, received>>

\* The bytes of a response, which may be fewer than were asked for; the next
\* range is requested before they are handed over.
RangeLoad ==
  /\ kind = "range" /\ net.state = "body" /\ status # "error"
  /\ contentLength # Unknown
  /\ \E n \in 1 .. net.left :
       /\ received' = received + n
       /\ \/ /\ received + n < contentLength
             /\ \E size \in ChunkSizes : net' = SubRange(received + n, contentLength, size)
             /\ Say(<<C!Data(At, n)>>)
             /\ UNCHANGED status
          \/ /\ received + n >= contentLength
             /\ net' = NoRequest
             /\ Say(<<C!Data(At, n), C!Completed(from, received + n)>>)
             /\ status' = "complete"
  /\ UNCHANGED <<own, bound, requestAbort, contentLength, wait>>

RangeError ==
  /\ kind = "range" /\ net.state \in {"sent", "body"}
  /\ status' = "error"
  /\ net' = NoRequest
  /\ Say(<<C!Failed(IF Missing /\ received > 0 THEN "early_eof" ELSE "exception")>>)
  /\ UNCHANGED <<own, bound, requestAbort, contentLength, received, wait>>

\* Mutant of RangeAbort: the handlers stay on the request.
RangeAbortHandled ==
  /\ requestAbort' = TRUE
  /\ UNCHANGED net

\* The handlers are taken off the request before it is aborted.
RangeAbort ==
  /\ requestAbort' = TRUE
  /\ net' = NoRequest

-----------------------------------------------------------------------------

AbortOf ==
  CASE kind = "fetch" -> FetchAbort
    [] kind = "ws"    -> WsAbort
    [] kind = "moz"   -> MozAbort
    [] kind = "range" -> RangeAbort

\* IOController aborts only a loader that is working.
Abort ==
  /\ bound /\ Working
  /\ AbortOf
  /\ status' = IF kind = "fetch" THEN status ELSE "complete"
  /\ stopped' = TRUE
  /\ UNCHANGED <<own, bound, contentLength, received, wait, said, log>>

\* destroy aborts what is working and clears the callbacks; the handlers of an
\* xhr are taken off, while a promise or a socket goes on without callbacks.
Destroy ==
  /\ bound
  /\ bound' = FALSE
  /\ status' = "idle"
  /\ CASE kind = "ws" \/ Working -> AbortOf
       [] kind \in {"moz", "range"} /\ ~Working -> net' = NoRequest /\ UNCHANGED requestAbort
       [] OTHER -> UNCHANGED <<net, requestAbort>>
  /\ UNCHANGED <<own, contentLength, received, wait, said, log, stopped>>

\* What the browser may deliver next.
Event ==
  \/ FetchResponse \/ FetchRejected \/ FetchRead \/ FetchDone \/ FetchReadFailed
  \/ OnWebSocketOpen \/ OnWebSocketMessage \/ OnWebSocketError \/ OnWebSocketClose
  \/ MozHeaders \/ MozProgress \/ MozError \/ MozLoadEnd
  \/ RangeHeaders \/ RangeProgress \/ RangeLoad \/ RangeError

Open == FetchOpen \/ WsOpen \/ MozOpen \/ RangeOpen

Next == Open \/ Event \/ Abort \/ Destroy

\* A request that is out gets an answer or is given up by the browser.
Spec == Init /\ [][Next]_vars /\ WF_vars(Event)

-----------------------------------------------------------------------------

\* Every loader keeps the contract: bytes in order and truly labelled, none
\* after abort, completion last, silence after destroy.
Contract == C!Spec

\* A loader that was told how much there is never reports completion with bytes
\* missing: the end of a body is not taken for the end of the file.  One that was
\* not told cannot know, and has no length, or one of zero or less.
CompleteIsAll ==
  "complete" \in log /\ kind # "ws" /\ contentLength > 0 =>
    contentLength = Total - from /\ received = contentLength

\* A loader that was opened and left alone ends with a verdict: no loader waits
\* for ever on a request that is over.
Verdict == status = "connecting" ~> (log \cap {"error", "complete"} # {} \/ stopped \/ ~bound)
=============================================================================
