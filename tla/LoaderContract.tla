--------------------------- MODULE LoaderContract ---------------------------
(***************************************************************************)
(* What IOController (flv.js, the bundled web player) may rely on when it  *)
(* is given a loader, whatever the way the loader reaches the network:     *)
(*                                                                         *)
(*   - the bytes come in order from the first byte asked for, each chunk   *)
(*     labelled with the position of its first byte;                       *)
(*   - once the loader is told to stop no more bytes come, though a verdict *)
(*     of a request that was already ending may;                           *)
(*   - completion is the last thing it says;                               *)
(*   - once it is destroyed it says nothing.                               *)
(*                                                                         *)
(* A failure need not be the last word: a web socket reports its closing   *)
(* after its error, and the callers live with it.                          *)
(***************************************************************************)
EXTENDS Naturals

VARIABLES
  phase,   \* "new", "open", "failed", "done", "aborted", "destroyed"
  base,    \* position of the first byte asked for
  got,     \* bytes handed over so far
  said     \* the callbacks of the latest event, in order

vars == <<phase, base, got, said>>

Data(at, n) == [call |-> "data", at |-> at, n |-> n]
Completed(at, n) == [call |-> "complete", at |-> at, n |-> n]
Failed(type) == [call |-> "error", type |-> type]

Init ==
  /\ phase = "new"
  /\ base \in Nat
  /\ got = 0
  /\ said = <<>>

Open ==
  /\ phase = "new"
  /\ phase' = "open"
  /\ UNCHANGED <<base, got, said>>

Deliver ==
  /\ phase \in {"open", "failed"}
  /\ got' > got
  /\ said' = <<Data(base + got, got' - got)>>
  /\ UNCHANGED <<phase, base>>

\* Opening may itself fail.
Fail ==
  /\ phase \in {"new", "open", "failed", "aborted"}
  /\ \E type \in {"early_eof", "http_status", "exception"} : said' = <<Failed(type)>>
  /\ phase' = IF phase \in {"new", "open"} THEN "failed" ELSE phase
  /\ UNCHANGED <<base, got>>

Complete ==
  /\ phase \in {"open", "failed", "aborted"}
  /\ said' = <<Completed(base, got)>>
  /\ phase' = "done"
  /\ UNCHANGED <<base, got>>

\* One event may bring the last bytes and the completion, bytes first.
DeliverLast ==
  /\ phase = "open"
  /\ got' > got
  /\ said' = <<Data(base + got, got' - got), Completed(base, got')>>
  /\ phase' = "done"
  /\ UNCHANGED base

Abort ==
  /\ phase \in {"open", "failed"}
  /\ phase' = "aborted"
  /\ UNCHANGED <<base, got, said>>

Destroy ==
  /\ phase' = "destroyed"
  /\ UNCHANGED <<base, got, said>>

Next == Open \/ Deliver \/ DeliverLast \/ Fail \/ Complete \/ Abort \/ Destroy

Spec == Init /\ [][Next]_vars
=============================================================================
