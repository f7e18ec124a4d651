--------------------------- MODULE MCIOController ---------------------------
(* The instance of IOController that WebIO.cfg checks. *)
EXTENDS IOController

MCSpeedList == <<1, 2, 3>>

Opening(live, stash, size, from, filesize) ==
  [live |-> live, stash |-> stash, stashInitialSize |-> size, from |-> from,
   filesize |-> filesize]

\* Live and not, with a stash and without; one larger than the first buffer; opened
\* at a tag, with the length of the file given or not.
MCOpenings ==
  {Opening(live, stash, 2, 0, 0) : live, stash \in BOOLEAN}
    \cup {Opening(FALSE, TRUE, 4, 0, 0), Opening(FALSE, TRUE, 2, 4, 0),
          Opening(FALSE, TRUE, 2, 1, Total), Opening(FALSE, FALSE, 2, 0, Total)}
=============================================================================
