--------------------------- MODULE MCTransmuxing ----------------------------
(* The instance of TransmuxingController that Transmuxing.cfg checks. *)
EXTENDS TransmuxingController

MCKeyframes == <<1, 3>>
MCSources == {[indexed |-> TRUE, notFlv |-> {}], [indexed |-> TRUE, notFlv |-> {2}],
              [indexed |-> FALSE, notFlv |-> {}]}
=============================================================================
