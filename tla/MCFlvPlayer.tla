---------------------------- MODULE MCFlvPlayer -----------------------------
(* The instances of FlvPlayer that Player.cfg and PlayerSeek.cfg check. *)
EXTENDS FlvPlayer

MCKeyframes == <<1>>
MCManyKeyframes == <<1, 2, 3, 4>>
MCSources == {[indexed |-> TRUE, notFlv |-> {}], [indexed |-> FALSE, notFlv |-> {}]}
MCSettings == {[worker |-> TRUE, accurateSeek |-> FALSE, alwaysSeekKeyframe |-> FALSE],
               [worker |-> TRUE, accurateSeek |-> TRUE, alwaysSeekKeyframe |-> FALSE],
               [worker |-> FALSE, accurateSeek |-> FALSE, alwaysSeekKeyframe |-> TRUE]}

\* The variables but for what the controller emits and what it is expected to emit
\* next, which no guard and no property of the player reads.
PlayerView == <<ctl, media, lapses, player, element, cmds, evts, setting, faults>>
=============================================================================
