-------------------------- MODULE MCMSEController ---------------------------
(* The instance of MSEController that MediaSource.cfg checks. *)
EXTENDS MSEController

MCFeed == << <<"video", 0>>, <<"audio", 0>>, <<"audio", 1>>, <<"video", 1>>,
             <<"audio", 2>>, <<"audio", 0>>, <<"audio", 3>>, <<"video", 3>> >>

\* With the clean-up; with Safari, or without either; the audio once with AAC,
\* else with an empty init segment.
MCConfigs == {[auto |-> FALSE, safari |-> FALSE, mpeg |-> FALSE],
              [auto |-> TRUE, safari |-> FALSE, mpeg |-> TRUE],
              [auto |-> FALSE, safari |-> TRUE, mpeg |-> TRUE]}
=============================================================================
