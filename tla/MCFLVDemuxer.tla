---------------------------- MODULE MCFLVDemuxer ----------------------------
(* The sources that Remux.cfg checks. *)
EXTENDS FLVDemuxer

Plain == [live |-> FALSE, fill |-> TRUE, edge |-> FALSE,
          force |-> [audio |-> "no", video |-> "no"]]
Of(settings, tags) == [tags |-> tags, live |-> settings.live, fill |-> settings.fill,
                       edge |-> settings.edge, force |-> settings.force]

\* Both tracks, a gap in the audio, and a new configuration of the video.
Both == <<Header(TRUE, TRUE), Script("yes", "yes"), AvcConfig(TRUE), AacConfig,
          Avc(10, TRUE), Aac(10), Avc(30, FALSE), Aac(33), Avc(50, FALSE), AvcConfig(TRUE), Avc(90, TRUE),
          Aac(126), Aac(149)>>

\* A head without tracks, metadata behind them, and a record without a PPS.
Late == <<Header(FALSE, FALSE), AvcConfig(FALSE), AvcConfig(TRUE), Avc(0, TRUE), Avc(40, FALSE),
          Script("", "no"), Mp3(46), Mp3(72), Avc(80, FALSE), Ignored, Avc(120, TRUE), Unsupported>>

\* Two parts.
Parts == <<Header(TRUE, TRUE), Script("", ""), AacConfig, AvcConfig(TRUE), Avc(0, TRUE), Aac(0),
           Aac(23), Avc(40, FALSE), Aac(46),
           Header(TRUE, TRUE), Script("", ""), AvcConfig(TRUE), AacConfig, Aac(69), Avc(80, TRUE),
           Aac(92), Avc(120, FALSE)>>

\* A change of the video's configuration while that of the audio is awaited.
Waiting == <<Header(FALSE, TRUE), Script("yes", ""), AvcConfig(TRUE), Avc(0, TRUE), Avc(20, FALSE),
             Avc(40, FALSE), AvcConfig(TRUE), Avc(80, TRUE), Aac(60), AacConfig, Aac(83), Avc(120, FALSE), Aac(106)>>

\* Metadata that denies the track of the head behind the other configuration.
Denied == <<Header(TRUE, TRUE), AvcConfig(TRUE), Script("no", "yes"), Avc(0, TRUE), Avc(40, FALSE)>>

Forced == [audio |-> "on", video |-> "off"]

MCSources ==
  {Of(Plain, Both), Of([Plain EXCEPT !.edge = TRUE, !.fill = FALSE], Both),
   Of([Plain EXCEPT !.live = TRUE], Both), Of([Plain EXCEPT !.force = Forced], Both),
   Of(Plain, Late), Of(Plain, Waiting), Of(Plain, Denied), Of(Plain, Parts)}
=============================================================================
