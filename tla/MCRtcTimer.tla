----------------------------- MODULE MCRtcTimer -----------------------------
(* Instances of RtcTimer for TLC.                                          *)
EXTENDS RtcTimer
=============================================================================
