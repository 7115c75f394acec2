---------------------------- MODULE MCTimedWire ----------------------------
(***************************************************************************)
(* TimedWire for TLC: two ends.                                            *)
(***************************************************************************)
EXTENDS TimedWire

MCEnds == {"left", "right"}
=============================================================================
