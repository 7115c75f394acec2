---------------------------- MODULE MCTimedCable ----------------------------
(***************************************************************************)
(* TimedCable for TLC: two sides, and what their games write to SC.        *)
(***************************************************************************)
EXTENDS TimedCable

MCSides == {"clock", "peer"}

\* One side selects the internal clock, the other waits for it.
OneClock == [s \in MCSides |-> IF s = "clock" THEN {"internal"} ELSE {"external"}]

\* The waiting side may also withdraw its transfer.
Withdrawing == [s \in MCSides |-> IF s = "clock" THEN {"internal"} ELSE {"external", "off"}]

\* One side selects the internal clock, the other cannot decide.
Undecided == [s \in MCSides |-> IF s = "clock" THEN {"internal"} ELSE {"internal", "external"}]

\* Owner-control fences: none, or one from the side that is clocked.
NoFences == [s \in MCSides |-> 0]
PeerFence == [s \in MCSides |-> IF s = "peer" THEN 1 ELSE 0]
=============================================================================
