------------------------------ MODULE FifoLink ------------------------------
(***************************************************************************)
(* What a wire promises to the two owners that use it: each receives the   *)
(* messages the other sent, in that order and none twice, until it is told *)
(* that the link is down; then it receives nothing more.                   *)
(***************************************************************************)
EXTENDS Naturals, Sequences, SequencesExt

CONSTANTS Ends, Nothing

VARIABLES
  sent,  \* all an end has sent
  got,   \* how many messages of the other end an end has received
  last,  \* the latest of them
  down   \* the ends that have been told

vars == <<sent, got, last, down>>

Init ==
  /\ sent = [e \in Ends |-> <<>>]
  /\ got = [e \in Ends |-> 0]
  /\ last = [e \in Ends |-> Nothing]
  /\ down = {}

Send(e) ==
  /\ e \notin down
  /\ IsStrictPrefix(sent[e], sent'[e])
  /\ sent' = [sent EXCEPT ![e] = sent'[e]]
  /\ UNCHANGED <<got, last, down>>

Receive(e, f) ==
  /\ e # f /\ e \notin down
  /\ got[e] < Len(sent[f])
  /\ got' = [got EXCEPT ![e] = @ + 1]
  /\ last' = [last EXCEPT ![e] = sent[f][got[e] + 1]]
  /\ UNCHANGED <<sent, down>>

Fail(e) ==
  /\ down' = down \cup {e}
  /\ UNCHANGED <<sent, got, last>>

Next == \E e \in Ends : Send(e) \/ Fail(e) \/ \E f \in Ends : Receive(e, f)

Spec == Init /\ [][Next]_vars
=============================================================================
