---------------------------- MODULE SerialCable ----------------------------
(***************************************************************************)
(* What a timed cable promises to two games, whatever carries it: their    *)
(* clocks stay within Lead of each other, and an edge that one side clocks *)
(* is applied exactly once by the other, at a time of the other's own      *)
(* clock within Lateness of the time it was clocked for, before the first  *)
(* side shifts its own bit or clocks another edge.                         *)
(***************************************************************************)
EXTENDS Integers

CONSTANTS Ends, Lead, Lateness

VARIABLES
  time,     \* each side's emulated time
  clocked,  \* edges a side has clocked
  due,      \* the time of the latest one
  applied,  \* of those, how many the other side has applied
  shifted   \* how many the clocking side has shifted itself

vars == <<time, clocked, due, applied, shifted>>

Init ==
  /\ time = [e \in Ends |-> 0]
  /\ clocked = [e \in Ends |-> 0]
  /\ due = [e \in Ends |-> 0]
  /\ applied = [e \in Ends |-> 0]
  /\ shifted = [e \in Ends |-> 0]

Run(e) ==
  /\ time'[e] > time[e]
  /\ time' = [time EXCEPT ![e] = time'[e]]
  /\ \A f \in Ends : time'[e] <= time[f] + Lead \/ f = e
  /\ UNCHANGED <<clocked, due, applied, shifted>>

Clock(e) ==
  /\ applied[e] = clocked[e] /\ shifted[e] = clocked[e]
  /\ clocked' = [clocked EXCEPT ![e] = @ + 1]
  /\ due'[e] > due[e]
  /\ due' = [due EXCEPT ![e] = due'[e]]
  /\ UNCHANGED <<time, applied, shifted>>

Apply(e) ==
  /\ applied[e] < clocked[e]
  /\ \A f \in Ends : f # e => due[e] <= time[f] /\ time[f] <= due[e] + Lateness
  /\ applied' = [applied EXCEPT ![e] = @ + 1]
  /\ UNCHANGED <<time, clocked, due, shifted>>

Shift(e) ==
  /\ shifted[e] < applied[e]
  /\ shifted' = [shifted EXCEPT ![e] = @ + 1]
  /\ UNCHANGED <<time, clocked, due, applied>>

Next == \E e \in Ends : Run(e) \/ Clock(e) \/ Apply(e) \/ Shift(e)

Spec == Init /\ [][Next]_vars
=============================================================================
