------------------------- MODULE EmulatedTimeProofs -------------------------
(***************************************************************************)
(* Proofs about EmulatedTime for every value of its constants: every       *)
(* quantum, rearm budget, lateness bound, both completeness modes, and any *)
(* sequence of calls.  A rejected call only closes the epoch, so all the   *)
(* ...Rejected actions are treated once, by the lemmas about Reject.       *)
(***************************************************************************)
EXTENDS EmulatedTime, TLAPS

\* The half-cycle budgets are naturals.
LEMMA Budgets == Quantum \in Nat /\ Rearm \in Nat /\ MaxLateness \in Nat
BY ConfigAssumption DEF Quantum, Rearm, MaxLateness

\* Every call that is refused is the one rejection, whatever was wrong with it.
LEMMA Rejections ==
  ASSUME \/ \E e \in Requests : BeginEpisodeRejected(e) \/ BeginDeliveryRearmRejected(e)
         \/ \E id \in 1..MaxRequests : FinishEpisodeRejected(id)
         \/ \E clock \in 0..MaxClock : SetSpeedRejected(clock)
         \/ AcknowledgeDeliveryRejected
         \/ \E sequence \in 1..MaxSequence, at \in 0..MaxHalf :
               RecordPeerProgressRejected(sequence, at) \/ ReceiveEdgeRejected(sequence, at)
         \/ \E sequence \in 0..MaxSequence, at \in 0..MaxHalf :
               AdvanceWatermarkRejected(sequence, at)
         \/ ContractViolation
  PROVE  Reject("validation")
BY DEF BeginEpisodeRejected, BeginDeliveryRearmRejected, FinishEpisodeRejected, SetSpeedRejected,
       AcknowledgeDeliveryRejected, RecordPeerProgressRejected, ReceiveEdgeRejected,
       AdvanceWatermarkRejected, ContractViolation

\* The calls that are not refused, one disjunct per method.
Accepted ==
  \/ \E e \in Requests : BeginEpisode(e) \/ BeginDeliveryRearm(e)
  \/ \E id \in 1..MaxRequests : FinishEpisode(id)
  \/ \E maxCpu \in 1..MaxClock : Reserve(maxCpu)
  \/ \E clock \in 1..MaxClock : \E switchAt \in raw..clock, newRate \in {1, 2},
        executed \in -1..(MaxInstructions + 1) : Commit(clock, switchAt, newRate, executed)
  \/ \E clock \in 0..MaxClock, newRate \in {1, 2} : CommitUnaccounted(clock, newRate)
  \/ \E clock \in 0..MaxClock, consistent \in BOOLEAN : DiscardPermit(clock, consistent)
  \/ \E newRate \in {1, 2} : SetSpeed(newRate)
  \/ PopReadyEdges
  \/ AcknowledgeDelivery
  \/ \E sequence \in 1..MaxSequence, committed \in 0..MaxHalf :
        RecordPeerProgress(sequence, committed)
  \/ \E sequence \in 1..MaxSequence, at \in 0..MaxHalf : ReceiveEdge(sequence, at)
  \/ \E sequence \in 0..MaxSequence, through \in 0..MaxHalf :
        AdvanceWatermark(sequence, through)
  \/ Cancel
  \/ Close

\* A step is a stutter, a rejection or an accepted call.
LEMMA StepCases ==
  ASSUME [Next]_vars
  PROVE  UNCHANGED vars \/ Reject("validation") \/ Accepted
BY Rejections DEF Next, OwnerStep, TransportStep, Accepted

\* A failure keeps the lifecycle's types.
LEMMA FailTypes ==
  ASSUME TypeOK, NEW phase \in Phases, Fail(phase)
  PROVE  LifeTypeOK'
BY DEF TypeOK, LifeTypeOK, Fail, FailureRecords

LEMMA ValidationIsPhase == "validation" \in Phases
BY DEF Phases

\* Half cycles of a positive number of cycles are positive.
LEMMA HalvesType ==
  ASSUME NEW cycles \in Nat, NEW r \in {1, 2}
  PROVE  Halves(cycles, r) \in Nat /\ (cycles > 0 => Halves(cycles, r) > 0)
BY DEF Halves

\* What Grant hands out fits every ceiling, and is a permit.
LEMMA GrantFits ==
  ASSUME TypeOK, NEW maxCpu \in 1..MaxClock, Grant(maxCpu)
  PROVE  \E cycles \in Nat \ {0} :
            /\ Fits(cycles)
            /\ pending' = [cpu |-> cycles, half |-> Halves(cycles, rate),
                           cap |-> IF episodeOpen THEN instructions ELSE cycles]
            /\ pending' \in Permit
            /\ pending' # NoPermit
<1>1. PICK cycles \in 1..maxCpu :
         /\ Fits(cycles)
         /\ pending' = [cpu |-> cycles, half |-> Halves(cycles, rate),
                        cap |-> IF episodeOpen THEN instructions ELSE cycles]
  BY DEF Grant
<1>2. cycles \in Nat \ {0} /\ rate \in {1, 2} /\ instructions \in Nat
  BY BoundAssumption DEF TypeOK, AccountTypeOK, CreditTypeOK
<1>3. pending' \in Permit
  BY <1>1, <1>2, HalvesType DEF Permit
<1>4. pending' # NoPermit
  BY <1>1, <1>2 DEF NoPermit
<1> QED  BY <1>1, <1>2, <1>3, <1>4

\* A settled interval costs a natural number of half cycles.
LEMMA ElapsedType ==
  ASSUME TypeOK, NEW clock \in 1..MaxClock, NEW switchAt \in raw..clock, NEW newRate \in {1, 2}
  PROVE  Halves(switchAt - raw, rate) + Halves(clock - switchAt, newRate) \in Nat
<1>1. switchAt - raw \in Nat /\ clock - switchAt \in Nat /\ rate \in {1, 2}
  BY BoundAssumption DEF TypeOK, AccountTypeOK, CreditTypeOK
<1> QED  BY <1>1, HalvesType

-----------------------------------------------------------------------------
LEMMA TypeInit == Init => TypeOK
<1>1. Init => LifeTypeOK
  BY DEF Init, LifeTypeOK, FailureRecords
<1>2. Init => AccountTypeOK
  BY DEF Init, AccountTypeOK
<1>3. ASSUME Init PROVE CreditTypeOK
  <2>1. /\ pending = NoPermit /\ episode = NoEpisode /\ episodeOpen = FALSE
        /\ episodeEnd = 0 /\ instructions = 0
    BY <1>3 DEF Init
  <2> QED  BY <2>1 DEF CreditTypeOK
<1>4. Init => EdgeTypeOK
  BY DEF Init, EdgeTypeOK
<1>5. Init => enforceCompleteness \in BOOLEAN
  BY DEF Init
<1> QED  BY <1>1, <1>2, <1>3, <1>4, <1>5 DEF TypeOK

LEMMA TypeStep == ASSUME TypeOK, [Next]_vars PROVE TypeOK'
<1>0. enforceCompleteness' \in BOOLEAN
  BY DEF Next, vars, TypeOK
<1> USE <1>0
<1> USE DEF timeVars, peerVars, episodeVars, edgeVars, markVars, deliveryVars
<1>1. CASE UNCHANGED vars
  BY <1>1 DEF vars, TypeOK, LifeTypeOK, lifeVars, AccountTypeOK, CreditTypeOK, EdgeTypeOK
<1>2. CASE Reject("validation")
  <2>1. LifeTypeOK'
    BY <1>2, FailTypes, ValidationIsPhase DEF Reject
  <2> QED  BY <1>2, <2>1 DEF Reject, TypeOK, AccountTypeOK, CreditTypeOK, EdgeTypeOK
<1>3. ASSUME NEW e \in Requests, BeginEpisode(e) PROVE TypeOK'
  <2>1. AccountTypeOK' /\ CreditTypeOK'
    BY <1>3, ConfigAssumption, BoundAssumption
       DEF BeginEpisode, OpenEpisode, Requests, Episode, TypeOK, AccountTypeOK, CreditTypeOK
  <2> QED  BY <1>3, <2>1 DEF BeginEpisode, TypeOK, LifeTypeOK, lifeVars, EdgeTypeOK
<1>4. ASSUME NEW e \in Requests, BeginDeliveryRearm(e) PROVE TypeOK'
  <2>1. AccountTypeOK' /\ CreditTypeOK' /\ deliveryEpisode' \in Episode
    BY <1>4, ConfigAssumption, BoundAssumption
       DEF BeginDeliveryRearm, OpenEpisode, Requests, Episode, TypeOK, AccountTypeOK, CreditTypeOK
  <2> QED  BY <1>4, <2>1 DEF BeginDeliveryRearm, TypeOK, LifeTypeOK, lifeVars, EdgeTypeOK
<1>5. ASSUME NEW id \in 1..MaxRequests, FinishEpisode(id) PROVE TypeOK'
  <2>1. AccountTypeOK' /\ CreditTypeOK'
    BY <1>5 DEF FinishEpisode, TypeOK, AccountTypeOK, CreditTypeOK
  <2> QED  BY <1>5, <2>1 DEF FinishEpisode, TypeOK, LifeTypeOK, lifeVars, EdgeTypeOK
<1>6. ASSUME NEW maxCpu \in 1..MaxClock, Reserve(maxCpu) PROVE TypeOK'
  <2>1. LifeTypeOK'
    BY <1>6, FailTypes DEF Reserve, TypeOK, LifeTypeOK, lifeVars, Phases, LatenessPhases
  <2>2. AccountTypeOK' /\ CreditTypeOK'
    BY <1>6, GrantFits DEF Reserve, TypeOK, AccountTypeOK, CreditTypeOK
  <2> QED  BY <1>6, <2>1, <2>2 DEF Reserve, TypeOK, EdgeTypeOK
<1>7. ASSUME NEW clock \in 1..MaxClock, NEW switchAt \in raw..clock, NEW newRate \in {1, 2},
             NEW executed \in -1..(MaxInstructions + 1),
             Commit(clock, switchAt, newRate, executed)
      PROVE TypeOK'
  <2>1. LifeTypeOK'
    BY <1>7, FailTypes DEF Commit, LatenessAt, TypeOK, LifeTypeOK, lifeVars, Phases,
                          LatenessPhases
  <2>2. local' \in Nat /\ raw' \in Nat /\ observedRaw' \in Nat /\ rate' \in {1, 2}
    BY <1>7, ElapsedType, BoundAssumption DEF Commit, TypeOK, AccountTypeOK, CreditTypeOK
  <2>3. instructions' \in Nat
    BY <1>7, BoundAssumption DEF Commit, Unspent, TypeOK, AccountTypeOK, CreditTypeOK
  <2> QED  BY <1>7, <2>1, <2>2, <2>3 DEF Commit, TypeOK, AccountTypeOK, CreditTypeOK, EdgeTypeOK
<1>8. ASSUME NEW clock \in 0..MaxClock, NEW newRate \in {1, 2},
             CommitUnaccounted(clock, newRate)
      PROVE TypeOK'
  <2>1. LifeTypeOK'
    BY <1>8, FailTypes, ValidationIsPhase DEF CommitUnaccounted
  <2>2. AccountTypeOK' /\ CreditTypeOK'
    BY <1>8, BoundAssumption DEF CommitUnaccounted, TypeOK, AccountTypeOK, CreditTypeOK
  <2> QED  BY <1>8, <2>1, <2>2 DEF CommitUnaccounted, TypeOK, EdgeTypeOK
<1>9. ASSUME NEW clock \in 0..MaxClock, NEW consistent \in BOOLEAN,
             DiscardPermit(clock, consistent)
      PROVE TypeOK'
  <2>1. LifeTypeOK'
    BY <1>9, FailTypes, ValidationIsPhase DEF DiscardPermit, TypeOK, LifeTypeOK, lifeVars
  <2>2. AccountTypeOK' /\ CreditTypeOK'
    BY <1>9, BoundAssumption DEF DiscardPermit, TypeOK, AccountTypeOK, CreditTypeOK
  <2> QED  BY <1>9, <2>1, <2>2 DEF DiscardPermit, TypeOK, EdgeTypeOK
<1>10. ASSUME NEW newRate \in {1, 2}, SetSpeed(newRate) PROVE TypeOK'
  BY <1>10 DEF SetSpeed, TypeOK, LifeTypeOK, lifeVars, AccountTypeOK, CreditTypeOK, EdgeTypeOK
<1>11. CASE PopReadyEdges
  <2>1. LifeTypeOK'
    BY <1>11, FailTypes DEF PopReadyEdges, TypeOK, LifeTypeOK, lifeVars, Phases, LatenessPhases
  <2>2. edges' \subseteq edges /\ held' \subseteq edges \cup held
    BY <1>11 DEF PopReadyEdges, Ready
  <2>3. AccountTypeOK' /\ CreditTypeOK'
    BY <1>11 DEF PopReadyEdges, TypeOK, AccountTypeOK, CreditTypeOK
  <2> QED  BY <1>11, <2>1, <2>2, <2>3 DEF PopReadyEdges, TypeOK, EdgeTypeOK
<1>12. CASE AcknowledgeDelivery
  <2>1. AccountTypeOK'
    BY <1>12 DEF AcknowledgeDelivery, TypeOK, AccountTypeOK
  <2>2. episodeOpen' \in BOOLEAN /\ episodeEnd' \in Nat /\ instructions' \in Nat
    <3>1. \/ episodeOpen' = FALSE /\ episodeEnd' = local /\ instructions' = 0
          \/ UNCHANGED <<episodeOpen, episodeEnd, instructions>>
      BY <1>12 DEF AcknowledgeDelivery
    <3>2. episodeOpen' \in BOOLEAN
      BY <3>1 DEF TypeOK, CreditTypeOK
    <3>3. episodeEnd' \in Nat /\ instructions' \in Nat
      BY <3>1 DEF TypeOK, AccountTypeOK, CreditTypeOK
    <3> QED  BY <3>2, <3>3
  <2>3. CreditTypeOK'
    BY <1>12, <2>2 DEF AcknowledgeDelivery, TypeOK, CreditTypeOK
  <2>4. EdgeTypeOK'
    BY <1>12 DEF AcknowledgeDelivery, TypeOK, EdgeTypeOK
  <2> QED  BY <1>12, <2>1, <2>3, <2>4 DEF AcknowledgeDelivery, TypeOK, LifeTypeOK, lifeVars
<1>13. ASSUME NEW sequence \in 1..MaxSequence, NEW committed \in 0..MaxHalf,
              RecordPeerProgress(sequence, committed)
       PROVE TypeOK'
  BY <1>13, BoundAssumption
     DEF RecordPeerProgress, TypeOK, LifeTypeOK, lifeVars, AccountTypeOK, CreditTypeOK, EdgeTypeOK
<1>14. ASSUME NEW sequence \in 1..MaxSequence, NEW at \in 0..MaxHalf, ReceiveEdge(sequence, at)
       PROVE TypeOK'
  <2>1. LifeTypeOK'
    BY <1>14, FailTypes DEF ReceiveEdge, TypeOK, LifeTypeOK, lifeVars, Phases, LatenessPhases
  <2>2. [at |-> at, seq |-> sequence] \in Edge
    BY BoundAssumption DEF Edge
  <2>3. EdgeTypeOK'
    BY <1>14, <2>2, BoundAssumption DEF ReceiveEdge, TypeOK, EdgeTypeOK
  <2> QED  BY <1>14, <2>1, <2>3 DEF ReceiveEdge, TypeOK, AccountTypeOK, CreditTypeOK
<1>15. ASSUME NEW sequence \in 0..MaxSequence, NEW through \in 0..MaxHalf,
              AdvanceWatermark(sequence, through)
       PROVE TypeOK'
  BY <1>15, BoundAssumption
     DEF AdvanceWatermark, TypeOK, LifeTypeOK, lifeVars, AccountTypeOK, CreditTypeOK, EdgeTypeOK
<1>16. CASE Cancel \/ Close
  BY <1>16 DEF Cancel, Close, Terminate, TypeOK, LifeTypeOK, AccountTypeOK, CreditTypeOK, EdgeTypeOK
<1> QED
  BY <1>1, <1>2, <1>3, <1>4, <1>5, <1>6, <1>7, <1>8, <1>9, <1>10, <1>11, <1>12, <1>13, <1>14,
     <1>15, <1>16, StepCases DEF Accepted

\* Type correctness: the state keeps its shape under any sequence of calls.
THEOREM TypeCorrect == Spec => []TypeOK
BY TypeInit, TypeStep, PTL DEF Spec

-----------------------------------------------------------------------------
(***************************************************************************)
(* The inductive invariant.  BoundedLead alone is not inductive: commit    *)
(* adds what the permit allowed, so the permit's own ceilings have to be   *)
(* part of the invariant, and they have to survive every edge, watermark,  *)
(* progress and episode call that may run while the permit is outstanding. *)
(***************************************************************************)
Safe ==
  /\ PermitBounded
  /\ BoundedLead /\ UnseenEdgesInTime
  /\ NothingWaitsTooLong
  /\ OrderedDelivery /\ RearmBelongsToBatch
  /\ NoLatenessFailure

IInv == TypeOK /\ Safe

\* What the types say about the quantities that are compared.
LEMMA Numbers ==
  ASSUME TypeOK
  PROVE  /\ raw \in Nat /\ local \in Nat /\ peer \in Nat /\ episodeEnd \in Nat
         /\ instructions \in Nat
         /\ watermark \in Int /\ watermark >= -1
         /\ \A e \in held \cup edges : e.at \in Nat /\ e.seq \in Nat
         /\ pending # NoPermit => pending.half \in Nat \ {0} /\ pending.cap \in Nat
         /\ Quantum \in Nat /\ Rearm \in Nat /\ MaxLateness \in Nat
BY Budgets DEF TypeOK, AccountTypeOK, CreditTypeOK, EdgeTypeOK, Permit, Edge

LEMMA InitSafe == Init => Safe
BY Budgets DEF Init, Safe, PermitBounded, BoundedLead, UnseenEdgesInTime, NothingWaitsTooLong,
       OrderedDelivery, RearmBelongsToBatch, NoLatenessFailure,
       LatenessPhases

\* A failure that is not one of lateness establishes the properties of a live
\* epoch vacuously; only delivery's order has to be kept.
LEMMA FailSafe ==
  ASSUME Safe, NEW phase, phase \notin LatenessPhases, Fail(phase),
         OrderedDelivery', RearmBelongsToBatch',
         UNCHANGED enforceCompleteness
  PROVE  Safe'
BY DEF Safe, Fail, LatenessPhases, PermitBounded, BoundedLead, UnseenEdgesInTime,
       NothingWaitsTooLong, NoLatenessFailure

LEMMA ReserveSafe ==
  ASSUME IInv, NEW maxCpu \in 1..MaxClock, Reserve(maxCpu),
         UNCHANGED enforceCompleteness
  PROVE  Safe'
<1> USE DEF IInv, timeVars, peerVars, episodeVars, edgeVars, markVars, deliveryVars
<1>1. OrderedDelivery' /\ RearmBelongsToBatch'
  BY DEF Safe, Reserve, OrderedDelivery, RearmBelongsToBatch, Before
<1>2. CASE pending' = pending /\ Fail("reserve.boundary_lateness")
  BY <1>1, <1>2, FailSafe DEF LatenessPhases
<1>3. CASE Grant(maxCpu) /\ UNCHANGED lifeVars
  <2>1. PICK cycles \in Nat \ {0} :
           /\ Fits(cycles)
           /\ pending' = [cpu |-> cycles, half |-> Halves(cycles, rate),
                          cap |-> IF episodeOpen THEN instructions ELSE cycles]
    BY <1>3, GrantFits
  <2>2. pending'.half = Halves(cycles, rate)
        /\ pending'.cap = IF episodeOpen THEN instructions ELSE cycles
    BY <2>1
  <2>3. held # {} => episodeOpen /\ episode = deliveryEpisode
    BY DEF Reserve, ReserveBlocked, ActiveEpisode
  <2>4. Halves(cycles, rate) \in Nat
    BY HalvesType DEF TypeOK, AccountTypeOK
  <2>5. UNCHANGED <<timeVars, peerVars, episodeVars, edgeVars, markVars, deliveryVars>>
    BY DEF Reserve
  <2>6. LET end == local + Halves(cycles, rate) IN
        /\ end <= peer + Quantum + (IF episodeOpen THEN Rearm ELSE 0)
        /\ episodeOpen => end <= episodeEnd
        /\ \A e \in held \cup edges : ~Late(e, end)
        /\ enforceCompleteness => end <= watermark + MaxLateness
    BY <2>1, <2>4, Numbers DEF Fits, Late
  <2>7. PermitBounded'
    BY <2>2, <2>3, <2>4, <2>5, <2>6, Numbers DEF PermitBounded, Late
  <2> QED  BY <1>1, <1>3, <2>7
           DEF Safe, Reserve, lifeVars, BoundedLead, UnseenEdgesInTime, NothingWaitsTooLong, Late,
               NoLatenessFailure
<1>4. ~ \E e \in held : Late(e, local)
  BY DEF Safe, Reserve, Open, NothingWaitsTooLong
<1> QED  BY <1>2, <1>3, <1>4 DEF Reserve

LEMMA CommitSafe ==
  ASSUME IInv,
         NEW clock \in 1..MaxClock, NEW switchAt \in raw..clock, NEW newRate \in {1, 2},
         NEW executed \in -1..(MaxInstructions + 1),
         Commit(clock, switchAt, newRate, executed),
         UNCHANGED enforceCompleteness
  PROVE  Safe'
<1> DEFINE elapsed == Halves(switchAt - raw, rate) + Halves(clock - switchAt, newRate)
<1> USE DEF IInv, peerVars, edgeVars, markVars, deliveryVars
<1>1. elapsed \in Nat /\ local' = local + elapsed
  BY ElapsedType DEF Commit
<1>2. pending # NoPermit /\ pending' = NoPermit
  BY DEF Commit
<1>3. OrderedDelivery' /\ RearmBelongsToBatch'
  <2>1. \A e \in held : e.at <= local'
    BY <1>1, Numbers DEF Safe, OrderedDelivery
  <2> QED  BY <2>1 DEF Safe, Commit, OrderedDelivery, RearmBelongsToBatch, Before
<1> HIDE DEF elapsed
<1>4. CASE closed
  BY <1>2, <1>3, <1>4 DEF Safe, Commit, lifeVars, PermitBounded, BoundedLead, UnseenEdgesInTime,
                          NothingWaitsTooLong, NoLatenessFailure
<1>5. CASE ~closed /\ Overrun(clock, elapsed, executed)
  <2>1. Fail("validation")
    BY <1>5 DEF Commit, elapsed
  <2> QED  BY <1>3, <2>1, FailSafe DEF LatenessPhases
<1>6. CASE ~closed /\ ~Overrun(clock, elapsed, executed)
  <2>1. local' <= local + pending.half
    BY <1>1, <1>2, <1>6, Numbers DEF Overrun
  <2>2. /\ local' <= peer + Quantum + (IF episodeOpen THEN Rearm ELSE 0)
        /\ episodeOpen => local' <= episodeEnd
        /\ enforceCompleteness => local' <= watermark + MaxLateness
    BY <1>1, <1>2, <1>6, <2>1, Numbers DEF Safe, PermitBounded
  <2>3. /\ \A e \in held : ~Late(e, local')
        /\ enforceCompleteness => \A e \in edges : ~Late(e, local')
    BY <1>1, <1>2, <1>6, <2>1, Numbers DEF Safe, PermitBounded, Late
  <2>4. CASE LatenessAt(local') = "none"
    <3>1. UNCHANGED lifeVars
      BY <1>1, <1>6, <2>4 DEF Commit, elapsed
    <3>2. \A e \in held \cup edges : ~Late(e, local')
      BY <2>4 DEF LatenessAt
    <3>3. NothingWaitsTooLong'
      BY <3>2 DEF Commit, NothingWaitsTooLong, Late
    <3>4. BoundedLead' /\ UnseenEdgesInTime'
      BY <1>1, <2>2, Numbers DEF Commit, BoundedLead, UnseenEdgesInTime
    <3> QED  BY <1>2, <1>3, <3>1, <3>3, <3>4
             DEF Safe, lifeVars, PermitBounded, NoLatenessFailure
  <2>5. CASE LatenessAt(local') # "none"
    <3>1. ~enforceCompleteness /\ LatenessAt(local') = "commit.edge_lateness"
      BY <2>3, <2>5 DEF LatenessAt
    <3>2. Fail("commit.edge_lateness")
      BY <1>1, <1>6, <2>5, <3>1 DEF Commit, elapsed
    <3> QED  BY <1>3, <3>1, <3>2
             DEF Safe, Fail, PermitBounded, BoundedLead, UnseenEdgesInTime, NothingWaitsTooLong,
                 NoLatenessFailure
  <2> QED  BY <2>4, <2>5
<1> QED  BY <1>4, <1>5, <1>6

\* An edge joins the queue, or the epoch fails because the edge is late.
LEMMA ReceiveEdgeSafe ==
  ASSUME IInv, NEW sequence \in 1..MaxSequence, NEW at \in 0..MaxHalf,
         ReceiveEdge(sequence, at),
         UNCHANGED enforceCompleteness
  PROVE  Safe'
<1> DEFINE edge == [at |-> at, seq |-> sequence]
<1> USE DEF IInv, timeVars, peerVars, episodeVars, markVars, deliveryVars
<1>1. at \in Nat /\ at > watermark /\ ~closed /\ edge.at = at
  BY BoundAssumption DEF ReceiveEdge, Open
<1>2. RearmBelongsToBatch'
  BY DEF Safe, ReceiveEdge, RearmBelongsToBatch
<1>3. OrderedDelivery'
  <2>1. edges' \subseteq edges \cup {edge}
    BY DEF ReceiveEdge, edgeVars
  <2>2. \A e \in held : Before(e, edge)
    BY <1>1, Numbers DEF Safe, OrderedDelivery, Before
  <2>3. \A e \in held, f \in edges' : Before(e, f)
    BY <2>1, <2>2 DEF Safe, OrderedDelivery
  <2> QED  BY <2>3 DEF Safe, ReceiveEdge, OrderedDelivery, Before
<1>4. CASE Late(edge, local)
  <2>1. Fail("receive_edge.lateness") /\ UNCHANGED edgeVars
    BY <1>4 DEF ReceiveEdge
  <2>2. ~enforceCompleteness
    BY <1>1, <1>4, Numbers DEF Safe, UnseenEdgesInTime, Late
  <2> QED  BY <1>2, <1>3, <2>1, <2>2
           DEF Safe, Fail, PermitBounded, BoundedLead, UnseenEdgesInTime, NothingWaitsTooLong,
               NoLatenessFailure
<1>5. CASE ~Late(edge, local)
  <2>1. edges' = edges \cup {edge} /\ UNCHANGED lifeVars
    BY <1>5 DEF ReceiveEdge
  <2>2. NothingWaitsTooLong'
    BY <1>5, <2>1 DEF Safe, ReceiveEdge, lifeVars, NothingWaitsTooLong, Late
  <2>3. ASSUME enforceCompleteness, pending # NoPermit PROVE ~Late(edge, local + pending.half)
    BY <1>1, <2>3, Numbers DEF Safe, PermitBounded, Late
  <2>4. PermitBounded'
    BY <1>1, <2>1, <2>3 DEF Safe, ReceiveEdge, PermitBounded, Late
  <2> QED  BY <1>2, <1>3, <2>1, <2>2, <2>4
           DEF Safe, ReceiveEdge, lifeVars, BoundedLead, UnseenEdgesInTime, NoLatenessFailure
<1> QED  BY <1>4, <1>5

\* The whole ready batch is popped; that one of it is late cannot happen.
LEMMA PopReadyEdgesSafe ==
  ASSUME IInv, PopReadyEdges, UNCHANGED enforceCompleteness
  PROVE  Safe'
<1> USE DEF IInv, timeVars, peerVars, episodeVars, markVars
<1>1. Ready \subseteq edges /\ ~closed /\ held = {} /\ pending = NoPermit
  BY DEF PopReadyEdges, Open, Ready
<1>2. ~ \E e \in Ready : Late(e, local)
  BY <1>1 DEF Safe, NothingWaitsTooLong
<1>3. held' = Ready /\ edges' = edges \ Ready /\ UNCHANGED lifeVars
  BY <1>2 DEF PopReadyEdges
<1>4. \A e \in Ready, f \in edges \ Ready : Before(e, f)
  BY <1>1, Numbers DEF Ready, Before
<1>5. OrderedDelivery'
  BY <1>3, <1>4 DEF PopReadyEdges, OrderedDelivery, Before, Ready
<1>6. NothingWaitsTooLong'
  BY <1>1, <1>3 DEF Safe, PopReadyEdges, lifeVars, NothingWaitsTooLong, Late
<1>7. RearmBelongsToBatch'
  BY <1>1, <1>3 DEF Safe, PopReadyEdges, RearmBelongsToBatch
<1> QED  BY <1>1, <1>3, <1>5, <1>6, <1>7
         DEF Safe, PopReadyEdges, lifeVars, PermitBounded, BoundedLead, UnseenEdgesInTime,
             NoLatenessFailure

\* An episode is opened without a permit outstanding, at the current time.
LEMMA OpenEpisodeSafe ==
  ASSUME IInv, NEW e \in Requests, OpenEpisode(e), pending = NoPermit,
         UNCHANGED <<lifeVars, timeVars, peerVars, pending, edgeVars, markVars, held>>,
         RearmBelongsToBatch',
         UNCHANGED enforceCompleteness
  PROVE  Safe'
<1>1. episodeEnd' = local + 2 * e.cycles /\ e.cycles \in Nat
  BY ConfigAssumption DEF OpenEpisode, Requests
<1>2. BoundedLead'
  BY <1>1, Numbers DEF IInv, Safe, lifeVars, timeVars, peerVars, BoundedLead
<1> QED  BY <1>2
         DEF IInv, Safe, lifeVars, timeVars, peerVars, edgeVars, markVars, PermitBounded,
             UnseenEdgesInTime, NothingWaitsTooLong, Late, OrderedDelivery, Before,
             NoLatenessFailure

\* An episode ends without a permit outstanding, here or with its batch.
LEMMA EndEpisodeSafe ==
  ASSUME IInv, pending = NoPermit, held' \subseteq held,
         UNCHANGED <<lifeVars, timeVars, peerVars, pending, episode, edgeVars, markVars>>,
         \/ episodeOpen' = FALSE
         \/ UNCHANGED <<episodeOpen, episodeEnd>>,
         RearmBelongsToBatch',
         UNCHANGED enforceCompleteness
  PROVE  Safe'
BY DEF IInv, Safe, lifeVars, timeVars, peerVars, edgeVars, markVars, PermitBounded, BoundedLead,
       UnseenEdgesInTime, NothingWaitsTooLong, Late, OrderedDelivery, Before, NoLatenessFailure

\* The peer commits more, or attests completeness further: credit only grows.
LEMMA CreditGrowsSafe ==
  ASSUME IInv, peer' \in Nat, peer' >= peer, watermark' \in Int, watermark' >= watermark,
         UNCHANGED <<lifeVars, timeVars, pending, episodeVars, edges, deliveryVars>>,
         UNCHANGED enforceCompleteness
  PROVE  Safe'
<1> USE DEF IInv, Safe, lifeVars, timeVars, episodeVars, deliveryVars
<1>1. PermitBounded'
  BY Numbers DEF PermitBounded, Late
<1>2. BoundedLead' /\ UnseenEdgesInTime'
  BY Numbers DEF BoundedLead, UnseenEdgesInTime
<1>3. OrderedDelivery'
  BY Numbers DEF OrderedDelivery, Before
<1> QED  BY <1>1, <1>2, <1>3
         DEF NothingWaitsTooLong, Late, RearmBelongsToBatch, NoLatenessFailure

\* A permit is settled without accounting, or a rate is changed between permits.
LEMMA NoAccountSafe ==
  ASSUME IInv, pending' = NoPermit,
         UNCHANGED <<local, peerVars, episodeVars, edgeVars, markVars, deliveryVars>>,
         UNCHANGED lifeVars \/ Fail("validation"),
         UNCHANGED enforceCompleteness
  PROVE  Safe'
<1> USE DEF IInv, peerVars, episodeVars, edgeVars, markVars, deliveryVars
<1>1. OrderedDelivery' /\ RearmBelongsToBatch'
  BY DEF Safe, OrderedDelivery, RearmBelongsToBatch, Before
<1>2. CASE Fail("validation")
  BY <1>1, <1>2, FailSafe DEF LatenessPhases
<1>3. CASE UNCHANGED lifeVars
  BY <1>1, <1>3 DEF Safe, lifeVars, PermitBounded, BoundedLead, UnseenEdgesInTime,
                    NothingWaitsTooLong, Late, NoLatenessFailure
<1> QED  BY <1>2, <1>3

LEMMA SafeStep == ASSUME IInv, [Next]_vars PROVE Safe'
<1>0. UNCHANGED enforceCompleteness
  BY DEF Next, vars
<1> USE <1>0
<1> USE DEF timeVars, peerVars, episodeVars, edgeVars, markVars, deliveryVars
<1>1. CASE UNCHANGED vars
  BY <1>1 DEF vars, lifeVars, IInv, Safe, PermitBounded, BoundedLead, UnseenEdgesInTime,
              NothingWaitsTooLong, Late, OrderedDelivery, Before, RearmBelongsToBatch,
              NoLatenessFailure
<1>2. CASE Reject("validation")
  <2>1. OrderedDelivery' /\ RearmBelongsToBatch'
    BY <1>2 DEF IInv, Safe, Reject, OrderedDelivery, RearmBelongsToBatch, Before
  <2> QED  BY <1>2, <2>1, FailSafe DEF IInv, Reject, LatenessPhases
<1>3. ASSUME NEW e \in Requests, BeginEpisode(e) PROVE Safe'
  <2>1. RearmBelongsToBatch'
    BY <1>3 DEF BeginEpisode, Replaceable, RearmBelongsToBatch
  <2> QED  BY <1>3, <2>1, OpenEpisodeSafe DEF BeginEpisode, Replaceable
<1>4. ASSUME NEW e \in Requests, BeginDeliveryRearm(e) PROVE Safe'
  <2>1. RearmBelongsToBatch'
    BY <1>4 DEF BeginDeliveryRearm, OpenEpisode, RearmBelongsToBatch
  <2> QED  BY <1>4, <2>1, OpenEpisodeSafe DEF BeginDeliveryRearm
<1>5. ASSUME NEW id \in 1..MaxRequests, FinishEpisode(id) PROVE Safe'
  <2>1. RearmBelongsToBatch'
    BY <1>5 DEF FinishEpisode, IInv, Safe, RearmBelongsToBatch
  <2> QED  BY <1>5, <2>1, EndEpisodeSafe DEF FinishEpisode
<1>6. ASSUME NEW maxCpu \in 1..MaxClock, Reserve(maxCpu) PROVE Safe'
  BY <1>6, ReserveSafe
<1>7. ASSUME NEW clock \in 1..MaxClock, NEW switchAt \in raw..clock, NEW newRate \in {1, 2},
             NEW executed \in -1..(MaxInstructions + 1),
             Commit(clock, switchAt, newRate, executed)
      PROVE Safe'
  BY <1>7, CommitSafe
<1>8. ASSUME NEW clock \in 0..MaxClock, NEW newRate \in {1, 2}, CommitUnaccounted(clock, newRate)
      PROVE Safe'
  BY <1>8, NoAccountSafe DEF CommitUnaccounted
<1>9. ASSUME NEW clock \in 0..MaxClock, NEW consistent \in BOOLEAN,
             DiscardPermit(clock, consistent)
      PROVE Safe'
  BY <1>9, NoAccountSafe DEF DiscardPermit
<1>10. ASSUME NEW newRate \in {1, 2}, SetSpeed(newRate) PROVE Safe'
  BY <1>10, NoAccountSafe DEF SetSpeed
<1>11. CASE PopReadyEdges
  BY <1>11, PopReadyEdgesSafe
<1>12. CASE AcknowledgeDelivery
  <2>1. RearmBelongsToBatch'
    BY <1>12 DEF AcknowledgeDelivery, RearmBelongsToBatch
  <2> QED  BY <1>12, <2>1, EndEpisodeSafe DEF AcknowledgeDelivery
<1>13. ASSUME NEW sequence \in 1..MaxSequence, NEW committed \in 0..MaxHalf,
              RecordPeerProgress(sequence, committed)
       PROVE Safe'
  <2>1. peer' \in Nat /\ peer' >= peer
    BY <1>13, BoundAssumption DEF RecordPeerProgress
  <2> QED  BY <1>13, <2>1, CreditGrowsSafe, Numbers DEF RecordPeerProgress, IInv
<1>14. ASSUME NEW sequence \in 1..MaxSequence, NEW at \in 0..MaxHalf, ReceiveEdge(sequence, at)
       PROVE Safe'
  BY <1>14, ReceiveEdgeSafe
<1>15. ASSUME NEW sequence \in 0..MaxSequence, NEW through \in 0..MaxHalf,
              AdvanceWatermark(sequence, through)
       PROVE Safe'
  <2>1. watermark' \in Int /\ watermark' >= watermark /\ peer \in Nat
    BY <1>15, BoundAssumption, Numbers DEF AdvanceWatermark, IInv
  <2> QED  BY <1>15, <2>1, CreditGrowsSafe DEF AdvanceWatermark
<1>16. CASE Cancel \/ Close
  BY <1>16 DEF Cancel, Close, Terminate, IInv, Safe, PermitBounded, BoundedLead,
               UnseenEdgesInTime, NothingWaitsTooLong, OrderedDelivery, Before,
               RearmBelongsToBatch, NoLatenessFailure
<1> QED
  BY <1>1, <1>2, <1>3, <1>4, <1>5, <1>6, <1>7, <1>8, <1>9, <1>10, <1>11, <1>12, <1>13, <1>14,
     <1>15, <1>16, StepCases DEF Accepted

-----------------------------------------------------------------------------
\* What one settled report leaves of the instruction allowance.
LEMMA UnspentShrinks ==
  ASSUME TypeOK, NEW executed \in Int
  PROVE  Unspent(executed) <= instructions
BY DEF Unspent, TypeOK, AccountTypeOK, CreditTypeOK

\* The property of a step that EpisodeNeverReplenished states of all steps.
ShrinksOrMovesOn ==
  /\ episode'.id >= episode.id
  /\ episode'.id = episode.id => /\ Allowance' <= Allowance
                                 /\ instructions' <= instructions
                                 /\ episodeOpen' => episodeOpen

\* An episode is opened only under a request ID larger than every earlier one.
LEMMA OpeningMovesOn ==
  ASSUME TypeOK, NEW e \in Requests, ~StaleRequest(e), OpenEpisode(e)
  PROVE  ShrinksOrMovesOn
<1>1. e.id \in Nat \ {0} /\ episode' = e
  BY BoundAssumption DEF OpenEpisode, Requests
<1>2. episode.id \in Nat /\ (episode = NoEpisode => episode.id = 0)
  BY DEF TypeOK, CreditTypeOK, Episode, NoEpisode
<1> QED  BY <1>1, <1>2 DEF StaleRequest, ShrinksOrMovesOn

\* Any step that keeps or ends the episode while time does not go back.
LEMMA KeepingShrinks ==
  ASSUME TypeOK, episode' = episode, local' \in Nat, local' >= local,
         instructions' \in Nat, instructions' <= instructions,
         \/ episodeOpen' = FALSE
         \/ UNCHANGED <<episodeOpen, episodeEnd>>
  PROVE  ShrinksOrMovesOn
<1>1. episode.id \in Nat /\ local \in Nat /\ episodeEnd \in Nat
  BY DEF TypeOK, AccountTypeOK, CreditTypeOK, Episode, NoEpisode
<1>2. Allowance' <= Allowance
  BY <1>1 DEF Allowance
<1> QED  BY <1>1, <1>2 DEF ShrinksOrMovesOn

LEMMA StepShrinks == ASSUME TypeOK, [Next]_vars PROVE ShrinksOrMovesOn
<1> USE DEF timeVars, episodeVars
<1>0. local \in Nat /\ instructions \in Nat /\ raw \in Nat
  BY DEF TypeOK, AccountTypeOK, CreditTypeOK
<1>1. ASSUME UNCHANGED <<local, episodeVars>> PROVE ShrinksOrMovesOn
  BY <1>0, <1>1, KeepingShrinks
<1>2. CASE UNCHANGED vars \/ Reject("validation")
  BY <1>1, <1>2 DEF vars, Reject
<1>3. ASSUME NEW e \in Requests, BeginEpisode(e) \/ BeginDeliveryRearm(e) PROVE ShrinksOrMovesOn
  BY <1>3, OpeningMovesOn DEF BeginEpisode, BeginDeliveryRearm
<1>4. ASSUME NEW id \in 1..MaxRequests, FinishEpisode(id) PROVE ShrinksOrMovesOn
  <2>1. local' = local /\ episode' = episode /\ episodeOpen' = FALSE /\ instructions' = 0
    BY <1>4 DEF FinishEpisode
  <2>2. local' \in Nat /\ local' >= local /\ instructions' \in Nat /\ instructions' <= instructions
    BY <1>0, <2>1
  <2> QED  BY <2>1, <2>2, KeepingShrinks
<1>5. ASSUME NEW clock \in 1..MaxClock, NEW switchAt \in raw..clock, NEW newRate \in {1, 2},
             NEW executed \in -1..(MaxInstructions + 1),
             Commit(clock, switchAt, newRate, executed)
      PROVE ShrinksOrMovesOn
  <2>1. local' \in Nat /\ local' >= local
    BY <1>0, <1>5, ElapsedType DEF Commit
  <2>2. instructions' \in Nat /\ instructions' <= instructions
    BY <1>0, <1>5, UnspentShrinks, BoundAssumption DEF Commit, Unspent
  <2> QED  BY <1>5, <2>1, <2>2, KeepingShrinks DEF Commit
<1>6. CASE AcknowledgeDelivery
  <2>1. /\ UNCHANGED <<local, episode>>
        /\ \/ episodeOpen' = FALSE /\ instructions' = 0
           \/ UNCHANGED <<episodeOpen, episodeEnd, instructions>>
    BY <1>6 DEF AcknowledgeDelivery
  <2>2. local' \in Nat /\ local' >= local /\ instructions' \in Nat /\ instructions' <= instructions
    BY <1>0, <2>1
  <2> QED  BY <2>1, <2>2, KeepingShrinks
<1>7. ASSUME \/ \E maxCpu \in 1..MaxClock : Reserve(maxCpu)
             \/ \E clock \in 0..MaxClock, newRate \in {1, 2} : CommitUnaccounted(clock, newRate)
             \/ \E clock \in 0..MaxClock, consistent \in BOOLEAN :
                   DiscardPermit(clock, consistent)
             \/ \E newRate \in {1, 2} : SetSpeed(newRate)
             \/ PopReadyEdges
             \/ \E sequence \in 1..MaxSequence, at \in 0..MaxHalf :
                   RecordPeerProgress(sequence, at) \/ ReceiveEdge(sequence, at)
             \/ \E sequence \in 0..MaxSequence, through \in 0..MaxHalf :
                   AdvanceWatermark(sequence, through)
             \/ Cancel \/ Close
      PROVE ShrinksOrMovesOn
  BY <1>1, <1>7 DEF Reserve, CommitUnaccounted, DiscardPermit, SetSpeed, PopReadyEdges,
     RecordPeerProgress, ReceiveEdge, AdvanceWatermark, Cancel, Close, Terminate
<1> QED  BY <1>2, <1>3, <1>4, <1>5, <1>6, <1>7, StepCases DEF Accepted

\* No call refills, reopens or goes back to an earlier rearm episode.
THEOREM EpisodesAreNotReplenished == Spec => EpisodeNeverReplenished
<1>1. ASSUME TypeOK, [Next]_vars PROVE [ShrinksOrMovesOn]_vars
  BY <1>1, StepShrinks
<1>2. [][ShrinksOrMovesOn]_vars => EpisodeNeverReplenished
  BY PTL DEF EpisodeNeverReplenished, ShrinksOrMovesOn
<1> QED  BY <1>1, <1>2, TypeCorrect, PTL DEF Spec

-----------------------------------------------------------------------------
\* The properties of a step that ClosedIsFinal and FirstFailureWins state.
OnlySettles ==
  closed => /\ closed'
            /\ pending' \in {pending, NoPermit}
            /\ pending' = pending => UNCHANGED <<timeVars, instructions>>
            /\ UNCHANGED <<peerVars, episode, episodeOpen, episodeEnd, edgeVars, markVars,
                           deliveryVars>>

KeepsFirstFailure == terminalReason # "none" => UNCHANGED <<terminalReason, failure>>

\* Every call on a closed coordinator but settlement, cancel and close raises.
LEMMA ClosedStep == ASSUME [Next]_vars PROVE OnlySettles
<1> USE DEF OnlySettles, lifeVars, episodeVars
<1>1. CASE UNCHANGED vars
  BY <1>1 DEF vars
<1>2. ASSUME NEW clock \in 1..MaxClock, NEW switchAt \in raw..clock, NEW newRate \in {1, 2},
             NEW executed \in -1..(MaxInstructions + 1),
             Commit(clock, switchAt, newRate, executed)
      PROVE OnlySettles
  BY <1>2 DEF Commit
<1>3. ASSUME \/ \E clock \in 0..MaxClock, newRate \in {1, 2} : CommitUnaccounted(clock, newRate)
             \/ \E clock \in 0..MaxClock, consistent \in BOOLEAN :
                   DiscardPermit(clock, consistent)
      PROVE OnlySettles
  BY <1>3 DEF CommitUnaccounted, DiscardPermit, Fail
<1>4. CASE Cancel \/ Close
  BY <1>4 DEF Cancel, Close, Terminate
<1>5. ASSUME \/ Reject("validation")
             \/ \E e \in Requests : BeginEpisode(e) \/ BeginDeliveryRearm(e)
             \/ \E id \in 1..MaxRequests : FinishEpisode(id)
             \/ \E maxCpu \in 1..MaxClock : Reserve(maxCpu)
             \/ \E newRate \in {1, 2} : SetSpeed(newRate)
             \/ PopReadyEdges
             \/ AcknowledgeDelivery
             \/ \E sequence \in 1..MaxSequence, at \in 0..MaxHalf :
                   RecordPeerProgress(sequence, at) \/ ReceiveEdge(sequence, at)
             \/ \E sequence \in 0..MaxSequence, through \in 0..MaxHalf :
                   AdvanceWatermark(sequence, through)
      PROVE ~closed
  BY <1>5 DEF Open, Reject, BeginEpisode, BeginDeliveryRearm, FinishEpisode, Reserve, SetSpeed,
     PopReadyEdges, AcknowledgeDelivery, RecordPeerProgress, ReceiveEdge, AdvanceWatermark
<1> QED  BY <1>1, <1>2, <1>3, <1>4, <1>5, StepCases DEF Accepted

LEMMA FirstFailureStep == ASSUME [Next]_vars PROVE KeepsFirstFailure
<1> USE DEF KeepsFirstFailure, Fail, lifeVars
<1>1. CASE UNCHANGED vars
  BY <1>1 DEF vars
<1>2. ASSUME \/ Reject("validation")
             \/ \E e \in Requests : BeginEpisode(e) \/ BeginDeliveryRearm(e)
             \/ \E id \in 1..MaxRequests : FinishEpisode(id)
             \/ \E maxCpu \in 1..MaxClock : Reserve(maxCpu)
             \/ \E newRate \in {1, 2} : SetSpeed(newRate)
             \/ PopReadyEdges
             \/ AcknowledgeDelivery
      PROVE KeepsFirstFailure
  BY <1>2 DEF Reject, BeginEpisode, BeginDeliveryRearm, FinishEpisode, Reserve, SetSpeed,
     PopReadyEdges, AcknowledgeDelivery
<1>3. ASSUME \/ \E sequence \in 1..MaxSequence, at \in 0..MaxHalf :
                   RecordPeerProgress(sequence, at) \/ ReceiveEdge(sequence, at)
             \/ \E sequence \in 0..MaxSequence, through \in 0..MaxHalf :
                   AdvanceWatermark(sequence, through)
             \/ \E clock \in 0..MaxClock, newRate \in {1, 2} : CommitUnaccounted(clock, newRate)
             \/ \E clock \in 0..MaxClock, consistent \in BOOLEAN :
                   DiscardPermit(clock, consistent)
             \/ Cancel \/ Close
      PROVE KeepsFirstFailure
  BY <1>3 DEF RecordPeerProgress, ReceiveEdge, AdvanceWatermark, CommitUnaccounted, DiscardPermit,
     Cancel, Close, Terminate
<1>4. ASSUME NEW clock \in 1..MaxClock, NEW switchAt \in raw..clock, NEW newRate \in {1, 2},
             NEW executed \in -1..(MaxInstructions + 1),
             Commit(clock, switchAt, newRate, executed)
      PROVE KeepsFirstFailure
  BY <1>4 DEF Commit
<1> QED  BY <1>1, <1>2, <1>3, <1>4, StepCases DEF Accepted

\* A closed coordinator grants and accepts nothing; a permit is settled once.
THEOREM ClosedCoordinatorIsFinal == Spec => ClosedIsFinal
<1>1. [Next]_vars => [OnlySettles]_vars
  BY ClosedStep
<1>2. [][OnlySettles]_vars => ClosedIsFinal
  BY PTL DEF ClosedIsFinal, OnlySettles
<1> QED  BY <1>1, <1>2, PTL DEF Spec

\* The first terminal event is never rewritten.
THEOREM FirstFailureIsKept == Spec => FirstFailureWins
<1>1. [Next]_vars => [KeepsFirstFailure]_vars
  BY FirstFailureStep
<1>2. [][KeepsFirstFailure]_vars => FirstFailureWins
  BY PTL DEF FirstFailureWins, KeepsFirstFailure
<1> QED  BY <1>1, <1>2, PTL DEF Spec

-----------------------------------------------------------------------------
LEMMA Invariance == Spec => []IInv
<1>1. Init => IInv
  BY TypeInit, InitSafe DEF IInv
<1>2. IInv /\ [Next]_vars => IInv'
  BY TypeStep, SafeStep DEF IInv
<1> QED  BY <1>1, <1>2, PTL DEF Spec

\* Whatever is called while a permit runs, spending it in full stays within the
\* lead over the peer, the episode, the held batch's deadline and the watermark.
THEOREM PermitsAreBounded == Spec => []PermitBounded
<1>1. IInv => PermitBounded
  BY DEF IInv, Safe
<1> QED  BY <1>1, Invariance, PTL

\* A live emulator is at most the quantum and the rearm budget ahead.
THEOREM LeadIsBounded == Spec => []BoundedLead
<1>1. IInv => BoundedLead
  BY DEF IInv, Safe
<1> QED  BY <1>1, Invariance, PTL

\* With enforce_completeness no sequence of calls fails for lateness, and every
\* edge the peer may still announce would be in time; without it, what was taken
\* in time is delivered in time.
THEOREM LatenessIsPrevented == Spec => [](NoLatenessFailure /\ UnseenEdgesInTime)
<1>1. IInv => NoLatenessFailure /\ UnseenEdgesInTime
  BY DEF IInv, Safe
<1> QED  BY <1>1, Invariance, PTL

\* Nothing queued or held in a live epoch is past its deadline.
THEOREM WaitingEdgesAreInTime == Spec => []NothingWaitsTooLong
<1>1. IInv => NothingWaitsTooLong
  BY DEF IInv, Safe
<1> QED  BY <1>1, Invariance, PTL

\* Batches leave the coordinator complete, due and in emulated-time order.
THEOREM DeliveryIsOrdered == Spec => []OrderedDelivery
<1>1. IInv => OrderedDelivery
  BY DEF IInv, Safe
<1> QED  BY <1>1, Invariance, PTL

\* As long as an episode counts for the delivery of a batch, the batch is held
\* and the episode is the one under way.
THEOREM RearmsBelongToBatch == Spec => []RearmBelongsToBatch
<1>1. IInv => RearmBelongsToBatch
  BY DEF IInv, Safe
<1> QED  BY <1>1, Invariance, PTL
=============================================================================
