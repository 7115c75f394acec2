---------------------------- MODULE EmulatedTime ----------------------------
(***************************************************************************)
(* EmulatedTimeCoordinator (src/pokered_harness/link/emulated_time.py).    *)
(*                                                                         *)
(* One coordinator governs one emulator: it grants execution permits,      *)
(* accounts the half cycles that were really executed, and releases the    *)
(* peer's serial edges in emulated time.  Every public method runs under   *)
(* the one Condition lock, so a method call is one action; calls come from *)
(* the emulator's owner thread and from the transport, in any order and    *)
(* with any arguments.  A call on a closed coordinator raises and changes  *)
(* nothing, except that an outstanding permit may still be settled: only   *)
(* those calls are actions once closed is TRUE.                            *)
(*                                                                         *)
(* Abstractions: an epoch or type error, a permit or batch token that is   *)
(* not the current one, and reset() are the one action ContractViolation,  *)
(* since all of them do exactly _fail(); permits and batches need no token *)
(* then.  A payload is not kept (two edges differ in time or sequence).    *)
(* held is the popped batch as a set; its order is (at, seq).  The batch's *)
(* deadline is its earliest edge plus MaxLateness.                         *)
(***************************************************************************)
EXTENDS Integers, FiniteSets

CONSTANTS
  QuantumCycles,        \* quantum_cycles, full cycles
  RearmBudget,          \* rearm_budget, full cycles
  MaxEdgeLateness,      \* max_edge_lateness, full cycles
  MaxPendingEdges,      \* MAX_PENDING_EDGES
  MaxClock,             \* bound: raw CPU clocks reported by the caller
  MaxHalf,              \* bound: half-cycle times named by the peer
  MaxSequence,          \* bound: progress and edge receipt sequences
  MaxRequests,          \* bound: episode request IDs
  MaxInstructions       \* bound: instruction caps and counts

ASSUME ConfigAssumption ==
  /\ QuantumCycles \in Nat \ {0}
  /\ RearmBudget \in Nat
  /\ MaxEdgeLateness \in Nat
  /\ MaxPendingEdges \in Nat \ {0}

ASSUME BoundAssumption ==
  /\ {MaxClock, MaxHalf, MaxSequence, MaxRequests, MaxInstructions} \subseteq Nat

VARIABLES
  closed, cancelled, terminalReason, failure,     \* lifecycle
  raw, observedRaw, rate, local,                  \* _raw _observed_raw _rate _local
  peer, progressSequence,                         \* _peer _progress_sequence
  pending,                                        \* _pending (Permit)
  episode, episodeOpen, episodeEnd, instructions, \* _episode ... _instructions
  edgeSequence, lastEdgeAt, edges,                \* receipt prefix and heap
  watermark, watermarkSequence,
  held, deliveryEpisode,                          \* _held_delivery, _delivery_episode
  enforceCompleteness                             \* set by __init__

lifeVars == <<closed, cancelled, terminalReason, failure>>
timeVars == <<raw, observedRaw, rate, local>>
peerVars == <<peer, progressSequence>>
episodeVars == <<episode, episodeOpen, episodeEnd, instructions>>
edgeVars == <<edgeSequence, lastEdgeAt, edges>>
markVars == <<watermark, watermarkSequence>>
deliveryVars == <<held, deliveryEpisode>>
vars == <<lifeVars, timeVars, peerVars, pending, episodeVars, edgeVars, markVars,
          deliveryVars, enforceCompleteness>>

-----------------------------------------------------------------------------
\* Units: budgets are full cycles, every account is in half cycles.
Quantum == 2 * QuantumCycles
Rearm == 2 * RearmBudget
MaxLateness == 2 * MaxEdgeLateness

\* Half cycles of a number of CPU cycles: 2 at normal speed, 1 at double speed.
Halves(cycles, r) == IF r = 2 THEN 2 * cycles ELSE cycles

NoPermit == [cpu |-> 0, half |-> 0, cap |-> 0]
NoEpisode == [id |-> 0, cycles |-> 0, cap |-> 0]

Edge == [at : Nat, seq : Nat \ {0}]
Permit == [cpu : Nat \ {0}, half : Nat \ {0}, cap : Nat]
Episode == [id : Nat \ {0}, cycles : Nat \ {0}, cap : Nat \ {0}]

LatenessPhases == {"commit.held_lateness", "commit.edge_lateness", "delivery.lateness",
                   "receive_edge.lateness", "reserve.held_lateness"}
Phases == LatenessPhases \cup {"validation", "reserve.boundary_lateness"}

Before(e, f) == e.at < f.at \/ (e.at = f.at /\ e.seq < f.seq)

Late(e, now) == now > e.at + MaxLateness

\* _debt() > 0.
Indebted == local > peer + Quantum

\* _active_episode().
ActiveEpisode == episodeOpen /\ episodeEnd > local /\ instructions > 0

\* _open: every method but commit, discard, cancel and close starts with it.
OpenUnlessFailed == failure = "none"
Open == ~closed

\* _fail: the first terminal event keeps its reason, and only a contract
\* failure that is that first event leaves a FailureSnapshot.
Fail(phase) ==
  /\ closed' = TRUE
  /\ terminalReason' = IF terminalReason = "none" THEN "failed" ELSE terminalReason
  /\ failure' = IF terminalReason = "none" THEN phase ELSE failure
  /\ UNCHANGED cancelled

\* A rejected call: the contract failure and nothing else.
Reject(phase) ==
  /\ Open
  /\ Fail(phase)
  /\ UNCHANGED <<timeVars, peerVars, pending, episodeVars, edgeVars, markVars, deliveryVars>>

ContractViolation == Reject("validation")

-----------------------------------------------------------------------------
Init ==
  /\ closed = FALSE /\ cancelled = FALSE /\ terminalReason = "none" /\ failure = "none"
  /\ raw = 0 /\ observedRaw = 0 /\ rate \in {1, 2} /\ local = 0
  /\ peer = 0 /\ progressSequence = 0
  /\ pending = NoPermit
  /\ episode = NoEpisode /\ episodeOpen = FALSE /\ episodeEnd = 0 /\ instructions = 0
  /\ edgeSequence = 0 /\ lastEdgeAt = 0 /\ edges = {}
  /\ watermark = -1 /\ watermarkSequence = 0
  /\ held = {} /\ deliveryEpisode = NoEpisode
  /\ enforceCompleteness \in BOOLEAN

-----------------------------------------------------------------------------
\* Rearm episodes.

OpenEpisode(e) ==
  /\ episode' = e
  /\ episodeOpen' = TRUE
  /\ episodeEnd' = local + 2 * e.cycles
  /\ instructions' = e.cap

StaleRequestById(e) == episode # NoEpisode /\ e.id < episode.id
StaleRequest(e) == episode # NoEpisode /\ e.id <= episode.id

\* The current episode may not be replaced: it belongs to a held batch, or a
\* permit, a debt or unspent credit is outstanding.
ReplaceableUnlessActive == pending = NoPermit /\ ~Indebted /\ ~ActiveEpisode
Replaceable == deliveryEpisode = NoEpisode /\ pending = NoPermit /\ ~Indebted /\ ~ActiveEpisode

\* begin_episode
BeginEpisode(e) ==
  /\ e.cycles <= RearmBudget
  /\ ~StaleRequest(e)
  /\ Replaceable
  /\ Open
  /\ OpenEpisode(e)
  /\ UNCHANGED <<lifeVars, timeVars, peerVars, pending, edgeVars, markVars, deliveryVars>>

BeginEpisodeRejected(e) ==
  /\ e # episode
  /\ \/ e.cycles > RearmBudget
     \/ StaleRequest(e)
     \/ ~Replaceable
  /\ Reject("validation")

\* begin_delivery_rearm, called with the pending batch's token.  The second
\* call of begin_episode inside it repeats the debt and activity checks.
BeginDeliveryRearm(e) ==
  /\ Open
  /\ e.cycles <= RearmBudget
  /\ held # {}
  /\ pending = NoPermit
  /\ deliveryEpisode = NoEpisode
  /\ ~StaleRequest(e)
  /\ ~Indebted
  /\ ~ActiveEpisode
  /\ OpenEpisode(e)
  /\ deliveryEpisode' = e
  /\ UNCHANGED <<lifeVars, timeVars, peerVars, pending, edgeVars, markVars, held>>

BeginDeliveryRearmRejected(e) ==
  /\ \/ e.cycles > RearmBudget
     \/ held = {}
     \/ pending # NoPermit
     \/ deliveryEpisode # NoEpisode /\ e # deliveryEpisode
     \/ deliveryEpisode = NoEpisode /\ (StaleRequest(e) \/ Indebted \/ ActiveEpisode)
  /\ Reject("validation")

\* finish_episode(request_id); repeating it for the current ID is accepted.
FinishEpisode(id) ==
  /\ Open
  /\ episode # NoEpisode /\ id = episode.id
  /\ pending = NoPermit
  /\ episodeOpen' = FALSE
  /\ episodeEnd' = local
  /\ instructions' = 0
  /\ UNCHANGED <<lifeVars, timeVars, peerVars, pending, episode, edgeVars, markVars,
                 deliveryVars>>

FinishEpisodeRejected(id) ==
  /\ episode = NoEpisode \/ id # episode.id \/ pending # NoPermit
  /\ Reject("validation")

-----------------------------------------------------------------------------
\* Permits.

\* The conditions under which _reserve returns None before looking at time.
ReserveBlocked ==
  \/ pending # NoPermit
  \/ held # {} /\ ~(deliveryEpisode # NoEpisode /\ episode = deliveryEpisode /\ ActiveEpisode)
  \/ progressSequence = 0
  \/ episodeOpen /\ instructions = 0

\* A permit of this many cycles ends within every ceiling _reserve takes the
\* minimum of.
FitsIgnoringWatermark(cycles) ==
  LET end == local + Halves(cycles, rate) IN
  /\ end <= peer + Quantum + (IF episodeOpen THEN Rearm ELSE 0)
  /\ episodeOpen => end <= episodeEnd
  /\ \A e \in held \cup edges : end <= e.at + MaxLateness
FitsIgnoringHeldDeadline(cycles) ==
  LET end == local + Halves(cycles, rate) IN
  /\ end <= peer + Quantum + (IF episodeOpen THEN Rearm ELSE 0)
  /\ episodeOpen => end <= episodeEnd
  /\ \A e \in edges : end <= e.at + MaxLateness
  /\ enforceCompleteness => end <= watermark + MaxLateness
Fits(cycles) ==
  LET end == local + Halves(cycles, rate) IN
  /\ end <= peer + Quantum + (IF episodeOpen THEN Rearm ELSE 0)
  /\ episodeOpen => end <= episodeEnd
  /\ \A e \in held \cup edges : end <= e.at + MaxLateness
  /\ enforceCompleteness => end <= watermark + MaxLateness

\* The first instruction boundary at or after the earliest queued edge.
Boundary(at) == local + Halves((at - local + rate - 1) \div rate, rate)

BoundaryTooLate ==
  \E e \in edges : /\ \A f \in edges : e = f \/ Before(e, f)
                   /\ Boundary(e.at) > e.at + MaxLateness

EdgeDue == \E e \in edges : e.at <= local

\* reserve(max_cpu_cycles) and each attempt of wait_for_permit.  An attempt
\* that returns None changes nothing and is not an action.
Grant(maxCpu) ==
  \E cycles \in 1..maxCpu :
     /\ Fits(cycles)
     /\ cycles = maxCpu \/ ~Fits(cycles + 1)
     /\ pending' = [cpu |-> cycles, half |-> Halves(cycles, rate),
                    cap |-> IF episodeOpen THEN instructions ELSE cycles]

Reserve(maxCpu) ==
  /\ Open
  /\ ~ReserveBlocked
  /\ IF \E e \in held : Late(e, local)
     THEN Fail("reserve.held_lateness") /\ UNCHANGED pending
     ELSE /\ ~EdgeDue
          /\ IF BoundaryTooLate
             THEN Fail("reserve.boundary_lateness") /\ UNCHANGED pending
             ELSE Grant(maxCpu) /\ UNCHANGED lifeVars
  /\ UNCHANGED <<timeVars, peerVars, episodeVars, edgeVars, markVars, deliveryVars>>

\* What commit leaves of the instruction allowance.
UnspentUnclamped(executed) ==
  IF episodeOpen /\ executed >= 0 THEN instructions - executed ELSE instructions
Unspent(executed) ==
  IF ~episodeOpen \/ executed < 0 THEN instructions
  ELSE IF executed > instructions THEN 0
  ELSE instructions - executed

\* The report exceeds the permit in CPU cycles, half cycles or instructions,
\* or its instruction count is no count.
OverrunInCpuCycles(clock, elapsed, executed) ==
  clock - raw > pending.cpu \/ executed > pending.cap \/ executed < 0
Overrun(clock, elapsed, executed) ==
  \/ clock - raw > pending.cpu
  \/ elapsed > pending.half
  \/ executed > pending.cap \/ executed < 0

\* The lateness failure commit finds at the new local time, held edges first.
LatenessAt(now) ==
  IF \E e \in held : Late(e, now) THEN "commit.held_lateness"
  ELSE IF \E e \in edges : Late(e, now) THEN "commit.edge_lateness"
  ELSE "none"

\* commit with a usable report: raw_cpu_clock moved to clock, the rate became
\* newRate at switchAt (no transition is newRate = rate), executed counts the
\* instructions (-1 stands for an invalid count).  Actuals are accounted first,
\* also on a closed coordinator; then the report is judged.
Commit(clock, switchAt, newRate, executed) ==
  LET elapsed == Halves(switchAt - raw, rate) + Halves(clock - switchAt, newRate)
      now == local + elapsed
  IN
  /\ pending # NoPermit
  /\ clock > raw
  /\ observedRaw' = clock /\ raw' = clock /\ rate' = newRate /\ local' = now
  /\ pending' = NoPermit
  /\ instructions' = Unspent(executed)
  /\ IF closed THEN UNCHANGED lifeVars
     ELSE IF Overrun(clock, elapsed, executed) THEN Fail("validation")
     ELSE IF LatenessAt(now) # "none" THEN Fail(LatenessAt(now))
     ELSE UNCHANGED lifeVars
  /\ UNCHANGED <<peerVars, episode, episodeOpen, episodeEnd, edgeVars, markVars, deliveryVars>>

\* commit with a malformed transition, or with a clock that did not advance:
\* only the observed endpoint is kept (and the rate, if the transition was
\* well formed), because the normalized interval is unknown.
CommitUnaccounted(clock, newRate) ==
  /\ pending # NoPermit
  /\ clock # raw => newRate = rate
  /\ observedRaw' = clock
  /\ rate' = newRate
  /\ pending' = NoPermit
  /\ Fail("validation")
  /\ UNCHANGED <<raw, local, peerVars, episodeVars, edgeVars, markVars, deliveryVars>>

\* discard_unconsumed_permit; a report of any execution fails the epoch.
DiscardPermit(clock, consistent) ==
  /\ pending # NoPermit
  /\ observedRaw' = clock
  /\ pending' = NoPermit
  /\ IF clock = raw /\ consistent THEN UNCHANGED lifeVars ELSE Fail("validation")
  /\ UNCHANGED <<raw, rate, local, peerVars, episodeVars, edgeVars, markVars, deliveryVars>>

\* set_speed
SetSpeed(newRate) ==
  /\ Open
  /\ pending = NoPermit
  /\ rate' = newRate
  /\ UNCHANGED <<lifeVars, raw, observedRaw, local, peerVars, pending, episodeVars, edgeVars,
                 markVars, deliveryVars>>

SetSpeedRejected(clock) ==
  /\ pending # NoPermit \/ clock # raw
  /\ Reject("validation")

-----------------------------------------------------------------------------
\* Peer progress, edges, completeness.

\* record_peer_progress: contiguous, monotone, anchored at zero.
RecordPeerProgress(sequence, committed) ==
  /\ Open
  /\ sequence = progressSequence + 1
  /\ progressSequence = 0 => committed = 0
  /\ committed >= peer
  /\ progressSequence' = sequence
  /\ peer' = committed
  /\ UNCHANGED <<lifeVars, timeVars, pending, episodeVars, edgeVars, markVars, deliveryVars>>

RecordPeerProgressRejected(sequence, committed) ==
  /\ IF sequence = progressSequence
     THEN committed # peer
     ELSE \/ sequence # progressSequence + 1
          \/ progressSequence = 0 /\ committed # 0
          \/ committed < peer
  /\ Reject("validation")

\* receive_edge.  An exact repetition of the latest edge returns False.
ReceiveEdge(sequence, at) ==
  LET edge == [at |-> at, seq |-> sequence] IN
  /\ Open
  /\ sequence = edgeSequence + 1
  /\ at > watermark
  /\ IF Late(edge, local)
     THEN Fail("receive_edge.lateness") /\ UNCHANGED edgeVars
     ELSE /\ Cardinality(edges) < MaxPendingEdges
          /\ edgeSequence' = sequence
          /\ lastEdgeAt' = at
          /\ edges' = edges \cup {edge}
          /\ UNCHANGED lifeVars
  /\ UNCHANGED <<timeVars, peerVars, pending, episodeVars, markVars, deliveryVars>>

ReceiveEdgeRejected(sequence, at) ==
  /\ IF sequence = edgeSequence
     THEN at # lastEdgeAt
     ELSE \/ sequence # edgeSequence + 1
          \/ at <= watermark
          \/ /\ Cardinality(edges) >= MaxPendingEdges
             /\ ~Late([at |-> at, seq |-> sequence], local)
  /\ Reject("validation")

\* advance_watermark
AdvanceWatermark(sequence, through) ==
  /\ Open
  /\ sequence = edgeSequence
  /\ sequence >= watermarkSequence
  /\ through >= watermark
  /\ watermark' = through
  /\ watermarkSequence' = sequence
  /\ UNCHANGED <<lifeVars, timeVars, peerVars, pending, episodeVars, edgeVars, deliveryVars>>

AdvanceWatermarkRejected(sequence, through) ==
  /\ sequence # edgeSequence \/ sequence < watermarkSequence \/ through < watermark
  /\ Reject("validation")

-----------------------------------------------------------------------------
\* Delivery.

ReadyByClock == {e \in edges : e.at <= local}
Ready == {e \in edges : e.at <= local /\ e.at <= watermark}

\* pop_ready_edges: the whole ready batch, or a failure at its earliest edge
\* (the latest one of the batch).  An empty batch changes nothing.
PopReadyEdges ==
  /\ Open
  /\ pending = NoPermit
  /\ held = {}
  /\ Ready # {}
  /\ IF \E e \in Ready : Late(e, local)
     THEN /\ Fail("delivery.lateness")
          /\ edges' = edges \ {e \in Ready : \A f \in Ready : e = f \/ Before(e, f)}
          /\ UNCHANGED held
     ELSE /\ held' = Ready
          /\ edges' = edges \ Ready
          /\ UNCHANGED lifeVars
  /\ UNCHANGED <<timeVars, peerVars, pending, episodeVars, edgeSequence, lastEdgeAt, markVars,
                 deliveryEpisode>>

\* acknowledge_delivery with the pending batch's token.
AcknowledgeDelivery ==
  /\ Open
  /\ held # {}
  /\ pending = NoPermit
  /\ IF deliveryEpisode # NoEpisode
     THEN episodeOpen' = FALSE /\ episodeEnd' = local /\ instructions' = 0
     ELSE UNCHANGED <<episodeOpen, episodeEnd, instructions>>
  /\ held' = {}
  /\ deliveryEpisode' = NoEpisode
  /\ UNCHANGED <<lifeVars, timeVars, peerVars, pending, episode, edgeVars, markVars>>

AcknowledgeDeliveryRejected ==
  /\ held = {} \/ pending # NoPermit
  /\ Reject("validation")

-----------------------------------------------------------------------------
\* Lifecycle, callable from any thread at any time.
Terminate(reason) ==
  /\ closed' = TRUE
  /\ terminalReason' = IF terminalReason = "none" THEN reason ELSE terminalReason
  /\ UNCHANGED <<failure, timeVars, peerVars, pending, episodeVars, edgeVars, markVars,
                 deliveryVars>>

Cancel == cancelled' = TRUE /\ Terminate("cancelled")

Close == UNCHANGED cancelled /\ Terminate("closed")

-----------------------------------------------------------------------------
Requests == [id : 1..MaxRequests, cycles : 1..(RearmBudget + 1), cap : 1..MaxInstructions]

OwnerStep ==
  \/ \E e \in Requests : BeginEpisode(e)
  \/ \E e \in Requests : BeginEpisodeRejected(e)
  \/ \E e \in Requests : BeginDeliveryRearm(e)
  \/ \E e \in Requests : BeginDeliveryRearmRejected(e)
  \/ \E id \in 1..MaxRequests : FinishEpisode(id)
  \/ \E id \in 1..MaxRequests : FinishEpisodeRejected(id)
  \/ \E maxCpu \in 1..MaxClock : Reserve(maxCpu)
  \/ \E clock \in 1..MaxClock : \E switchAt \in raw..clock, newRate \in {1, 2},
        executed \in -1..(MaxInstructions + 1) : Commit(clock, switchAt, newRate, executed)
  \/ \E clock \in 0..MaxClock, newRate \in {1, 2} : CommitUnaccounted(clock, newRate)
  \/ \E clock \in 0..MaxClock, consistent \in BOOLEAN : DiscardPermit(clock, consistent)
  \/ \E newRate \in {1, 2} : SetSpeed(newRate)
  \/ \E clock \in 0..MaxClock : SetSpeedRejected(clock)
  \/ PopReadyEdges
  \/ AcknowledgeDelivery
  \/ AcknowledgeDeliveryRejected

TransportStep ==
  \/ \E sequence \in 1..MaxSequence, committed \in 0..MaxHalf :
        RecordPeerProgress(sequence, committed)
  \/ \E sequence \in 1..MaxSequence, committed \in 0..MaxHalf :
        RecordPeerProgressRejected(sequence, committed)
  \/ \E sequence \in 1..MaxSequence, at \in 0..MaxHalf : ReceiveEdge(sequence, at)
  \/ \E sequence \in 1..MaxSequence, at \in 0..MaxHalf : ReceiveEdgeRejected(sequence, at)
  \/ \E sequence \in 0..MaxSequence, through \in 0..MaxHalf :
        AdvanceWatermark(sequence, through)
  \/ \E sequence \in 0..MaxSequence, through \in 0..MaxHalf :
        AdvanceWatermarkRejected(sequence, through)

Next ==
  /\ \/ OwnerStep
     \/ TransportStep
     \/ ContractViolation
     \/ Cancel
     \/ Close
  /\ UNCHANGED enforceCompleteness

Spec == Init /\ [][Next]_vars

-----------------------------------------------------------------------------
(***************************************************************************)
(* Properties.  OpenUnlessFailed, StaleRequestById,                        *)
(* ReplaceableUnlessActive, FitsIgnoringWatermark,                         *)
(* FitsIgnoringHeldDeadline, OverrunInCpuCycles, UnspentUnclamped and      *)
(* ReadyByClock above are deliberately wrong variants of the definitions   *)
(* that follow them; no action uses them.  They serve only to see that a   *)
(* property notices such a defect.                                         *)
(***************************************************************************)
FailureRecords == {"none"} \cup Phases

LifeTypeOK ==
  /\ closed \in BOOLEAN /\ cancelled \in BOOLEAN
  /\ terminalReason \in {"none", "failed", "cancelled", "closed"}
  /\ failure \in FailureRecords

AccountTypeOK ==
  /\ raw \in Nat /\ observedRaw \in Nat /\ rate \in {1, 2} /\ local \in Nat
  /\ peer \in Nat /\ progressSequence \in Nat

CreditTypeOK ==
  /\ pending \in Permit \cup {NoPermit}
  /\ episode \in Episode \cup {NoEpisode} /\ episodeOpen \in BOOLEAN
  /\ episodeEnd \in Nat /\ instructions \in Nat

EdgeTypeOK ==
  /\ edgeSequence \in Nat /\ lastEdgeAt \in Nat /\ edges \subseteq Edge
  /\ watermark \in Nat \cup {-1} /\ watermarkSequence \in Nat
  /\ held \subseteq Edge /\ deliveryEpisode \in Episode \cup {NoEpisode}

\* The shape of the coordinator's state: what __init__ sets up and every
\* method keeps, whatever the caller passes.
TypeOK ==
  /\ LifeTypeOK /\ AccountTypeOK /\ CreditTypeOK /\ EdgeTypeOK
  /\ enforceCompleteness \in BOOLEAN

\* An outstanding permit, if spent in full, stays inside every credit that was
\* granted, although the peer, the edges and the watermark move while it runs:
\* the lead over the peer, the rearm episode, and the deadline of a held batch.
\* Code: the ceilings of _reserve, against everything that may run before commit.
PermitBounded ==
  (pending # NoPermit /\ ~closed) =>
     LET end == local + pending.half IN
     /\ end <= peer + Quantum + (IF episodeOpen THEN Rearm ELSE 0)
     /\ episodeOpen => end <= episodeEnd /\ pending.cap <= instructions
     /\ \A e \in held : ~Late(e, end)
     /\ held # {} => episodeOpen /\ episode = deliveryEpisode
     /\ enforceCompleteness => /\ end <= watermark + MaxLateness
                               /\ \A e \in edges : ~Late(e, end)

\* While the epoch is alive this emulator is never more than the quantum and
\* the rearm budget ahead of the peer's committed progress, and inside an
\* episode never past its end: a speed switch inside a permit cannot stretch it.
BoundedLead ==
  ~closed => /\ local <= peer + Quantum + Rearm
             /\ episodeOpen => local <= episodeEnd

\* With enforce_completeness, whatever edge the peer may still announce would
\* be within the lateness bound: execution never outruns the watermark by more.
UnseenEdgesInTime ==
  (enforceCompleteness /\ ~closed) => local = 0 \/ local <= watermark + MaxLateness

\* With enforce_completeness no caller can bring about a failure for lateness:
\* a misreporting one fails earlier, for its report, and a truthful one never.
\* Without it an edge may arrive too late, but one that was taken in time is
\* delivered in time: the three guards on a delivery in progress never fire first.
NoLatenessFailure ==
  /\ enforceCompleteness => failure \notin LatenessPhases
  /\ failure \notin {"reserve.held_lateness", "commit.held_lateness", "delivery.lateness"}

\* In a live epoch no queued and no popped edge is already past its deadline.
NothingWaitsTooLong ==
  ~closed => \A e \in held \cup edges : ~Late(e, local)

\* Delivery is in emulated-time order across calls: what was popped precedes
\* everything still queued, was complete (attested by the watermark) and due.
OrderedDelivery ==
  /\ \A e \in held, f \in edges : Before(e, f)
  /\ \A e \in held : e.at <= watermark /\ e.at <= local

\* A delivery rearm exists only for a batch that is still held, and its episode
\* is the current one: no other episode can replace it before acknowledgement.
RearmBelongsToBatch ==
  deliveryEpisode # NoEpisode => held # {} /\ episode = deliveryEpisode

Allowance ==
  IF episodeOpen /\ episodeEnd > local THEN episodeEnd - local ELSE 0

\* Under one request ID the cycle and instruction allowances only shrink, and
\* IDs never go back: neither a retry nor a late or conflicting one refills or
\* reopens an episode.  Code: begin_episode, begin_delivery_rearm, finish_episode.
EpisodeNeverReplenished ==
  [][/\ episode'.id >= episode.id
     /\ episode'.id = episode.id => /\ Allowance' <= Allowance
                                    /\ instructions' <= instructions
                                    /\ episodeOpen' => episodeOpen]_vars

\* A closed coordinator stays closed, grants nothing and accepts nothing from
\* the peer; all that may happen is that an outstanding permit is settled once.
ClosedIsFinal ==
  [][closed => /\ closed'
               /\ pending' \in {pending, NoPermit}
               /\ pending' = pending => UNCHANGED <<timeVars, instructions>>
               /\ UNCHANGED <<peerVars, episode, episodeOpen, episodeEnd, edgeVars, markVars,
                              deliveryVars>>]_vars

\* The first terminal event keeps its reason and its failure record: neither a
\* later failure, cancellation or close nor the settlement of the permit that
\* was running rewrites them.  Code: _fail, cancel, close, FailureSnapshot.
FirstFailureWins ==
  [][terminalReason # "none" => UNCHANGED <<terminalReason, failure>>]_vars
=============================================================================
