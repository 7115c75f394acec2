----------------------------- MODULE TimedCable -----------------------------
(***************************************************************************)
(* Two TimedLinkSessions over one wire (link/timed_link_session.py, with   *)
(* execution_adapter.py and the native serial core they drive).            *)
(*                                                                         *)
(* Each side is one owner thread that runs its emulator instruction by     *)
(* instruction: pump the wire, reserve credit, execute, commit, tick the   *)
(* serial core.  A side that clocks the cable (internal clock) stops in    *)
(* on_edge until the other side has applied the edge and answered.  The    *)
(* coordinator of a side is the record co[s]; Clock(s) below states that   *)
(* it only ever moves as EmulatedTime says.                                *)
(*                                                                         *)
(* Abstractions.  Time is in CPU cycles: both emulators run at normal      *)
(* speed (half-cycle arithmetic and speed switches are EmulatedTime's).    *)
(* wire[s] is everything s has sent and the other owner has not staged:    *)
(* socket, reader queue, in order (the channel is TimedWire's subject).    *)
(* Data bits are not kept.  _poll and _consume take the messages in wire   *)
(* order and _poll may miss the most recent ones, so they are one message  *)
(* per step.  The sends of one step go out together: the reader may still  *)
(* see any prefix.  Wall-clock deadlines are the nondeterministic Expire.  *)
(* Each definition whose comment begins "A variant" is a wrong version of  *)
(* the one after it, which no action uses.                                 *)
(***************************************************************************)
EXTENDS Integers, Sequences, FiniteSets

CONSTANTS
  Sides,           \* the two sides
  Writes,          \* what each side's game writes to SC, per side
  QuantumCycles, RearmBudget, MaxEdgeLateness,
  InstructionCap,  \* rearm_instruction_cap
  Capacity,        \* inbound_capacity
  Need,            \* worst-case cycles of one instruction
  EdgePeriod,      \* cycles between two edges of the internal clock
  ByteBits,        \* edges of one transfer
  MaxTime,         \* bound: no instruction starts later, except to answer an edge
  MaxFences,       \* bound: fences started, per side
  Impatient,       \* sides whose deadlines may expire
  Cancellable      \* sides another thread may cancel

ASSUME CableAssumption ==
  /\ \E a, b \in Sides : a # b /\ Sides = {a, b}
  /\ Writes \in [Sides -> SUBSET {"external", "internal", "off"}]
  /\ {QuantumCycles, InstructionCap, Capacity, Need, EdgePeriod, ByteBits}
        \subseteq Nat \ {0}
  /\ {RearmBudget, MaxEdgeLateness, MaxTime} \subseteq Nat
  /\ MaxFences \in [Sides -> Nat]
  /\ Impatient \subseteq Sides /\ Cancellable \subseteq Sides

VARIABLES
  pc,        \* where the owner thread is
  mode,      \* which pump it runs: "before", "wait", "end", "fence" or "none"
  co,        \* EmulatedTimeCoordinator
  serial,    \* the native serial core
  link,      \* the session's own bookkeeping
  fences,    \* owner-control fences
  open,      \* the side's channel is open
  wire,      \* sent and not yet staged by the other side
  fault      \* why the session ended, "none" while it runs

vars == <<pc, mode, co, serial, link, fences, open, wire, fault>>

-----------------------------------------------------------------------------
Other(s) == CHOOSE t \in Sides : t # s

NoEpisode == [id |-> 0, cycles |-> 0, cap |-> 0]

Before(e, f) == e.at < f.at \/ (e.at = f.at /\ e.seq < f.seq)

Least(E) == CHOOSE e \in E : \A f \in E : e = f \/ Before(e, f)

\* Messages (Sync has no effect beyond its own bounded list and is left out).
Progress(n) == [type |-> "Progress", at |-> n]
EdgeRequest(n, at) == [type |-> "EdgeRequest", id |-> n, at |-> at]
EmissionComplete(at, n) == [type |-> "EmissionComplete", at |-> at, id |-> n]
EdgeResponse(n, at) == [type |-> "EdgeResponse", id |-> n, at |-> at]
Fence(n, through) == [type |-> "Fence", id |-> n, through |-> through]
FenceAck(n, through) == [type |-> "FenceAck", id |-> n, through |-> through]

Indebted(c) == c.local > c.peer + QuantumCycles

ActiveEpisode(c) == c.episodeOpen /\ c.episodeEnd > c.local /\ c.instructions > 0

\* A variant that hands out every proven edge, due or not.
ReadyUnlessUnproven(c) == {e \in c.edges : e.at <= c.mark}

Ready(c) == {e \in c.edges : e.at <= c.local /\ e.at <= c.mark}

\* A variant that does not know what the peer has granted.
FitsIgnoringPeer(c, n) ==
  LET end == c.local + n IN
  /\ c.held # {} => c.episode = c.deliveryEpisode /\ ActiveEpisode(c)
  /\ c.episodeOpen => c.instructions > 0 /\ end <= c.episodeEnd
  /\ \A e \in c.held \cup c.edges : end <= e.at + MaxEdgeLateness
  /\ \A e \in c.edges : e.at > c.local
  /\ end <= c.mark + MaxEdgeLateness

\* _reserve grants this many cycles.
Fits(c, n) ==
  LET end == c.local + n IN
  /\ c.held # {} => c.episode = c.deliveryEpisode /\ ActiveEpisode(c)
  /\ c.progress > 0
  /\ c.episodeOpen => c.instructions > 0 /\ end <= c.episodeEnd
  /\ end <= c.peer + QuantumCycles + (IF c.episodeOpen THEN RearmBudget ELSE 0)
  /\ \A e \in c.held \cup c.edges : end <= e.at + MaxEdgeLateness
  /\ \A e \in c.edges : e.at > c.local
  /\ end <= c.mark + MaxEdgeLateness

\* A variant that is strict at the bound itself.
LateAtTheBound(e, now) == now >= e.at + MaxEdgeLateness

Late(e, now) == now > e.at + MaxEdgeLateness

\* A variant that asks the coordinator only.
UsableUnlessEnded(s) == co[s].ended = "none"

\* The session can use its channel: _check() and every send succeed.
Usable(s) == open[s] /\ co[s].ended = "none"

Clocking(s) == serial[s].enabled /\ serial[s].internal

EdgeDue(s) == Clocking(s) /\ serial[s].target <= serial[s].now

Send(s, messages) == wire' = [wire EXCEPT ![s] = @ \o messages]

Goto(s, where) == pc' = [pc EXCEPT ![s] = where]

\* Cancellation hides a closed channel or an expired deadline, not a violation.
Seen(s, why) ==
  IF co[s].ended = "cancelled" /\ why \in {"closed", "deadline"} THEN "cancelled" ELSE why

\* _fail and _cleanup, once no native code of this side is running.
FailWith(s, why, ended) ==
  /\ fault' = [fault EXCEPT ![s] = Seen(s, why)]
  /\ co' = [co EXCEPT ![s].ended = IF @ = "none" THEN ended ELSE @]
  /\ open' = [open EXCEPT ![s] = FALSE]
  /\ Goto(s, "down")
  /\ UNCHANGED <<mode, serial, link, fences, wire>>

Fail(s, why) == FailWith(s, why, "closed")

\* A variant that unwinds out of the instruction without accounting it.
SerialFaultAtOnce(s, why) ==
  /\ fault' = [fault EXCEPT ![s] = Seen(s, why)]
  /\ Goto(s, "broken")
  /\ UNCHANGED <<mode, co, serial, link, fences, open, wire>>

\* on_edge raised: the core latches the error, runs no further serial work, and
\* the owner meets the error once the instruction has been accounted.
SerialFault(s, why) ==
  /\ fault' = [fault EXCEPT ![s] = Seen(s, why)]
  /\ Goto(s, IF co[s].permit > 0 THEN "commit" ELSE "broken")
  /\ UNCHANGED <<mode, co, serial, link, fences, open, wire>>

-----------------------------------------------------------------------------
\* After attach: handshake done, Progress(0) sent, the serial core idle or
\* armed by startup_internal_clock.
IdleSerial == [enabled |-> FALSE, internal |-> FALSE, bits |-> 0, target |-> 0, now |-> 0]

Armed(core, internal) ==
  [core EXCEPT !.enabled = TRUE, !.internal = internal, !.bits = ByteBits,
               !.target = IF internal THEN core.now + EdgePeriod ELSE 0]

FreshCoordinator ==
  [ended |-> "none", local |-> 0, peer |-> 0, progress |-> 0, permit |-> 0,
   episode |-> NoEpisode, episodeOpen |-> FALSE, episodeEnd |-> 0, instructions |-> 0,
   edgeSequence |-> 0, lastEdgeAt |-> 0, edges |-> {}, mark |-> -1, markSequence |-> 0,
   held |-> {}, deliveryEpisode |-> NoEpisode]

FreshLink ==
  [ingress |-> <<>>, delivery |-> {}, completed |-> {}, out |-> 0, waiting |-> 0,
   scheduled |-> 0, settled |-> 0, sentProgress |-> 0, sentMark |-> -1,
   episodes |-> 0, heldStart |-> 0, retired |-> 0]

Init ==
  /\ pc = [s \in Sides |-> "boundary"]
  /\ mode = [s \in Sides |-> "none"]
  /\ co = [s \in Sides |-> FreshCoordinator]
  /\ serial \in [Sides -> {IdleSerial, Armed(IdleSerial, TRUE), Armed(IdleSerial, FALSE)}]
  /\ \A s \in Sides :
        /\ Clocking(s) => "internal" \in Writes[s]
        /\ serial[s].enabled /\ ~serial[s].internal => "external" \in Writes[s]
  /\ link = [s \in Sides |-> FreshLink]
  /\ fences = [s \in Sides |-> [sent |-> {}, started |-> 0, seen |-> 0, owed |-> <<>>]]
  /\ open = [s \in Sides |-> TRUE]
  /\ wire = [s \in Sides |-> <<Progress(0)>>]
  /\ fault = [s \in Sides |-> "none"]

-----------------------------------------------------------------------------
(***************************************************************************)
(* _poll and _stage.  What is staged and not yet applied counts against    *)
(* the capacity; a response is only expected by a side that waits for it.  *)
(***************************************************************************)
Incoming(s) == wire[Other(s)]

\* A variant that never prunes the completed prefix.
GapsUnpruned(l) == l.completed

Gaps(l) == {n \in l.completed : \E m \in 1..n : m \notin l.completed}

Backlog(s) ==
  Len(link[s].ingress) + Cardinality(co[s].edges) + Cardinality(link[s].delivery)
     + Cardinality(Gaps(link[s]))

\* Pump with the first n messages of the wire; the bounded drain of _poll.
Pump(s, m, n) ==
  LET staged == SubSeq(Incoming(s), 1, n)
      responses == {i \in 1..n : staged[i].type = "EdgeResponse"}
  IN
  /\ Usable(s)
  /\ IF responses # {} THEN Fail(s, "protocol")
     ELSE IF n > 0 /\ Backlog(s) + n > Capacity THEN Fail(s, "capacity")
     ELSE /\ link' = [link EXCEPT ![s].ingress = @ \o staged]
          /\ wire' = [wire EXCEPT ![Other(s)] = SubSeq(@, n + 1, Len(@))]
          /\ mode' = [mode EXCEPT ![s] = m]
          /\ Goto(s, "consume")
          /\ UNCHANGED <<co, serial, fences, open, fault>>

Polled(s) == 0..(IF Len(Incoming(s)) < Capacity THEN Len(Incoming(s)) ELSE Capacity)

\* A variant that pumps before the edges of the last instruction have fired.
AtBoundaryUnsettled(s) == pc[s] = "boundary"

AtBoundary(s) == pc[s] = "boundary" /\ ~EdgeDue(s)

\* before(): the pump ahead of every instruction.
PumpBefore(s, n) ==
  /\ AtBoundary(s)
  /\ co[s].local < MaxTime \/ link[Other(s)].waiting > 0
  /\ Pump(s, "before", n)

\* tick() returns, or service_controls().
PumpEnd(s, n) == AtBoundary(s) /\ Pump(s, "end", n)

\* start_fence(); poll_fence() forgets a fence that has been acknowledged.
PumpFence(s, n) == AtBoundary(s) /\ fences[s].started < MaxFences[s] /\ Pump(s, "fence", n)

PollFence(s) ==
  \E f \in fences[s].sent :
    /\ AtBoundary(s) /\ Usable(s) /\ f.acked
    /\ fences' = [fences EXCEPT ![s].sent = @ \ {f}]
    /\ UNCHANGED <<pc, mode, co, serial, link, open, wire, fault>>

\* _wait_for_progress()
PumpWait(s, n) == pc[s] = "starved" /\ Pump(s, "wait", n)

-----------------------------------------------------------------------------
(***************************************************************************)
(* _consume, one message per step.  _ingress_edge, _admitted_edge and both *)
(* session watermarks always equal the coordinator's own.                  *)
(***************************************************************************)
Head1(s) == Head(link[s].ingress)

Consuming(s, type) ==
  pc[s] = "consume" /\ Usable(s) /\ link[s].ingress # <<>> /\ Head1(s).type = type

Drop(s) == link' = [link EXCEPT ![s].ingress = Tail(@)]

ConsumeProgress(s) ==
  LET c == co[s]  at == Head1(s).at IN
  /\ Consuming(s, "Progress")
  /\ IF (c.progress = 0 => at = 0) /\ at >= c.peer
     THEN /\ co' = [co EXCEPT ![s].peer = at, ![s].progress = @ + 1]
          /\ Drop(s)
          /\ UNCHANGED <<pc, mode, serial, fences, open, wire, fault>>
     ELSE FailWith(s, "protocol", "validation")

ConsumeEdgeRequest(s) ==
  LET c == co[s]  edge == [at |-> Head1(s).at, seq |-> Head1(s).id] IN
  /\ Consuming(s, "EdgeRequest")
  /\ IF edge.seq # c.edgeSequence + 1 \/ edge.at <= c.mark THEN Fail(s, "protocol")
     ELSE IF Late(edge, c.local) THEN FailWith(s, "lateness", "receive_edge.lateness")
     ELSE /\ co' = [co EXCEPT ![s].edges = @ \cup {edge}, ![s].edgeSequence = edge.seq,
                              ![s].lastEdgeAt = edge.at]
          /\ Drop(s)
          /\ UNCHANGED <<pc, mode, serial, fences, open, wire, fault>>

ConsumeEmissionComplete(s) ==
  LET c == co[s]  m == Head1(s) IN
  /\ Consuming(s, "EmissionComplete")
  /\ IF m.id = c.edgeSequence /\ m.at >= c.mark
     THEN /\ co' = [co EXCEPT ![s].mark = m.at, ![s].markSequence = m.id]
          /\ Drop(s)
          /\ UNCHANGED <<pc, mode, serial, fences, open, wire, fault>>
     ELSE Fail(s, "protocol")

ConsumeFence(s) ==
  LET m == Head1(s)  f == fences[s] IN
  /\ Consuming(s, "Fence")
  /\ IF m.id = f.seen + 1 /\ m.through = co[s].edgeSequence /\ Len(f.owed) < Capacity
     THEN /\ fences' = [fences EXCEPT ![s].seen = m.id,
                                      ![s].owed = Append(@, [id |-> m.id, through |-> m.through])]
          /\ Drop(s)
          /\ UNCHANGED <<pc, mode, co, serial, open, wire, fault>>
     ELSE Fail(s, "protocol")

ConsumeFenceAck(s) ==
  LET m == Head1(s)
      sent == [id |-> m.id, through |-> m.through, acked |-> FALSE]
  IN
  /\ Consuming(s, "FenceAck")
  /\ IF sent \in fences[s].sent
     THEN /\ fences' = [fences EXCEPT ![s].sent = (@ \ {sent}) \cup {[sent EXCEPT !.acked = TRUE]}]
          /\ Drop(s)
          /\ UNCHANGED <<pc, mode, co, serial, open, wire, fault>>
     ELSE Fail(s, "protocol")

Consume(s) ==
  \/ ConsumeProgress(s) \/ ConsumeEdgeRequest(s) \/ ConsumeEmissionComplete(s)
  \/ ConsumeFence(s) \/ ConsumeFenceAck(s)

-----------------------------------------------------------------------------
(***************************************************************************)
(* The end of a pump: _ack_fences, _publish, and a new fence if that is    *)
(* what the pump was for.  Nothing here touches the coordinator.  A fence  *)
(* beyond what may be outstanding is an error of its own caller.           *)
(***************************************************************************)
\* A variant that waits for one edge too many.
AppliedBeyond(l, through) == 1..(through + 1) \subseteq l.completed

Applied(l, through) == 1..through \subseteq l.completed

Acknowledged(s) ==
  LET owed == fences[s].owed IN
  {i \in 1..Len(owed) : \A j \in 1..i : Applied(link[s], owed[j].through)}

\* A variant that keeps back what is below the threshold also when it waits.
ForcedNever(s) == FALSE

Forced(s) == mode[s] # "before"

\* _threshold, in half cycles; the watermark of a new session is half cycle -1.
Threshold == IF QuantumCycles < 4 THEN 1 ELSE QuantumCycles \div 2

HalfCyclesSince(local, sent) == IF sent = -1 THEN 2 * local + 1 ELSE 2 * (local - sent)

Due(s, sent) ==
  co[s].local > sent /\ (Forced(s) \/ HalfCyclesSince(co[s].local, sent) >= Threshold)

Publication(s) ==
  LET local == co[s].local  out == link[s].out IN
  IF Due(s, link[s].sentProgress) THEN <<EmissionComplete(local, out), Progress(local)>>
  ELSE IF Due(s, link[s].sentMark) THEN <<EmissionComplete(local, out)>>
  ELSE <<>>

\* rest is link[s] as the delivery phase leaves it.
EndPump(s, rest) ==
  LET local == co[s].local
      acks == [i \in Acknowledged(s) |-> FenceAck(fences[s].owed[i].id, fences[s].owed[i].through)]
      exhausted == mode[s] = "fence" /\ Cardinality(fences[s].sent) >= Capacity
      fence == IF mode[s] = "fence" /\ ~exhausted THEN <<Fence(fences[s].started + 1, link[s].out)>> ELSE <<>>
  IN
  /\ Send(s, acks \o Publication(s) \o fence)
  /\ link' = [link EXCEPT ![s] =
                [rest EXCEPT !.settled = local,
                             !.sentProgress = IF Due(s, @) THEN local ELSE @,
                             !.sentMark = IF Publication(s) # <<>> THEN local ELSE @]]
  /\ fences' = [fences EXCEPT
       ![s].owed = SubSeq(@, Cardinality(Acknowledged(s)) + 1, Len(@)),
       ![s].started = @ + Len(fence),
       ![s].sent = @ \cup {[id |-> fence[i].id, through |-> fence[i].through, acked |-> FALSE] :
                             i \in DOMAIN fence}]
  /\ Goto(s, CASE mode[s] \in {"before", "wait"} -> "reserve"
                [] exhausted -> "broken"
                [] OTHER -> "boundary")
  /\ mode' = [mode EXCEPT ![s] = "none"]
  /\ fault' = [fault EXCEPT ![s] = IF exhausted THEN "exhausted" ELSE @]
  /\ UNCHANGED <<serial, open>>

-----------------------------------------------------------------------------
(***************************************************************************)
(* _deliver                                                                *)
(***************************************************************************)
Delivering(s) ==
  /\ Usable(s)
  /\ pc[s] = "deliver" \/ (pc[s] = "consume" /\ link[s].ingress = <<>>)

NothingToDeliver(s) ==
  /\ Delivering(s) /\ co[s].held = {} /\ Ready(co[s]) = {}
  /\ EndPump(s, link[s])
  /\ UNCHANGED co

PopReadyEdges(s) ==
  LET c == co[s] IN
  /\ Delivering(s) /\ c.held = {} /\ Ready(c) # {}
  /\ IF \E e \in Ready(c) : Late(e, c.local) THEN FailWith(s, "lateness", "delivery.lateness")
     ELSE /\ co' = [co EXCEPT ![s].held = Ready(c), ![s].edges = @ \ Ready(c)]
          /\ link' = [link EXCEPT ![s].delivery = Ready(c), ![s].heldStart = c.local,
                                  ![s].retired = 0]
          /\ Goto(s, "deliver")
          /\ UNCHANGED <<mode, serial, fences, open, wire, fault>>

ClockConflict(s) ==
  /\ Delivering(s) /\ link[s].delivery # {} /\ serial[s].internal
  /\ Fail(s, "conflict")

\* One more edge of a transfer: apply_external_edge, or an answered on_edge.
Shift(core) ==
  IF core.bits > 1
  THEN [core EXCEPT !.bits = @ - 1, !.target = IF core.internal THEN @ + EdgePeriod ELSE @]
  ELSE [core EXCEPT !.bits = 0, !.enabled = FALSE, !.target = 0]

\* The earliest held edge is applied, answered, completed.
ApplyEdge(s) ==
  LET edge == Least(link[s].delivery) IN
  /\ Delivering(s) /\ link[s].delivery # {} /\ ~serial[s].internal /\ serial[s].enabled
  /\ serial' = [serial EXCEPT ![s] = Shift(@)]
  /\ Send(s, <<EdgeResponse(edge.seq, co[s].local)>>)
  /\ link' = [link EXCEPT ![s].delivery = @ \ {edge}, ![s].completed = @ \cup {edge.seq}]
  /\ Goto(s, "deliver")
  /\ UNCHANGED <<mode, co, fences, open, fault>>

AcknowledgeDelivery(s) ==
  /\ Delivering(s) /\ co[s].held # {} /\ link[s].delivery = {}
  /\ co' = [co EXCEPT ![s] =
       IF @.deliveryEpisode = NoEpisode THEN [@ EXCEPT !.held = {}]
       ELSE [@ EXCEPT !.held = {}, !.deliveryEpisode = NoEpisode, !.episodeOpen = FALSE,
                      !.instructions = 0]]
  /\ EndPump(s, link[s])

-----------------------------------------------------------------------------
(***************************************************************************)
(* A held edge and no armed transfer: _begin_rearm lends the game credit   *)
(* to arm one, unless this pump must not, or a debt has to be repaid first.*)
(***************************************************************************)
Unarmed(s) ==
  Delivering(s) /\ link[s].delivery # {} /\ ~serial[s].internal /\ ~serial[s].enabled

RearmCycles(s) ==
  LET c == co[s]
      left == RearmBudget - (c.local - link[s].heldStart)
      inTime == Least(c.held).at + MaxEdgeLateness - c.local
  IN  IF left < inTime THEN left ELSE inTime

RearmInstructions(s) == InstructionCap - link[s].retired

HoldUnarmed(s) ==
  /\ Unarmed(s)
  /\ \/ mode[s] \in {"end", "fence"}
     \/ co[s].deliveryEpisode # NoEpisode /\ ActiveEpisode(co[s])
     \/ /\ co[s].deliveryEpisode = NoEpisode /\ Indebted(co[s])
        /\ RearmCycles(s) > 0 /\ RearmInstructions(s) > 0
  /\ EndPump(s, link[s])
  /\ UNCHANGED co

AllowanceExhausted(s) ==
  /\ Unarmed(s) /\ mode[s] \in {"before", "wait"}
  /\ IF co[s].deliveryEpisode # NoEpisode THEN ~ActiveEpisode(co[s])
     ELSE RearmCycles(s) <= 0 \/ RearmInstructions(s) <= 0
  /\ Fail(s, "allowance")

BeginRearm(s) ==
  LET e == [id |-> link[s].episodes + 1, cycles |-> RearmCycles(s),
            cap |-> RearmInstructions(s)] IN
  /\ Unarmed(s) /\ mode[s] \in {"before", "wait"}
  /\ co[s].deliveryEpisode = NoEpisode /\ ~Indebted(co[s]) /\ e.cycles > 0 /\ e.cap > 0
  /\ co' = [co EXCEPT ![s].episode = e, ![s].deliveryEpisode = e, ![s].episodeOpen = TRUE,
                      ![s].episodeEnd = co[s].local + e.cycles, ![s].instructions = e.cap]
  /\ EndPump(s, [link[s] EXCEPT !.episodes = e.id])

Deliver(s) ==
  \/ NothingToDeliver(s) \/ PopReadyEdges(s) \/ ClockConflict(s) \/ ApplyEdge(s)
  \/ AcknowledgeDelivery(s) \/ HoldUnarmed(s) \/ AllowanceExhausted(s) \/ BeginRearm(s)

-----------------------------------------------------------------------------
(***************************************************************************)
(* One governed instruction: ExecutionGovernorAdapter.before, the native   *)
(* step, after, and the serial tick that follows it.                       *)
(***************************************************************************)
\* The permit must cover the worst case; a smaller one is discarded unused.
Reserve(s) ==
  LET c == co[s] IN
  /\ pc[s] = "reserve" /\ Usable(s)
  /\ IF \E e \in c.held : Late(e, c.local)
     THEN FailWith(s, "lateness", "reserve.held_lateness")
     ELSE /\ IF Fits(c, Need)
             THEN co' = [co EXCEPT ![s].permit = Need] /\ Goto(s, "exec")
             ELSE Goto(s, "starved") /\ UNCHANGED co
          /\ UNCHANGED <<mode, serial, link, fences, open, wire, fault>>

\* The instruction reads or writes SB or SC at cycle a: the core catches up.
Access(s, a) ==
  /\ pc[s] = "exec"
  /\ serial[s].now <= a
  /\ serial' = [serial EXCEPT ![s].now = a]
  /\ Goto(s, "access")
  /\ UNCHANGED <<mode, co, link, fences, open, wire, fault>>

\* set_SC: a rewrite of an armed transfer with the same clock restarts nothing;
\* "off" writes the transfer bit and the clock bit as zero.
SetSC(core, w) ==
  CASE w = "off" -> [core EXCEPT !.enabled = FALSE, !.internal = FALSE, !.bits = 0, !.target = 0]
    [] w # "off" /\ core.enabled /\ core.internal = (w = "internal") -> core
    [] OTHER -> Armed(core, w = "internal")

Touch(s, w) ==
  /\ pc[s] = "access" /\ ~EdgeDue(s)
  /\ serial' = [serial EXCEPT ![s] = SetSC(@, w)]
  /\ Goto(s, "commit")
  /\ UNCHANGED <<mode, co, link, fences, open, wire, fault>>

\* commit and the serial tick up to the CPU endpoint.  A coordinator another
\* thread has closed still takes the actuals; a latched core does not tick.
Commit(s, elapsed, executed) ==
  LET c == co[s]
      now == c.local + elapsed
      late == IF \E e \in c.held : Late(e, now) THEN "commit.held_lateness"
              ELSE IF \E e \in c.edges : Late(e, now) THEN "commit.edge_lateness"
              ELSE "none"
      broken == IF fault[s] # "none" THEN fault[s]
                ELSE IF c.ended # "none" THEN Seen(s, "closed")
                ELSE IF late # "none" THEN "lateness"
                ELSE "none"
  IN
  /\ pc[s] \in {"exec", "commit"}
  /\ serial[s].now <= now
  /\ co' = [co EXCEPT ![s].local = now, ![s].permit = 0,
                      ![s].instructions = IF c.episodeOpen THEN @ - executed ELSE @,
                      ![s].ended = IF @ = "none" THEN late ELSE @]
  /\ link' = [link EXCEPT ![s].retired = IF c.held = {} THEN 0 ELSE @ + executed]
  /\ fault' = [fault EXCEPT ![s] = broken]
  /\ serial' = [serial EXCEPT ![s].now = IF broken = "none" THEN now ELSE @]
  /\ Goto(s, IF broken = "none" THEN "boundary" ELSE "broken")
  /\ UNCHANGED <<mode, fences, open, wire>>

-----------------------------------------------------------------------------
(***************************************************************************)
(* on_edge: inside an instruction (a register access) or in the serial     *)
(* tick after it.  It only advertises the last settled progress.           *)
(***************************************************************************)
FireEdge(s) ==
  LET l == link[s]  n == l.out + 1  at == serial[s].target
      settled == IF l.settled > l.sentProgress THEN <<Progress(l.settled)>> ELSE <<>>
  IN
  /\ pc[s] \in {"access", "boundary"} /\ EdgeDue(s)
  /\ IF ~Usable(s) THEN SerialFault(s, "closed")
     ELSE IF at <= l.sentMark THEN SerialFault(s, "protocol")
     ELSE /\ Send(s, <<EdgeRequest(n, at), EmissionComplete(at, n)>> \o settled)
          /\ link' = [link EXCEPT ![s].out = n, ![s].waiting = n, ![s].scheduled = at,
                                  ![s].sentMark = at,
                                  ![s].sentProgress = IF settled = <<>> THEN @ ELSE l.settled]
          /\ Goto(s, "reply")
          /\ UNCHANGED <<mode, co, serial, fences, open, fault>>

Replying(s) == pc[s] = "reply" /\ Usable(s) /\ Incoming(s) # <<>>

\* While it waits the owner only stages what arrives.
StageWhileWaiting(s) ==
  LET m == Head(Incoming(s)) IN
  /\ Replying(s) /\ m.type # "EdgeResponse"
  /\ IF Backlog(s) >= Capacity THEN SerialFault(s, "capacity")
     ELSE /\ link' = [link EXCEPT ![s].ingress = Append(@, m)]
          /\ wire' = [wire EXCEPT ![Other(s)] = Tail(@)]
          /\ UNCHANGED <<pc, mode, co, serial, fences, open, fault>>

TakeResponse(s) ==
  LET m == Head(Incoming(s))  l == link[s] IN
  /\ Replying(s) /\ m.type = "EdgeResponse"
  /\ IF m.id # l.waiting \/ m.at < l.scheduled \/ m.at > l.scheduled + MaxEdgeLateness
     THEN SerialFault(s, "protocol")
     ELSE /\ wire' = [wire EXCEPT ![Other(s)] = Tail(@)]
          /\ link' = [link EXCEPT ![s].waiting = 0]
          /\ serial' = [serial EXCEPT ![s] = Shift(@)]
          /\ Goto(s, IF co[s].permit > 0 THEN "access" ELSE "boundary")
          /\ UNCHANGED <<mode, co, fences, open, fault>>

-----------------------------------------------------------------------------
(***************************************************************************)
(* Failure.                                                                *)
(***************************************************************************)
\* A variant that does not look while it waits for credit.
NoticeUnlessStarved(s) ==
  /\ ~Usable(s)
  /\ \/ pc[s] \in {"consume", "deliver", "reserve"} /\ Fail(s, "closed")
     \/ pc[s] = "boundary" /\ ~EdgeDue(s) /\ Fail(s, "closed")
     \/ pc[s] = "reply" /\ SerialFault(s, "closed")

\* The owner meets a closed channel or a cancelled session at its next check.
Notice(s) ==
  /\ ~Usable(s)
  /\ \/ pc[s] \in {"consume", "deliver", "reserve", "starved"} /\ Fail(s, "closed")
     \/ pc[s] = "boundary" /\ ~EdgeDue(s) /\ Fail(s, "closed")
     \/ pc[s] = "reply" /\ SerialFault(s, "closed")

\* check_error after the instruction raises what the core latched, or the
\* owner's control what it found.
Break(s) == pc[s] = "broken" /\ Fail(s, fault[s])

\* A wall-clock deadline: the permit wait, the edge response, or a delivery.
Expire(s) ==
  /\ Usable(s)
  /\ \/ pc[s] = "starved" /\ Fail(s, "deadline")
     \/ pc[s] \in {"consume", "deliver"} /\ co[s].edges \cup link[s].delivery # {}
        /\ Fail(s, "deadline")
     \/ pc[s] = "reply" /\ SerialFault(s, "deadline")

\* cancel(), from another thread, at any point.
Cancel(s) ==
  /\ co[s].ended = "none" /\ pc[s] # "down"
  /\ co' = [co EXCEPT ![s].ended = "cancelled"]
  /\ open' = [open EXCEPT ![s] = FALSE]
  /\ UNCHANGED <<pc, mode, serial, link, fences, wire, fault>>

\* The reader thread meets the end of the stream; what was unread is gone.
Eof(s) ==
  /\ open[s] /\ ~open[Other(s)]
  /\ open' = [open EXCEPT ![s] = FALSE]
  /\ wire' = [wire EXCEPT ![Other(s)] = <<>>]
  /\ UNCHANGED <<pc, mode, co, serial, link, fences, fault>>

-----------------------------------------------------------------------------
Execute(s) ==
  \/ Reserve(s)
  \/ \E a \in co[s].local..(co[s].local + co[s].permit) : Access(s, a)
  \/ \E w \in Writes[s] : Touch(s, w)
  \/ \E elapsed \in 1..co[s].permit, executed \in {0, 1} : Commit(s, elapsed, executed)
  \/ FireEdge(s) \/ StageWhileWaiting(s) \/ TakeResponse(s)

Owner(s) ==
  \/ \E n \in Polled(s) : PumpBefore(s, n) \/ PumpEnd(s, n) \/ PumpFence(s, n) \/ PumpWait(s, n)
  \/ PollFence(s) \/ Consume(s) \/ Deliver(s) \/ Execute(s) \/ Notice(s) \/ Break(s)

Next ==
  \/ \E s \in Sides : Owner(s)
  \/ \E s \in Sides : Eof(s)
  \/ \E s \in Impatient : Expire(s)
  \/ \E s \in Cancellable : Cancel(s)

Spec == Init /\ [][Next]_vars

(***************************************************************************)
(* Fairness.  Each owner thread runs and each reader thread meets the end  *)
(* of its stream; callers keep ticking, so a side that could start an      *)
(* instruction does not service controls for ever; and what was sent       *)
(* arrives, so the pumps of a side whose wire holds messages, and the      *)
(* receive() a starved owner blocks in, do not miss them for ever.         *)
(***************************************************************************)
Fairness ==
  \A s \in Sides :
     /\ WF_vars(Owner(s))
     /\ WF_vars(Eof(s))
     /\ SF_vars(\E n \in Polled(s) : PumpBefore(s, n))
     /\ SF_vars(\E n \in Polled(s) \ {0} : PumpBefore(s, n) \/ PumpEnd(s, n))
     /\ SF_vars(\E n \in Polled(s) \ {0} : PumpWait(s, n))

FairSpec == Spec /\ Fairness

-----------------------------------------------------------------------------
(***************************************************************************)
(* Properties.                                                             *)
(***************************************************************************)
\* The shape of the two sides' state: positions of the owner, ranges of the
\* serial core's counters, and messages of the six kinds.
TypeOK ==
  /\ pc \in [Sides -> {"boundary", "consume", "deliver", "reserve", "starved", "exec",
                       "access", "commit", "reply", "broken", "down"}]
  /\ mode \in [Sides -> {"none", "before", "wait", "end", "fence"}]
  /\ \A s \in Sides :
       /\ serial[s].enabled \in BOOLEAN /\ serial[s].internal \in BOOLEAN
       /\ serial[s].bits \in 0..ByteBits /\ serial[s].enabled = (serial[s].bits > 0)
       /\ serial[s].target \in Nat /\ serial[s].now \in Nat
       /\ co[s].local \in Nat /\ co[s].peer \in Nat /\ co[s].permit \in {0, Need}
       /\ co[s].instructions \in Nat /\ co[s].mark \in Nat \cup {-1}
       /\ link[s].out \in Nat /\ link[s].waiting \in {0, link[s].out}
       /\ link[s].delivery \subseteq co[s].held
       /\ \A i \in DOMAIN wire[s] : wire[s][i].type \in
            {"Progress", "EdgeRequest", "EmissionComplete", "EdgeResponse", "Fence", "FenceAck"}
  /\ open \in [Sides -> BOOLEAN]

\* The two emulators never drift apart by more than the quantum and the rearm
\* budget, however stale the progress either side has seen, and also while one
\* of them fails.  Code: _publish, record_peer_progress, _reserve on both sides.
BoundedSkew ==
  \A s \in Sides : co[s].local <= co[Other(s)].local + QuantumCycles + RearmBudget

\* Two correct sessions never accuse each other: no message is out of order, no
\* edge falls into a prefix already declared complete, on either side, and no
\* edge or response is late.  Code: every ProtocolError of _stage, _consume,
\* on_edge, and every lateness failure of the coordinator.
NoViolation == \A s \in Sides : fault[s] \notin {"protocol", "lateness"}

\* A side that waits for a response only stages what arrives, and its peer may
\* go on publishing while it has credit, over any sequence of bytes.  The room
\* this takes grows with the credit: what the peer announces beyond the progress
\* that was consumed may span the credit of both sides, with a watermark and a
\* progress for each cycle of it.  Code: _stage, on_edge, _publish.
RoomForAll == TypeOK /\ \A s \in Sides : fault[s] # "capacity"

\* However a side ends, executed instructions were accounted: no permit is left
\* outstanding.  Code: after, _recover, SerialBackendError latch and check_error.
PermitsSettled == \A s \in Sides : pc[s] = "down" => co[s].permit = 0

\* The end of a side is final.  The reason a session failed for is kept: neither
\* the peer's reaction nor a cancellation that arrives before the owner unwinds
\* replaces a violation; and once its channel is closed the side sends nothing
\* more, at whatever point of an instruction or a pump that finds it.
EndIsFinal ==
  [][\A s \in Sides :
       /\ fault[s] \notin {"none", "closed", "deadline"} => fault'[s] = fault[s]
       /\ ~open[s] => Len(wire'[s]) <= Len(wire[s])]_vars

\* When one side ends the other ends too: no owner stays blocked in a wait.
FailurePropagates ==
  \A s \in Sides : pc[s] = "down" ~> pc[Other(s)] = "down"

\* Without deadlines two sessions never wait for each other for ever: both run
\* to the end of the bounded time, every edge answered, unless one of them fails.
NoMutualStall ==
  <>(\/ \A s \in Sides : co[s].local >= MaxTime /\ ~EdgeDue(s)
     \/ \E s \in Sides : fault[s] # "none")

\* A fence is answered, although its receiver may be blocked in on_edge when it
\* arrives and answers fences only in its pumps, unless one of them fails.
FencesAnswered ==
  \A s \in Sides :
     (\E f \in fences[s].sent : ~f.acked)
        ~> (\A f \in fences[s].sent : f.acked) \/ (\E t \in Sides : fault[t] # "none")

-----------------------------------------------------------------------------
(***************************************************************************)
(* Implementation of the abstract cable, and of EmulatedTime by each side. *)
(***************************************************************************)
Cable == INSTANCE SerialCable WITH
  Ends <- Sides,
  Lead <- QuantumCycles + RearmBudget,
  Lateness <- MaxEdgeLateness,
  time <- [s \in Sides |-> co[s].local],
  clocked <- [s \in Sides |-> link[s].out],
  due <- [s \in Sides |-> link[s].scheduled],
  applied <- [s \in Sides |-> Cardinality(link[Other(s)].completed)],
  shifted <- [s \in Sides |-> IF link[s].waiting = 0 THEN link[s].out ELSE link[s].out - 1]

\* The two sessions together are the abstract cable.
ImplementsCable == Cable!Spec

Half(E) == {[at |-> 2 * e.at, seq |-> e.seq] : e \in E}

Reasons == {"none", "cancelled", "closed"}

Clock(s) == INSTANCE EmulatedTime WITH
  enforceCompleteness <- TRUE, MaxPendingEdges <- Capacity,
  MaxClock <- MaxTime + 2 * Need, MaxHalf <- 2 * (MaxTime + 2 * Need),
  MaxSequence <- 4 * MaxTime + 4, MaxRequests <- MaxTime + 2, MaxInstructions <- InstructionCap,
  closed <- co[s].ended # "none", cancelled <- co[s].ended = "cancelled",
  terminalReason <- IF co[s].ended \in Reasons THEN co[s].ended ELSE "failed",
  failure <- IF co[s].ended \in Reasons THEN "none" ELSE co[s].ended,
  raw <- co[s].local, observedRaw <- co[s].local, rate <- 2, local <- 2 * co[s].local,
  peer <- 2 * co[s].peer, progressSequence <- co[s].progress,
  pending <- [cpu |-> co[s].permit, half |-> 2 * co[s].permit,
              cap |-> IF co[s].permit = 0 THEN 0
                      ELSE IF co[s].episodeOpen THEN co[s].instructions ELSE Need],
  episode <- co[s].episode, episodeOpen <- co[s].episodeOpen,
  episodeEnd <- 2 * co[s].episodeEnd, instructions <- co[s].instructions,
  edgeSequence <- co[s].edgeSequence, lastEdgeAt <- 2 * co[s].lastEdgeAt,
  edges <- Half(co[s].edges), held <- Half(co[s].held),
  watermark <- IF co[s].mark = -1 THEN -1 ELSE 2 * co[s].mark,
  watermarkSequence <- co[s].markSequence, deliveryEpisode <- co[s].deliveryEpisode

\* Each session drives its coordinator only through the calls EmulatedTime
\* allows, one at a time, and predicts their outcome correctly.
ImplementsClock ==
  /\ \A s \in Sides : Clock(s)!Init
  /\ [][\A s \in Sides : Clock(s)!Next \/ UNCHANGED Clock(s)!vars]_vars
=============================================================================
