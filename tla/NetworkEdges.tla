---------------------------- MODULE NetworkEdges ----------------------------
(***************************************************************************)
(* Two NetworkBackend ends (link/network_backend.py and its mixins) that   *)
(* carry serial clock edges over a socket, each driven by the owner frames *)
(* of a PyBoyLinkSession (run_owned_frame).  At every end four threads     *)
(* meet: the emulator owner (frames, on_edge, service_pending_edges), the  *)
(* reader, the owner-response worker and whoever calls stop.               *)
(*                                                                         *)
(* Edges are identified (both peers sent HELLO with a ROM version).  A bit *)
(* is modelled by where it comes from: a reciprocal response carries the   *)
(* local edge whose sampled bit it returns (1, 2, ..), an applied edge is  *)
(* answered by Slave (the bit of the armed core) and a transient one by    *)
(* Idle (the no-data bit).                                                 *)
(*                                                                         *)
(* Each definition whose comment begins "A variant" is a wrong version of  *)
(* the one after it, which no action uses.                                 *)
(***************************************************************************)
EXTENDS Integers, Sequences, FiniteSets

CONSTANTS N,          \* the two ends
          Leader,     \* the end that leads the frame barrier
          Modes,      \* whether frames may be turns (set_network_frame_barrier)
          ByteBits,   \* edges of a byte
          MaxEdges,   \* bound: local master edges of an end
          History,    \* responses kept for replay (_EDGE_RESPONSE_HISTORY_MAX)
          MaxRepeats, \* bound: requests repeated on the wire
          MayStop     \* the ends stop() may be called on

ASSUME EndsAssumption == Leader \in N /\ \E m \in N : m # Leader /\ N = {Leader, m}
ASSUME BoundAssumption == /\ ByteBits \in Nat \ {0} /\ MaxEdges \in Nat
                          /\ History \in Nat \ {0} /\ MaxRepeats \in Nat
                          /\ Modes \subseteq BOOLEAN /\ MayStop \subseteq N

VARIABLES
  barrier,  \* _network_frame_barrier, fixed when the link is made
  owner,    \* the emulator owner: where it is, its frame, the request in hand
  edge,     \* the local master edge of on_edge
  inbox,    \* admitted peer edges and their accounting
  known,    \* identified peer edges: claimed, answered, highest
  core,     \* the native serial core
  worker,   \* the response the worker has written and not yet settled;
            \* while there is one it holds _edge_wire_completion_lock
  turn,     \* the control queues of the frame barrier
  wire,     \* frames on their way to an end
  closed,   \* _closed
  accused,  \* history: an end found its peer in breach of the protocol
  repeats,  \* requests repeated so far
  got,      \* history: the answers on_edge returned, in order
  effects   \* history: what became of the peer's edges, in order

vars == <<barrier, owner, edge, inbox, known, core, worker, turn, wire, closed,
          accused, repeats, got, effects>>

Other(n) == CHOOSE m \in N : m # n
Ids == 1..MaxEdges
NoId == 0
Slave == 0
Idle == -1
Answers == Ids \cup {Slave, Idle}

(* _InboundEdge: the request with its response. *)
NoRequest == [id |-> NoId, val |-> Idle, completed |-> FALSE]
Request(i, v, c) == [id |-> i, val |-> v, completed |-> c]

Frame(op, i, v) == [op |-> op, id |-> i, val |-> v]

(* Frames to an end that has closed its socket are lost. *)
Send(n, f) == wire' = IF closed[Other(n)] THEN wire
                      ELSE [wire EXCEPT ![Other(n)] = Append(@, f)]
Received(n) == wire' = [wire EXCEPT ![n] = Tail(@)]
Answer(n, f) == wire' = IF closed[Other(n)] THEN [wire EXCEPT ![n] = Tail(@)]
                        ELSE [wire EXCEPT ![n] = Tail(@), ![Other(n)] = Append(@, f)]

Init ==
  /\ barrier \in Modes
  /\ owner = [n \in N |-> [pc |-> "turn", kind |-> "main", inframe |-> FALSE, token |-> NoId,
                           hand |-> NoRequest, before |-> FALSE, applied |-> FALSE]]
  /\ edge = [n \in N |-> [inflight |-> NoId, seen |-> FALSE, recip |-> FALSE,
                          next |-> 1, slot |-> <<>>]]
  /\ inbox = [n \in N |-> [queue |-> <<>>, done |-> <<>>, held |-> NoRequest,
                           owed |-> 0, pending |-> 0]]
  /\ known = [n \in N |-> [claimed |-> {}, answered |-> <<>>, highest |-> 0]]
  /\ core = [n \in N |-> [enabled |-> FALSE, internal |-> FALSE, left |-> 0]]
  /\ worker = [n \in N |-> NoRequest]
  /\ turn = [n \in N |-> [tick |-> FALSE, done |-> FALSE, ack |-> FALSE, inflight |-> FALSE]]
  /\ wire = [n \in N |-> <<>>]
  /\ closed = [n \in N |-> FALSE]
  /\ accused = FALSE
  /\ repeats = 0
  /\ got = [n \in N |-> <<>>]
  /\ effects = [n \in N |-> <<>>]

-----------------------------------------------------------------------------
(* Shared steps *)

At(n, pc) == owner[n].pc = pc
GoTo(n, pc) == owner' = [owner EXCEPT ![n].pc = pc]

(* _mark_closed_common: the accounting is cleared and the socket closed. *)
MarkClosed(n) ==
  /\ closed' = [closed EXCEPT ![n] = TRUE]
  /\ inbox' = IF closed[n] THEN inbox
              ELSE [inbox EXCEPT ![n].pending = 0, ![n].held = NoRequest]
  /\ wire' = [wire EXCEPT ![n] = <<>>]

(* The owner holds _owner_dispatch_lock from applying a request until it   *)
(* has published it; a coordinated close waits for that.                   *)
Dispatching(n) == At(n, "publish")

(* _edge_wire_completion_lock is free. *)
WireFree(n) == worker[n] = NoRequest

(* _decrement_edge_pending saturates, because a close may have cleared it. *)
Less(k) == IF k > 0 THEN k - 1 ELSE 0

(* _remember_inbound_edge_response: replays do not extend the history. *)
Answered(n) == {known[n].answered[k].id : k \in DOMAIN known[n].answered}
Remembered(n, r) ==
  LET all == Append(known[n].answered, r)
      kept == IF Len(all) > History THEN Tail(all) ELSE all
  IN [known EXCEPT ![n].claimed = @ \ {r.id},
                   ![n].answered = IF r.id \in Answered(n) THEN @ ELSE kept]

(* An error in the owner's frame: run_owned_frame aborts the turn and      *)
(* closes the backend; an on_edge under way clears its edge.               *)
Abort(n) ==
  /\ MarkClosed(n)
  /\ owner' = [owner EXCEPT ![n].pc = "down", ![n].hand = NoRequest, ![n].token = NoId]
  /\ edge' = [edge EXCEPT ![n].inflight = NoId, ![n].seen = FALSE, ![n].recip = FALSE]
  /\ turn' = [turn EXCEPT ![n].inflight = FALSE]
  /\ UNCHANGED <<barrier, known, core, worker, accused, repeats, got, effects>>

-----------------------------------------------------------------------------
(* The owner's frame: run_owned_frame, begin_frame_turn, finish_frame_turn *)

(* begin_frame_turn: the leader announces its frame, the follower waits.   *)
(* A caller whose link has closed runs no further frame.                   *)
BeginTurn(n) ==
  /\ At(n, "turn") /\ ~closed[n]
  /\ IF ~barrier
     THEN UNCHANGED <<turn, wire>>
     ELSE IF n = Leader
          THEN /\ turn' = [turn EXCEPT ![n].inflight = TRUE]
               /\ Send(n, Frame("tick", NoId, Idle))
          ELSE /\ turn[n].tick
               /\ turn' = [turn EXCEPT ![n].tick = FALSE]
               /\ UNCHANGED wire
  /\ owner' = [owner EXCEPT ![n].pc = "pump", ![n].kind = "main"]
  /\ UNCHANGED <<barrier, edge, inbox, known, core, worker, closed, accused, repeats, got, effects>>

(* What follows the frame and its pump: the barrier, or the next frame. *)
FrameOver(n) == CASE ~barrier -> "turn"
                  [] barrier /\ n = Leader -> "finish"
                  [] barrier /\ n # Leader -> "loop"

(* advance_owner_frame: begin_owner_frame notes the response held now, the *)
(* one this frame will release.                                            *)
BeginFrame(rec, box, kind) ==
  [rec EXCEPT !.pc = "frame", !.kind = kind, !.token = box.held.id, !.inframe = FALSE,
              !.hand = NoRequest]

(* progress_owner runs another frame for a held response, a byte that has  *)
(* just completed, or a request the core is not ready for.                 *)
NeedsFrame(n, rec, box) ==
  \/ box.held # NoRequest
  \/ rec.applied /\ ~core[n].internal /\ ~core[n].enabled
  \/ ~rec.applied /\ rec.before /\ (~core[n].enabled \/ core[n].internal)

(* service_pending_edges returns to its caller: a boundary inside a frame, *)
(* the pump before the frame, the one after it, or progress_owner.         *)
ServiceEnds(n, rec, box) ==
  CASE rec.inframe -> [rec EXCEPT !.pc = "frame", !.inframe = FALSE, !.hand = NoRequest]
    [] ~rec.inframe /\ rec.kind = "main" -> BeginFrame(rec, box, "main")
    [] ~rec.inframe /\ rec.kind = "after" ->
         IF box.held # NoRequest THEN BeginFrame(rec, box, "extra")
         ELSE [rec EXCEPT !.pc = FrameOver(n), !.hand = NoRequest]
    [] ~rec.inframe /\ rec.kind = "loop" ->
         IF NeedsFrame(n, rec, box) THEN BeginFrame(rec, box, "loop")
         ELSE [rec EXCEPT !.pc = "check", !.hand = NoRequest]

(* The service loop finds nothing it may take. *)
PumpDone(n) ==
  /\ At(n, "pump")
  /\ inbox[n].queue = <<>> \/ inbox[n].held # NoRequest
  /\ owner' = [owner EXCEPT ![n] = ServiceEnds(n, @, inbox[n])]
  /\ UNCHANGED <<barrier, edge, inbox, known, core, worker, turn, wire, closed, accused, repeats, got, effects>>

(* A variant: a released response is not counted as owed to the wire. *)
ReleaseUncounted(n) == [inbox EXCEPT ![n].held = NoRequest,
                                     ![n].done = Append(@, inbox[n].held)]

(* _release_owner_byte_response and _publish_owner_response. *)
Release(n) == [inbox EXCEPT ![n].held = NoRequest, ![n].owed = @ + 1,
                            ![n].done = Append(@, inbox[n].held)]

(* finish_owner_frame, and on to what follows this kind of frame. *)
FinishFrame(n) ==
  /\ At(n, "frame")
  /\ inbox' = IF owner[n].token # NoId /\ inbox[n].held.id = owner[n].token
              THEN Release(n) ELSE inbox
  /\ owner' = [owner EXCEPT ![n].token = NoId,
                 ![n].pc = CASE owner[n].kind = "main" -> "pump"
                             [] owner[n].kind = "extra" -> FrameOver(n)
                             [] owner[n].kind = "loop" -> "check",
                 ![n].kind = IF @ = "main" THEN "after" ELSE @]
  /\ UNCHANGED <<barrier, edge, known, core, worker, turn, wire, closed, accused, repeats, got, effects>>

(* finish_frame_turn of the leader begins with FRAME_DONE. *)
FinishTurn(n) ==
  /\ At(n, "finish") /\ ~closed[n]
  /\ Send(n, Frame("done", NoId, Idle))
  /\ GoTo(n, "loop")
  /\ UNCHANGED <<barrier, edge, inbox, known, core, worker, turn, closed, accused, repeats, got, effects>>

(* One round of the wait calls progress_owner, which serves at most one.   *)
Progress(n) ==
  /\ At(n, "loop") /\ ~closed[n]
  /\ owner' = [owner EXCEPT ![n].pc = "pump", ![n].kind = "loop", ![n].applied = FALSE,
                            ![n].before = inbox[n].pending > 0]
  /\ UNCHANGED <<barrier, edge, inbox, known, core, worker, turn, wire, closed, accused, repeats, got, effects>>

(* A variant: the leader does not wait for FRAME_ACK. *)
TurnEndsUnanswered(n) == n = Leader \/ (turn[n].done /\ inbox[n].pending = 0)

(* The leader has its FRAME_ACK; the follower has FRAME_DONE and no edge   *)
(* left, and acknowledges.                                                 *)
TurnEnds(n) == IF n = Leader THEN turn[n].ack ELSE turn[n].done /\ inbox[n].pending = 0

Check(n) ==
  /\ At(n, "check") /\ ~closed[n]
  /\ IF TurnEnds(n)
     THEN /\ GoTo(n, "turn")
          /\ turn' = [turn EXCEPT ![n].ack = FALSE, ![n].done = FALSE, ![n].inflight = FALSE]
          /\ IF n = Leader THEN UNCHANGED wire ELSE Send(n, Frame("ack", NoId, Idle))
     ELSE GoTo(n, "loop") /\ UNCHANGED <<turn, wire>>
  /\ UNCHANGED <<barrier, edge, inbox, known, core, worker, closed, accused, repeats, got, effects>>

(* An operation of the owner finds the backend closed, or its deadline     *)
(* passes.                                                                 *)
Waits == {"turn", "finish", "loop", "check", "settle", "send", "answer", "await"}
OwnerStops(n) == owner[n].pc \in Waits /\ closed[n] /\ Abort(n)
Expire(n) ==
  /\ owner[n].pc \in Waits /\ ~closed[n]
  /\ At(n, "turn") => barrier /\ n # Leader
  /\ Abort(n)

-----------------------------------------------------------------------------
(* Serving the peer's edges: service_pending_edges *)

(* _apply_owner_edge_if_ready: an armed slave applies the edge; a core     *)
(* left on the internal clock with no transfer answers no-data.            *)
Armed(n) == core[n].enabled /\ ~core[n].internal
Transient(n) == core[n].internal /\ ~core[n].enabled
Ready(n) == Armed(n) \/ Transient(n)

Applied(n, i) ==
  IF Transient(n) THEN Request(i, Idle, FALSE) ELSE Request(i, Slave, core[n].left = 1)

Shift(c) == [c EXCEPT !.left = @ - 1, !.enabled = c.left > 1]

(* One request is taken and applied, under _owner_dispatch_lock.  A        *)
(* boundary inside a frame serves only when the queue is not empty.        *)
Serve(n) ==
  /\ owner[n].pc \in {"pump", "frame"}
  /\ inbox[n].queue # <<>> /\ inbox[n].held = NoRequest
  /\ ~closed[n] /\ Ready(n)
  /\ LET r == Applied(n, Head(inbox[n].queue))
     IN /\ owner' = [owner EXCEPT ![n].pc = "publish", ![n].hand = r,
                                  ![n].inframe = At(n, "frame")]
        /\ effects' = [effects EXCEPT ![n] = Append(@, r)]
  /\ inbox' = [inbox EXCEPT ![n].queue = Tail(@)]
  /\ core' = IF Armed(n) THEN [core EXCEPT ![n] = Shift(@)] ELSE core
  /\ UNCHANGED <<barrier, edge, known, worker, turn, wire, closed, accused, repeats, got>>

(* The request is not for this core yet and goes back to the head of the   *)
(* queue, or the backend has closed and it is dropped.                     *)
Defer(n) ==
  /\ At(n, "pump")
  /\ inbox[n].queue # <<>> /\ inbox[n].held = NoRequest
  /\ ~closed[n] => ~Ready(n)
  /\ inbox' = IF closed[n]
              THEN [inbox EXCEPT ![n].queue = Tail(@), ![n].pending = Less(@)]
              ELSE inbox
  /\ owner' = [owner EXCEPT ![n] = ServiceEnds(n, @, inbox[n])]
  /\ UNCHANGED <<barrier, edge, known, core, worker, turn, wire, closed, accused, repeats, got, effects>>

(* A variant: the held response is published without looking at _closed again. *)
PublishedBlindly(n) ==
  LET r == owner[n].hand
  IN IF r.completed THEN [inbox[n] EXCEPT !.held = r]
     ELSE [inbox[n] EXCEPT !.done = Append(@, r)]

(* The served request is held (it completed a byte), queued for the        *)
(* worker, or dropped because a close did not wait for the owner.          *)
Published(n) ==
  LET r == owner[n].hand
  IN CASE closed[n] -> [inbox[n] EXCEPT !.pending = Less(@)]
       [] ~closed[n] /\ r.completed -> [inbox[n] EXCEPT !.held = r]
       [] ~closed[n] /\ ~r.completed -> [inbox[n] EXCEPT !.done = Append(@, r)]

Publish(n) ==
  /\ At(n, "publish")
  /\ LET rec == [owner[n] EXCEPT !.applied = ~closed[n]]
         more == ~closed[n] /\ ~rec.hand.completed /\ rec.kind # "loop" /\ ~rec.inframe
     IN /\ inbox' = [inbox EXCEPT ![n] = Published(n)]
        /\ owner' = [owner EXCEPT ![n] =
                       IF more THEN [rec EXCEPT !.pc = "pump", !.hand = NoRequest]
                       ELSE ServiceEnds(n, rec, Published(n))]
  /\ UNCHANGED <<barrier, edge, known, core, worker, turn, wire, closed, accused, repeats, got, effects>>

-----------------------------------------------------------------------------
(* The game, and the master's on_edge *)

(* Inside a frame the game starts a byte on its own clock ... *)
ArmMaster(n) ==
  /\ At(n, "frame")
  /\ ~core[n].enabled \/ (~core[n].internal /\ core[n].left = ByteBits)
  /\ edge[n].next + ByteBits <= MaxEdges + 1
  /\ core' = [core EXCEPT ![n] = [enabled |-> TRUE, internal |-> TRUE, left |-> ByteBits]]
  /\ UNCHANGED <<barrier, owner, edge, inbox, known, worker, turn, wire, closed, accused, repeats, got, effects>>

(* ... or waits for the peer's. *)
ArmSlave(n) ==
  /\ At(n, "frame") /\ ~core[n].enabled
  /\ core' = [core EXCEPT ![n] = [enabled |-> TRUE, internal |-> FALSE, left |-> ByteBits]]
  /\ UNCHANGED <<barrier, owner, edge, inbox, known, worker, turn, wire, closed, accused, repeats, got, effects>>

(* The core clocks a bit: on_edge begins by releasing a held response.     *)
Clock(n) ==
  /\ At(n, "frame") /\ core[n].enabled /\ core[n].internal
  /\ inbox' = IF inbox[n].held # NoRequest THEN Release(n) ELSE inbox
  /\ GoTo(n, "settle")
  /\ UNCHANGED <<barrier, edge, known, core, worker, turn, wire, closed, accused, repeats, got, effects>>

(* Every released response has been written; the edge is admitted.         *)
Admit(n) ==
  /\ At(n, "settle") /\ ~closed[n] /\ inbox[n].owed = 0
  /\ IF edge[n].slot # <<>>
     THEN Abort(n)
     ELSE /\ edge' = [edge EXCEPT ![n].inflight = edge[n].next, ![n].next = @ + 1,
                                  ![n].seen = FALSE, ![n].recip = FALSE]
          /\ GoTo(n, "reserve")
          /\ UNCHANGED <<barrier, inbox, known, core, worker, turn, wire, closed, accused, repeats, got, effects>>

(* A variant: on_edge ignores a peer edge queued before it. *)
ReserveNothing(n) ==
  /\ At(n, "reserve") /\ WireFree(n)
  /\ GoTo(n, "send")
  /\ UNCHANGED <<barrier, inbox, edge, effects, known, core, worker, turn, wire, closed, accused, repeats, got>>

(* _reserve_queued_master_collision: a peer edge that was queued before    *)
(* this one is answered with this one's bit, once our request is out.      *)
Reserve(n) ==
  /\ At(n, "reserve") /\ WireFree(n)
  /\ IF inbox[n].queue = <<>> \/ edge[n].recip
     THEN GoTo(n, "send") /\ UNCHANGED <<inbox, edge, effects>>
     ELSE LET r == Request(Head(inbox[n].queue), edge[n].inflight, FALSE)
          IN /\ owner' = [owner EXCEPT ![n].pc = "send", ![n].hand = r]
             /\ inbox' = [inbox EXCEPT ![n].queue = Tail(@)]
             /\ edge' = [edge EXCEPT ![n].recip = TRUE]
             /\ effects' = [effects EXCEPT ![n] = Append(@, r)]
  /\ UNCHANGED <<barrier, known, core, worker, turn, wire, closed, accused, repeats, got>>

SendReq(n) ==
  /\ At(n, "send") /\ ~closed[n]
  /\ Send(n, Frame("req", edge[n].inflight, Idle))
  /\ GoTo(n, IF owner[n].hand = NoRequest THEN "await" ELSE "answer")
  /\ UNCHANGED <<barrier, edge, inbox, known, core, worker, turn, closed, accused, repeats, got, effects>>

AnswerReserved(n) ==
  /\ At(n, "answer") /\ ~closed[n] /\ WireFree(n)
  /\ LET r == owner[n].hand
     IN Send(n, Frame("resp", r.id, r.val)) /\ known' = Remembered(n, r)
  /\ inbox' = [inbox EXCEPT ![n].pending = Less(@)]
  /\ owner' = [owner EXCEPT ![n].pc = "await", ![n].hand = NoRequest]
  /\ UNCHANGED <<barrier, edge, core, worker, turn, closed, accused, repeats, got, effects>>

(* The answer is there: on_edge takes it ... *)
Await(n) ==
  /\ At(n, "await") /\ ~closed[n] /\ edge[n].slot # <<>>
  /\ got' = [got EXCEPT ![n] = Append(@, Head(edge[n].slot))]
  /\ edge' = [edge EXCEPT ![n].slot = <<>>, ![n].seen = TRUE]
  /\ GoTo(n, "clear")
  /\ UNCHANGED <<barrier, inbox, known, core, worker, turn, wire, closed, accused, repeats, effects>>

(* ... clears its edge and returns the bit, which the core shifts in.      *)
Clear(n) ==
  /\ At(n, "clear")
  /\ edge' = [edge EXCEPT ![n].inflight = NoId, ![n].seen = FALSE, ![n].recip = FALSE]
  /\ core' = [core EXCEPT ![n] = Shift(@)]
  /\ GoTo(n, "frame")
  /\ UNCHANGED <<barrier, inbox, known, worker, turn, wire, closed, accused, repeats, got, effects>>

-----------------------------------------------------------------------------
(* The owner-response worker *)

WorkerSend(n) ==
  /\ WireFree(n) /\ inbox[n].done # <<>> /\ ~closed[n]
  /\ LET r == Head(inbox[n].done)
     IN /\ worker' = [worker EXCEPT ![n] = r]
        /\ Send(n, Frame("resp", r.id, r.val))
        /\ known' = Remembered(n, r)
  /\ inbox' = [inbox EXCEPT ![n].done = Tail(@)]
  /\ UNCHANGED <<barrier, owner, edge, core, turn, closed, accused, repeats, got, effects>>

WorkerSettle(n) ==
  /\ ~WireFree(n)
  /\ inbox' = [inbox EXCEPT ![n].pending = Less(@),
                            ![n].owed = IF worker[n].completed THEN Less(@) ELSE @]
  /\ worker' = [worker EXCEPT ![n] = NoRequest]
  /\ UNCHANGED <<barrier, owner, edge, known, core, turn, wire, closed, accused, repeats, got, effects>>

-----------------------------------------------------------------------------
(* The reader: _reader_loop *)

Reads(n, op) == ~closed[n] /\ wire[n] # <<>> /\ Head(wire[n]).op = op
Front(n) == Head(wire[n]).id

(* A request waits for the response worker's wire completion.              *)
Requested(n) == Reads(n, "req") /\ WireFree(n)
(* A variant: _claim_inbound_edge_id without the high-water mark. *)
NewWithoutMark(n) == Front(n) \notin Answered(n) \cup known[n].claimed
New(n) == Front(n) \notin Answered(n) \cup known[n].claimed /\ Front(n) > known[n].highest
Claim(n) == [known EXCEPT ![n].claimed = @ \cup {Front(n)}, ![n].highest = Front(n)]

(* The peer broke the protocol: the reader closes, after the owner's       *)
(* dispatch.                                                               *)
Accuse(n) ==
  /\ ~Dispatching(n) /\ MarkClosed(n)
  /\ accused' = TRUE
  /\ UNCHANGED <<barrier, owner, edge, known, core, worker, turn, repeats, got, effects>>

(* An answered request is answered again from the history. *)
Replay(n) ==
  /\ Requested(n) /\ Front(n) \in Answered(n)
  /\ LET k == CHOOSE k \in DOMAIN known[n].answered : known[n].answered[k].id = Front(n)
     IN Answer(n, Frame("resp", Front(n), known[n].answered[k].val))
  /\ UNCHANGED <<barrier, owner, edge, inbox, known, core, worker, turn, closed, accused, repeats, got, effects>>

(* A pending duplicate, or one the history has forgotten. *)
RejectReq(n) == Requested(n) /\ ~New(n) /\ Front(n) \notin Answered(n) /\ Accuse(n)

(* _send_reciprocal_master_response: the edge of this end is in flight and *)
(* unanswered, and has answered no other edge.                             *)
Crossing(n) == edge[n].inflight # NoId /\ ~edge[n].seen /\ ~edge[n].recip
Reciprocate(n) ==
  /\ Requested(n) /\ New(n) /\ Crossing(n)
  /\ LET r == Request(Front(n), edge[n].inflight, FALSE)
     IN /\ effects' = [effects EXCEPT ![n] = Append(@, r)]
        /\ known' = [Remembered(n, r) EXCEPT ![n].highest = Front(n)]
        /\ Answer(n, Frame("resp", r.id, r.val))
  /\ edge' = [edge EXCEPT ![n].recip = TRUE]
  /\ UNCHANGED <<barrier, owner, inbox, core, worker, turn, closed, accused, repeats, got>>

(* Any other new request is queued for the owner. *)
Enqueue(n) ==
  /\ Requested(n) /\ New(n) /\ ~Crossing(n)
  /\ known' = Claim(n)
  /\ inbox' = [inbox EXCEPT ![n].queue = Append(@, Front(n)), ![n].pending = @ + 1]
  /\ Received(n)
  /\ UNCHANGED <<barrier, owner, edge, core, worker, turn, closed, accused, repeats, got, effects>>

ReadResp(n) ==
  /\ Reads(n, "resp")
  /\ IF edge[n].inflight = Front(n) /\ edge[n].slot = <<>>
     THEN /\ edge' = [edge EXCEPT ![n].slot = <<Head(wire[n]).val>>, ![n].seen = TRUE]
          /\ Received(n)
          /\ UNCHANGED <<barrier, owner, inbox, known, core, worker, turn, closed, accused, repeats, got, effects>>
     ELSE Accuse(n)

(* FRAME_TICK, FRAME_DONE and FRAME_ACK have queues of one. *)
ReadTurn(n) == \E op \in {"tick", "done", "ack"} :
  /\ Reads(n, op)
  /\ IF turn[n][op] \/ (op = "ack" /\ ~turn[n].inflight)
     THEN Accuse(n)
     ELSE /\ turn' = [turn EXCEPT ![n][op] = TRUE]
          /\ Received(n)
          /\ UNCHANGED <<barrier, owner, edge, inbox, known, core, worker, closed, accused, repeats, got, effects>>

(* The peer has closed its socket and everything it sent has been read.    *)
ReadEnd(n) ==
  /\ ~closed[n] /\ closed[Other(n)] /\ wire[n] = <<>> /\ ~Dispatching(n)
  /\ MarkClosed(n)
  /\ UNCHANGED <<barrier, owner, edge, known, core, worker, turn, accused, repeats, got, effects>>

-----------------------------------------------------------------------------
(* A request that was sent reaches the peer a second time.  Bound: only    *)
(* between ends without turns, which the handling of requests ignores.     *)
Repeat(n) ==
  /\ repeats < MaxRepeats /\ ~closed[n] /\ ~barrier
  /\ \E i \in 1..(edge[n].next - 1) :
       /\ i = edge[n].inflight => owner[n].pc \in {"answer", "await", "clear"}
       /\ Send(n, Frame("req", i, Idle))
  /\ repeats' = repeats + 1
  /\ UNCHANGED <<barrier, owner, edge, inbox, known, core, worker, turn, closed, accused, got, effects>>

(* stop(): its deadline lets it close while the owner is dispatching.      *)
Stop(n) ==
  /\ n \in MayStop /\ ~closed[n]
  /\ MarkClosed(n)
  /\ UNCHANGED <<barrier, owner, edge, known, core, worker, turn, accused, repeats, got, effects>>

(* Both owners have given up their links. *)
Ended == (\A n \in N : closed[n] /\ At(n, "down") /\ WireFree(n)) /\ UNCHANGED vars

OwnerStep(n) ==
  \/ BeginTurn(n) \/ PumpDone(n) \/ FinishFrame(n) \/ FinishTurn(n) \/ Progress(n) \/ Check(n)
  \/ OwnerStops(n) \/ Serve(n) \/ Defer(n) \/ Publish(n) \/ ArmMaster(n) \/ ArmSlave(n)
  \/ Clock(n) \/ Admit(n) \/ Reserve(n) \/ SendReq(n) \/ AnswerReserved(n) \/ Await(n) \/ Clear(n)
WorkerStep(n) == WorkerSend(n) \/ WorkerSettle(n)
ReaderStep(n) == Replay(n) \/ RejectReq(n) \/ Reciprocate(n) \/ Enqueue(n) \/ ReadResp(n)
                 \/ ReadTurn(n) \/ ReadEnd(n)

Next == \/ \E n \in N : OwnerStep(n) \/ WorkerStep(n) \/ ReaderStep(n)
                        \/ Expire(n) \/ Repeat(n) \/ Stop(n)
        \/ Ended

(* The threads run; nothing makes a deadline pass or anyone call stop.     *)
Fairness == \A n \in N : WF_vars(OwnerStep(n)) /\ WF_vars(WorkerStep(n)) /\ WF_vars(ReaderStep(n))
Spec == Init /\ [][Next]_vars /\ Fairness

-----------------------------------------------------------------------------
(* Properties *)

(* The type of the state. *)
Reqs == [id : Ids \cup {NoId}, val : Answers, completed : BOOLEAN]
TypeOK ==
  /\ barrier \in BOOLEAN /\ accused \in BOOLEAN /\ repeats \in 0..MaxRepeats
  /\ closed \in [N -> BOOLEAN]
  /\ \A n \in N :
       /\ owner[n] \in [pc : Waits \cup {"pump", "publish", "frame", "reserve", "clear", "down"},
                        kind : {"main", "after", "extra", "loop"}, inframe : BOOLEAN,
                        token : Ids \cup {NoId}, hand : Reqs, before : BOOLEAN, applied : BOOLEAN]
       /\ edge[n].inflight \in Ids \cup {NoId} /\ edge[n].next \in 1..(MaxEdges + 1)
       /\ Len(edge[n].slot) <= 1
       /\ inbox[n].queue \in Seq(Ids) /\ inbox[n].held \in Reqs /\ worker[n] \in Reqs
       /\ core[n].left \in 0..ByteBits

(* Every identified edge takes effect once, in the order the peer made     *)
(* them, and on_edge returns the bit the peer recorded for that edge:      *)
(* whatever was repeated, crossed, queued, held or evicted from the        *)
(* replay history.                                                         *)
ExactlyOnce == \A n \in N :
  /\ \A i, j \in DOMAIN effects[n] : i < j => effects[n][i].id < effects[n][j].id
  /\ \A k \in DOMAIN got[n] : \E i \in DOMAIN effects[Other(n)] :
       effects[Other(n)][i].id = k /\ effects[Other(n)][i].val = got[n][k]

(* While the link is open the pending count, which the frame barrier       *)
(* trusts, is the number of admitted edges whose response is not written:  *)
(* queued, served, held, waiting for the worker or in its hands; and a     *)
(* closed link has none and holds none.                                    *)
One(r) == IF r = NoRequest THEN 0 ELSE 1
Accounted == TypeOK /\ \A n \in N :
  IF closed[n] THEN inbox[n].pending = 0 /\ inbox[n].held = NoRequest
  ELSE /\ inbox[n].pending = Len(inbox[n].queue) + Len(inbox[n].done) + One(inbox[n].held)
                             + One(owner[n].hand) + One(worker[n])
       /\ inbox[n].owed = Cardinality({k \in DOMAIN inbox[n].done : inbox[n].done[k].completed})
                          + (IF worker[n].completed THEN 1 ELSE 0)

(* On the wire no own request runs ahead of the response that completes    *)
(* a byte of the peer.                                                     *)
NoOvertaking == \A n \in N : \A i, j \in DOMAIN wire[n] :
  i < j /\ wire[n][i].op = "req" /\ wire[n][j].op = "resp" =>
    \A k \in DOMAIN effects[Other(n)] :
      effects[Other(n)][k].id = wire[n][j].id => ~effects[Other(n)][k].completed \/ repeats > 0

(* Two ends that follow the code never accuse each other: no duplicate     *)
(* control frame, unsolicited response or stale edge arises from any       *)
(* interleaving unless the wire repeats a request.                         *)
NoFalseAccusation == accused => repeats > 0

(* Two owners that both wait in on_edge for each other do not wait for a   *)
(* deadline.                                                               *)
Mastering(n) == owner[n].pc \in {"settle", "reserve", "send", "answer", "await", "clear"}
CrossedMastersMeet == (\A n \in N : Mastering(n)) ~> (\E n \in N : ~Mastering(n))

(* When two edges cross, each is answered with the other's bit.  The       *)
(* comment in _send_reciprocal_master_response and the tests of            *)
(* simultaneous masters promise it.                                        *)
CrossedEdgesPair == \A n \in N : \A k \in DOMAIN got[n] :
  LET j == got[n][k] IN j \in DOMAIN got[Other(n)] => got[Other(n)][j] = k

=============================================================================
