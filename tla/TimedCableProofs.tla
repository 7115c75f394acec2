-------------------------- MODULE TimedCableProofs --------------------------
(***************************************************************************)
(* Proofs about TimedCable for every quantum, rearm budget, lateness,      *)
(* capacity, instruction length and edge period, whatever the games write, *)
(* whoever cancels and whichever deadline expires.                         *)
(***************************************************************************)
EXTENDS TimedCable, FiniteSetTheorems, WellFoundedInduction, SequenceTheorems, TLAPS

-----------------------------------------------------------------------------
(* The inductive invariant *)

Fault == {"none", "closed", "deadline", "cancelled", "protocol", "lateness", "capacity",
          "conflict", "allowance", "exhausted"}
Ending == {"none", "cancelled", "closed", "validation", "receive_edge.lateness",
           "delivery.lateness", "reserve.held_lateness", "commit.held_lateness",
           "commit.edge_lateness"}
Message ==
       [type : {"Progress"}, at : Nat]
  \cup [type : {"EdgeRequest", "EdgeResponse", "EmissionComplete"}, id : Nat, at : Nat]
  \cup [type : {"Fence", "FenceAck"}, id : Nat, through : Nat]

Edge == [at : Nat, seq : Nat]
Episode == [id : Nat, cycles : Int, cap : Int]
FenceSent == [id : Nat, through : Nat, acked : BOOLEAN]

Coordinator ==
  [ended : Ending, local : Nat, peer : Nat, progress : Nat, permit : {0, Need},
   episode : Episode, episodeOpen : BOOLEAN, episodeEnd : Int, instructions : Nat,
   edgeSequence : Nat, lastEdgeAt : Nat, edges : SUBSET Edge, mark : Nat \cup {-1},
   markSequence : Nat, held : SUBSET Edge, deliveryEpisode : Episode]

SerialCore ==
  [enabled : BOOLEAN, internal : BOOLEAN, bits : 0..ByteBits, target : Nat, now : Nat]

Bookkeeping ==
  [ingress : Seq(Message), delivery : SUBSET Edge, completed : SUBSET Nat, out : Nat,
   waiting : Nat, scheduled : Nat, settled : Nat, sentProgress : Nat,
   sentMark : Nat \cup {-1}, episodes : Nat, heldStart : Nat, retired : Nat]

Fencing ==
  [sent : SUBSET FenceSent, started : Nat, seen : Nat,
   owed : Seq([id : Nat, through : Nat])]

Positions ==
  {"boundary", "consume", "deliver", "reserve", "starved", "exec", "access", "commit",
   "reply", "broken", "down"}

Shape ==
  /\ pc \in [Sides -> Positions]
  /\ mode \in [Sides -> {"none", "before", "wait", "end", "fence"}]
  /\ co \in [Sides -> Coordinator]
  /\ serial \in [Sides -> SerialCore]
  /\ link \in [Sides -> Bookkeeping]
  /\ fences \in [Sides -> Fencing]
  /\ open \in [Sides -> BOOLEAN]
  /\ wire \in [Sides -> Seq(Message)]
  /\ fault \in [Sides -> Fault]

(* Where the owner is, and what it may have in hand there. *)
Position(s) ==
  /\ co[s].permit > 0 => pc[s] \in {"exec", "access", "commit", "reply"}
  /\ pc[s] \in {"exec", "access"} => co[s].permit > 0
  /\ fault[s] # "none" => pc[s] \in {"commit", "broken", "down"}
  /\ pc[s] = "broken" => fault[s] # "none"
  /\ link[s].waiting # 0 => pc[s] \in {"reply", "commit", "broken", "down"}
  /\ link[s].waiting # 0 /\ pc[s] = "commit" => fault[s] # "none"
  /\ fault[s] \notin {"protocol", "lateness"}

(* The serial core keeps up with the clock, and the next edge it will      *)
(* clock lies beyond everything the session has declared complete.         *)
Settled == {"consume", "deliver", "reserve", "starved"}

Core(s) ==
  /\ serial[s].enabled = (serial[s].bits > 0)
  /\ pc[s] \in Settled \cup {"boundary", "exec"} => serial[s].now = co[s].local
  /\ pc[s] \in {"access", "reply"} => co[s].local <= serial[s].now
  /\ pc[s] = "reply" /\ co[s].permit = 0 => serial[s].now = co[s].local
  /\ pc[s] \in Settled /\ Clocking(s) => serial[s].target > serial[s].now
  /\ Clocking(s) =>
       /\ serial[s].target > 0
       /\ IF link[s].waiting = 0 THEN serial[s].target > link[s].sentMark
                                 ELSE serial[s].target >= link[s].sentMark
  /\ link[s].sentMark <= serial[s].now
  /\ link[s].scheduled <= link[s].sentMark \/ link[s].scheduled = 0

(* The clock, and the permit on top of it, stay within the credit of the   *)
(* peer's progress and the lateness of the watermark and of each edge.     *)
Bounded(s) ==
  LET c == co[s]  end == c.local + c.permit IN
  /\ end <= c.peer + QuantumCycles + RearmBudget
  /\ end <= c.mark + MaxEdgeLateness \/ end = 0
  /\ \A e \in c.held \cup c.edges : end <= e.at + MaxEdgeLateness
  /\ \A e, f \in c.held : e = f
  /\ \A e \in link[s].delivery : e \in c.held /\ e.at <= c.local
  /\ c.permit > 0 /\ c.episodeOpen => c.instructions > 0
  /\ link[s].settled <= c.local /\ link[s].sentProgress <= c.local

(* What is on the way to a side, in the order in which it is consumed.     *)
Stream(s) == link[s].ingress \o wire[Other(s)]

Is(w, i, type) == w[i].type = type

(* The times a side announces: never back, never beyond the last it sent.  *)
Announced(w, progress, peer, last) ==
  /\ progress = 0 => w # <<>> /\ w[1] = Progress(0) /\ peer = 0
  /\ peer <= last
  /\ \A i \in DOMAIN w : Is(w, i, "Progress") => peer <= w[i].at /\ w[i].at <= last
  /\ \A i, j \in DOMAIN w :
       i < j /\ Is(w, i, "Progress") /\ Is(w, j, "Progress") => w[i].at <= w[j].at

(* At most one edge is on the way.  What is sent before it speaks of the   *)
(* edges before it, and what is sent after it includes it.                 *)
Asking(w) == \E i \in DOMAIN w : Is(w, i, "EdgeRequest")

Through(w, i, out) == IF \E j \in DOMAIN w : i < j /\ Is(w, j, "EdgeRequest") THEN out - 1 ELSE out

Numbered(w, sequence, out, at) ==
  /\ sequence = IF Asking(w) THEN out - 1 ELSE out
  /\ \A i \in DOMAIN w : Is(w, i, "EdgeRequest") =>
       /\ w[i].id = out /\ w[i].at = at
       /\ \A j \in DOMAIN w : Is(w, j, "EdgeRequest") => i = j
  /\ \A i \in DOMAIN w : Is(w, i, "EmissionComplete") => w[i].id = Through(w, i, out)
  /\ \A i \in DOMAIN w : Is(w, i, "Fence") => w[i].through = Through(w, i, out)

(* No edge falls into a prefix that was declared complete before it.       *)
Declared(w, mark, last) ==
  /\ mark <= last
  /\ \A i \in DOMAIN w : Is(w, i, "EmissionComplete") => mark <= w[i].at /\ w[i].at <= last
  /\ \A i \in DOMAIN w : Is(w, i, "EdgeRequest") => mark < w[i].at
  /\ \A i, j \in DOMAIN w : i < j /\ Is(w, i, "EmissionComplete") =>
       /\ Is(w, j, "EmissionComplete") => w[i].at <= w[j].at
       /\ Is(w, j, "EdgeRequest") => w[i].at < w[j].at

(* A fence is on its way to the peer, or owed by it, or acknowledged on    *)
(* its way back; in this order, the later the fence.                       *)
Sent(m) == [id |-> m.id, through |-> m.through, acked |-> FALSE]

Fenced(w, seen, started, sent) ==
  /\ seen <= started
  /\ \A i \in DOMAIN w : Is(w, i, "Fence") =>
       seen < w[i].id /\ w[i].id <= started /\ Sent(w[i]) \in sent
  /\ \A n \in Nat : seen < n /\ n <= started =>
       \E i \in DOMAIN w : Is(w, i, "Fence") /\ w[i].id = n
  /\ \A i, j \in DOMAIN w :
       i < j /\ Is(w, i, "Fence") /\ Is(w, j, "Fence") => w[i].id < w[j].id

Owed(owed, seen, sent) ==
  /\ \A i \in DOMAIN owed : owed[i].id <= seen /\ Sent(owed[i]) \in sent
  /\ \A i, j \in DOMAIN owed : i < j => owed[i].id < owed[j].id

Acked(w, owed, seen, sent) ==
  /\ \A i \in DOMAIN w : Is(w, i, "FenceAck") =>
       /\ Sent(w[i]) \in sent /\ w[i].id <= seen
       /\ \A j \in DOMAIN owed : w[i].id < owed[j].id
  /\ \A i, j \in DOMAIN w :
       i < j /\ Is(w, i, "FenceAck") /\ Is(w, j, "FenceAck") => w[i].id < w[j].id

Outstanding(sent, started) ==
  /\ IsFiniteSet(sent) /\ Cardinality(sent) <= Capacity
  /\ \A f \in sent : f.id <= started
  /\ \A f, g \in sent : f.id = g.id => f = g

(* The edge a side waits for is at one place: on its way, pending or in    *)
(* the batch of the peer, or answered on its way back.                     *)
EdgeOf(l) == [at |-> l.scheduled, seq |-> l.out]

Here(s) == co[s].edges \cup link[s].delivery

Answer(s, m) ==
  LET l == link[Other(s)] IN
  /\ l.waiting # 0 /\ m.id = l.waiting
  /\ l.scheduled <= m.at /\ m.at <= l.scheduled + MaxEdgeLateness
  /\ Here(s) = {} /\ link[s].completed = 1..l.out

Placed(s) ==
  LET l == link[Other(s)] IN
  /\ l.waiting \in {0, l.out} /\ (l.waiting # 0 => l.out > 0)
  /\ Here(s) \subseteq {EdgeOf(l)} /\ co[s].edges \cap link[s].delivery = {}
  /\ link[s].completed = 1..l.out \/ (l.waiting # 0 /\ link[s].completed = 1..(l.out - 1))
  /\ Here(s) # {} =>
       l.waiting # 0 /\ co[s].edgeSequence = l.out /\ link[s].completed = 1..(l.out - 1)
  /\ open[s] /\ Asking(Stream(s)) => l.waiting # 0 /\ link[s].completed = 1..(l.out - 1)
  /\ \A i \in DOMAIN wire[s] : Is(wire[s], i, "EdgeResponse") =>
       /\ Answer(s, wire[s][i])
       /\ \A j \in DOMAIN wire[s] : Is(wire[s], j, "EdgeResponse") => i = j

(* What a side receives from the other, and what it is owed by it.         *)
Received(s) ==
  LET o == Other(s)  w == Stream(s) IN
  /\ co[s].peer <= link[o].sentProgress
  /\ Owed(fences[o].owed, fences[o].seen, fences[s].sent)
  /\ open[s] => /\ Announced(w, co[s].progress, co[s].peer, link[o].sentProgress)
                /\ Numbered(w, co[s].edgeSequence, link[o].out, link[o].scheduled)
                /\ Declared(w, co[s].mark, link[o].sentMark)
                /\ Fenced(w, fences[s].seen, fences[o].started, fences[o].sent)
                /\ Acked(w, fences[o].owed, fences[o].seen, fences[s].sent)

Own(s) == Position(s) /\ Core(s) /\ Bounded(s) /\ Outstanding(fences[s].sent, fences[s].started)

IInv == Shape /\ \A s \in Sides : Own(s) /\ Received(s) /\ Placed(s)

-----------------------------------------------------------------------------
(* The two sides, messages and sequences of them *)

\* Each side is the other of its other.
LEMMA Peers ==
  ASSUME NEW s \in Sides
  PROVE  Other(s) \in Sides /\ Other(s) # s /\ Other(Other(s)) = s
         /\ \A t \in Sides : t = s \/ t = Other(s)
<1>1. PICK a, b \in Sides : a # b /\ Sides = {a, b}
  BY CableAssumption
<1>2. \A t \in Sides : Other(t) \in Sides /\ Other(t) # t
  BY <1>1 DEF Other
<1> QED BY <1>1, <1>2

\* What the constants are.
LEMMA Constants ==
  /\ QuantumCycles \in Nat /\ RearmBudget \in Nat /\ MaxEdgeLateness \in Nat
  /\ InstructionCap \in Nat /\ InstructionCap > 0 /\ Capacity \in Nat /\ Capacity > 0
  /\ Need \in Nat /\ Need > 0 /\ EdgePeriod \in Nat /\ EdgePeriod > 0
  /\ ByteBits \in Nat /\ ByteBits > 0
BY CableAssumption

\* The six kinds of messages.
LEMMA Messages ==
  /\ \A n \in Nat : Progress(n) \in Message /\ Progress(n).type = "Progress" /\ Progress(n).at = n
  /\ \A n, at \in Nat :
       /\ EdgeRequest(n, at) \in Message /\ EdgeRequest(n, at).type = "EdgeRequest"
       /\ EdgeRequest(n, at).id = n /\ EdgeRequest(n, at).at = at
       /\ EdgeResponse(n, at) \in Message /\ EdgeResponse(n, at).type = "EdgeResponse"
       /\ EdgeResponse(n, at).id = n /\ EdgeResponse(n, at).at = at
       /\ EmissionComplete(at, n) \in Message /\ EmissionComplete(at, n).type = "EmissionComplete"
       /\ EmissionComplete(at, n).id = n /\ EmissionComplete(at, n).at = at
  /\ \A n, t \in Nat :
       /\ Fence(n, t) \in Message /\ Fence(n, t).type = "Fence"
       /\ Fence(n, t).id = n /\ Fence(n, t).through = t
       /\ FenceAck(n, t) \in Message /\ FenceAck(n, t).type = "FenceAck"
       /\ FenceAck(n, t).id = n /\ FenceAck(n, t).through = t
BY DEF Message, Progress, EdgeRequest, EdgeResponse, EmissionComplete, Fence, FenceAck

\* What the fields of a message are.
LEMMA Fields ==
  ASSUME NEW m \in Message
  PROVE  /\ m.type \in {"Progress", "EdgeRequest", "EmissionComplete", "EdgeResponse", "Fence", "FenceAck"}
         /\ m.type \in {"Progress", "EdgeRequest", "EmissionComplete", "EdgeResponse"} => m.at \in Nat
         /\ m.type \in {"EdgeRequest", "EmissionComplete", "EdgeResponse", "Fence", "FenceAck"} => m.id \in Nat
         /\ m.type \in {"Fence", "FenceAck"} => m.through \in Nat
BY DEF Message

\* What a sequence of messages consists of.
LEMMA Elements ==
  ASSUME NEW w \in Seq(Message)
  PROVE  /\ Len(w) \in Nat /\ DOMAIN w = 1..Len(w) /\ DOMAIN w \subseteq Nat
         /\ \A i \in DOMAIN w : w[i] \in Message
         /\ w # <<>> => 1 \in DOMAIN w /\ Head(w) = w[1]
BY LenProperties, ElementOfSeq, EmptySeq, HeadTailProperties

\* Two sequences, one after the other.
LEMMA Joined ==
  ASSUME NEW w \in Seq(Message), NEW u \in Seq(Message)
  PROVE  /\ w \o u \in Seq(Message)
         /\ \A i \in DOMAIN w : i \in DOMAIN (w \o u) /\ (w \o u)[i] = w[i]
         /\ \A j \in DOMAIN u : Len(w) + j \in DOMAIN (w \o u) /\ (w \o u)[Len(w) + j] = u[j]
         /\ \A i \in DOMAIN (w \o u) : i \in DOMAIN w \/ \E j \in DOMAIN u : i = Len(w) + j
         /\ \A i \in DOMAIN w, j \in DOMAIN u : i < Len(w) + j
         /\ \A i, j \in DOMAIN u : i < j <=> Len(w) + i < Len(w) + j
<1>1. /\ Len(w) \in Nat /\ DOMAIN w = 1..Len(w) /\ Len(u) \in Nat /\ DOMAIN u = 1..Len(u)
  BY Elements
<1>2. /\ w \o u \in Seq(Message) /\ Len(w \o u) = Len(w) + Len(u)
      /\ \A i \in 1 .. Len(w) + Len(u) : (w \o u)[i] = IF i <= Len(w) THEN w[i] ELSE u[i - Len(w)]
  BY ConcatProperties
<1>3. DOMAIN (w \o u) = 1..(Len(w) + Len(u))
  BY <1>2, Elements
<1>4. ASSUME NEW i \in DOMAIN w
      PROVE  i \in DOMAIN (w \o u) /\ (w \o u)[i] = w[i] /\ \A j \in DOMAIN u : i < Len(w) + j
  BY <1>1, <1>2, <1>3
<1>5. ASSUME NEW j \in DOMAIN u
      PROVE  Len(w) + j \in DOMAIN (w \o u) /\ (w \o u)[Len(w) + j] = u[j]
  <2>1. /\ j \in Nat /\ Len(w) + j \in 1..(Len(w) + Len(u)) /\ ~(Len(w) + j <= Len(w))
        /\ (Len(w) + j) - Len(w) = j
    BY <1>1
  <2> QED BY <1>2, <1>3, <2>1
<1>6. ASSUME NEW i \in DOMAIN (w \o u), i \notin DOMAIN w
      PROVE  \E j \in DOMAIN u : i = Len(w) + j
  <2>1. i - Len(w) \in DOMAIN u /\ i = Len(w) + (i - Len(w))
    BY <1>1, <1>3, <1>6
  <2> QED BY <2>1
<1> QED BY <1>1, <1>2, <1>4, <1>5, <1>6

(* v is w without its element number d.                                    *)
Thinned(v, w, d) ==
  /\ v \in Seq(Message) /\ w \in Seq(Message) /\ d \in DOMAIN w
  /\ \E g \in [DOMAIN v -> DOMAIN w \ {d}] :
       /\ \A i \in DOMAIN v : v[i] = w[g[i]]
       /\ \A i, j \in DOMAIN v : i < j => g[i] < g[j]
       /\ \A i, j \in DOMAIN v : g[i] < g[j] => i < j
       /\ \A i, j \in DOMAIN v : g[i] = g[j] => i = j
       /\ \A k \in DOMAIN w : k = d \/ \E i \in DOMAIN v : g[i] = k
  /\ d # 1 => v # <<>> /\ v[1] = w[1]

\* Taking the head of the second of two sequences thins what they are together.
LEMMA Thinning ==
  ASSUME NEW a \in Seq(Message), NEW b \in Seq(Message), b # <<>>
  PROVE  /\ Thinned(a \o Tail(b), a \o b, Len(a) + 1)
         /\ (a \o b)[Len(a) + 1] = Head(b)
<1> DEFINE v == a \o Tail(b)
           w == a \o b
           d == Len(a) + 1
           g == [i \in DOMAIN v |-> IF i < d THEN i ELSE i + 1]
<1>1. /\ Len(a) \in Nat /\ Len(b) \in Nat /\ Len(b) > 0 /\ d \in Nat /\ d > 0
      /\ Tail(b) \in Seq(Message) /\ Len(Tail(b)) = Len(b) - 1
      /\ \A i \in 1..(Len(b) - 1) : Tail(b)[i] = b[i + 1]
      /\ Head(b) = b[1] /\ Len(b) - 1 \in Nat
  <2>1. Len(a) \in Nat /\ Len(b) \in Nat /\ Len(b) > 0 /\ Head(b) = b[1]
    BY Elements
  <2>2. /\ Tail(b) \in Seq(Message) /\ Len(Tail(b)) = Len(b) - 1
        /\ \A i \in 1..Len(Tail(b)) : Tail(b)[i] = b[i + 1]
    BY HeadTailProperties
  <2> QED BY <2>1, <2>2
<1>2. /\ v \in Seq(Message) /\ DOMAIN v = 1..(Len(a) + (Len(b) - 1))
      /\ \A i \in DOMAIN v : v[i] = IF i <= Len(a) THEN a[i] ELSE Tail(b)[i - Len(a)]
  <2>1. /\ v \in Seq(Message) /\ Len(v) = Len(a) + Len(Tail(b))
        /\ \A i \in 1 .. Len(a) + Len(Tail(b)) : v[i] = IF i <= Len(a) THEN a[i] ELSE Tail(b)[i - Len(a)]
    BY <1>1, ConcatProperties
  <2> QED BY <1>1, <2>1, Elements
<1>3. /\ w \in Seq(Message) /\ DOMAIN w = 1..(Len(a) + Len(b))
      /\ \A i \in DOMAIN w : w[i] = IF i <= Len(a) THEN a[i] ELSE b[i - Len(a)]
  <2>1. /\ w \in Seq(Message) /\ Len(w) = Len(a) + Len(b)
        /\ \A i \in 1 .. Len(a) + Len(b) : w[i] = IF i <= Len(a) THEN a[i] ELSE b[i - Len(a)]
    BY ConcatProperties
  <2> QED BY <2>1, Elements
<1> HIDE DEF v, w
<1>4. d \in DOMAIN w /\ w[d] = Head(b)
  BY <1>1, <1>3
<1>5. \A i \in DOMAIN v : v[i] = w[g[i]] /\ g[i] \in DOMAIN w \ {d}
  <2> SUFFICES ASSUME NEW i \in DOMAIN v PROVE v[i] = w[g[i]] /\ g[i] \in DOMAIN w \ {d}
    OBVIOUS
  <2>1. CASE i < d
    BY <1>1, <1>2, <1>3, <2>1
  <2>2. CASE ~(i < d)
    <3>1. /\ i \in Nat /\ g[i] = i + 1 /\ i + 1 \in DOMAIN w /\ i + 1 # d /\ ~(i <= Len(a))
          /\ ~(i + 1 <= Len(a)) /\ i - Len(a) \in 1..(Len(b) - 1) /\ (i - Len(a)) + 1 = (i + 1) - Len(a)
      BY <1>1, <1>2, <1>3, <2>2
    <3> QED BY <1>1, <1>2, <1>3, <3>1
  <2> QED BY <2>1, <2>2
<1>6. \A i, j \in DOMAIN v : /\ i < j => g[i] < g[j]
                             /\ g[i] < g[j] => i < j
                             /\ g[i] = g[j] => i = j
  BY <1>1, <1>2
<1>7. \A k \in DOMAIN w : k = d \/ \E i \in DOMAIN v : g[i] = k
  <2> SUFFICES ASSUME NEW k \in DOMAIN w, k # d PROVE \E i \in DOMAIN v : g[i] = k
    OBVIOUS
  <2>1. CASE k < d
    BY <1>1, <1>2, <1>3, <2>1
  <2>2. CASE ~(k < d)
    <3>1. k - 1 \in DOMAIN v /\ ~(k - 1 < d) /\ (k - 1) + 1 = k
      BY <1>1, <1>2, <1>3, <2>2
    <3> QED BY <3>1
  <2> QED BY <2>1, <2>2
<1>8. g \in [DOMAIN v -> DOMAIN w \ {d}]
  BY <1>5
<1>9. d # 1 => v # <<>> /\ v[1] = w[1]
  <2> SUFFICES ASSUME d # 1 PROVE v # <<>> /\ v[1] = w[1]
    OBVIOUS
  <2>1. 1 \in DOMAIN v /\ 1 \in DOMAIN w /\ 1 <= Len(a)
    BY <1>1, <1>2, <1>3
  <2>2. v # <<>>
    BY <2>1, <1>2, EmptySeq, Elements
  <2>3. v[1] = w[1]
    BY <1>2, <1>3, <2>1
  <2> QED BY <2>2, <2>3
<1> HIDE DEF g, d
<1>10. \E h \in [DOMAIN v -> DOMAIN w \ {d}] :
         /\ \A i \in DOMAIN v : v[i] = w[h[i]]
         /\ \A i, j \in DOMAIN v : i < j => h[i] < h[j]
         /\ \A i, j \in DOMAIN v : h[i] < h[j] => i < j
         /\ \A i, j \in DOMAIN v : h[i] = h[j] => i = j
         /\ \A k \in DOMAIN w : k = d \/ \E i \in DOMAIN v : h[i] = k
  BY ONLY <1>5, <1>6, <1>7, <1>8
<1>11. Thinned(v, w, d)
  BY <1>2, <1>3, <1>4, <1>9, <1>10 DEF Thinned
<1> QED BY <1>4, <1>11 DEF v, w, d

\* Taking the head of the first of them does too.
LEMMA Beheaded ==
  ASSUME NEW a \in Seq(Message), NEW b \in Seq(Message), a # <<>>
  PROVE  Thinned(Tail(a) \o b, a \o b, 1) /\ (a \o b)[1] = Head(a)
<1>1. /\ Len(a) \in Nat /\ Len(a) > 0 /\ Head(a) = a[1]
      /\ Tail(a) \in Seq(Message) /\ Len(Tail(a)) = Len(a) - 1 /\ Len(a) - 1 \in Nat
      /\ \A i \in 1..Len(Tail(a)) : Tail(a)[i] = a[i + 1]
      /\ Len(b) \in Nat
  BY Elements, HeadTailProperties
<1>2. /\ a \o b \in Seq(Message) /\ Len(a \o b) = Len(a) + Len(b)
      /\ \A i \in 1 .. Len(a) + Len(b) : (a \o b)[i] = IF i <= Len(a) THEN a[i] ELSE b[i - Len(a)]
  BY ConcatProperties
<1>3. /\ Tail(a) \o b \in Seq(Message) /\ Len(Tail(a) \o b) = (Len(a) - 1) + Len(b)
      /\ \A i \in 1 .. (Len(a) - 1) + Len(b) :
           (Tail(a) \o b)[i] = IF i <= Len(a) - 1 THEN Tail(a)[i] ELSE b[i - (Len(a) - 1)]
  BY <1>1, ConcatProperties
<1>4. a \o b # <<>> /\ Head(a \o b) = (a \o b)[1] /\ (a \o b)[1] = a[1]
  <2>1. Len(a \o b) > 0
    BY <1>1, <1>2
  <2>2. a \o b # <<>>
    BY <2>1, EmptySeq
  <2> QED BY <1>1, <1>2, <2>2, Elements
<1>5. /\ Tail(a \o b) \in Seq(Message) /\ Len(Tail(a \o b)) = (Len(a) + Len(b)) - 1
      /\ \A i \in 1..((Len(a) + Len(b)) - 1) : Tail(a \o b)[i] = (a \o b)[i + 1]
  BY <1>2, <1>4, HeadTailProperties
<1>6. Tail(a) \o b = Tail(a \o b)
  <2>1. ASSUME NEW i \in 1..((Len(a) + Len(b)) - 1)
        PROVE  (Tail(a) \o b)[i] = Tail(a \o b)[i]
    <3>1. i \in Nat /\ i + 1 \in 1..(Len(a) + Len(b)) /\ i \in 1..((Len(a) - 1) + Len(b))
      BY <1>1
    <3>2. CASE i <= Len(a) - 1
      BY <1>1, <1>2, <1>3, <1>5, <2>1, <3>1, <3>2
    <3>3. CASE ~(i <= Len(a) - 1)
      <4>1. ~(i + 1 <= Len(a)) /\ i - (Len(a) - 1) = (i + 1) - Len(a)
        BY <1>1, <3>1, <3>3
      <4> QED BY <1>2, <1>3, <1>5, <2>1, <3>1, <3>3, <4>1
    <3> QED BY <3>2, <3>3
  <2>2. Len(Tail(a) \o b) = Len(Tail(a \o b)) /\ Len(Tail(a) \o b) = (Len(a) + Len(b)) - 1
    BY <1>1, <1>3, <1>5
  <2> QED BY <1>3, <1>5, <2>1, <2>2, SeqEqual
<1>7. <<>> \in Seq(Message) /\ Len(<<>>) + 1 = 1
  BY EmptySeq
<1>8. Thinned(<<>> \o Tail(a \o b), <<>> \o (a \o b), 1)
  BY <1>2, <1>4, <1>7, Thinning
<1>9. <<>> \o Tail(a \o b) = Tail(a \o b) /\ <<>> \o (a \o b) = a \o b
  BY <1>2, <1>5, ConcatEmptySeq
<1> QED BY <1>1, <1>4, <1>6, <1>8, <1>9

-----------------------------------------------------------------------------
(* What a side sends is appended to what is on the way *)

\* An edge is on the way after some messages were sent if one was before or is
\* among them.
LEMMA AskingMore ==
  ASSUME NEW w \in Seq(Message), NEW u \in Seq(Message)
  PROVE  Asking(w \o u) <=> Asking(w) \/ Asking(u)
<1>1. ASSUME NEW i \in DOMAIN (w \o u), Is(w \o u, i, "EdgeRequest") PROVE Asking(w) \/ Asking(u)
  <2>1. CASE i \in DOMAIN w
    BY <1>1, <2>1, Joined DEF Asking, Is
  <2>2. CASE \E j \in DOMAIN u : i = Len(w) + j
    <3>1. PICK j \in DOMAIN u : i = Len(w) + j
      BY <2>2
    <3> QED BY <1>1, <3>1, Joined DEF Asking, Is
  <2> QED BY <2>1, <2>2, Joined
<1>2. ASSUME Asking(w) PROVE Asking(w \o u)
  BY <1>2, Joined DEF Asking, Is
<1>3. ASSUME Asking(u) PROVE Asking(w \o u)
  BY <1>3, Joined DEF Asking, Is
<1> QED BY <1>1, <1>2, <1>3 DEF Asking

\* A side that announces only the time it sent last announces it in order.
LEMMA AnnouncedMore ==
  ASSUME NEW w \in Seq(Message), NEW u \in Seq(Message),
         NEW progress, NEW peer \in Nat, NEW last \in Nat, NEW next \in Nat,
         Announced(w, progress, peer, last), last <= next,
         \A j \in DOMAIN u : Is(u, j, "Progress") => u[j].at = next
  PROVE  Announced(w \o u, progress, peer, next)
<1> DEFINE v == w \o u
<1>1. progress = 0 => v # <<>> /\ v[1] = Progress(0) /\ peer = 0
  <2> SUFFICES ASSUME progress = 0 PROVE v # <<>> /\ v[1] = Progress(0) /\ peer = 0
    OBVIOUS
  <2>1. w # <<>> /\ w[1] = Progress(0) /\ peer = 0
    BY DEF Announced
  <2>2. 1 \in DOMAIN w
    BY <2>1, Elements
  <2>3. 1 \in DOMAIN v /\ v[1] = w[1]
    BY <2>2, Joined
  <2>4. v # <<>>
    BY <2>3, EmptySeq, Elements
  <2> QED BY <2>1, <2>3, <2>4
<1>2. peer <= next
  BY DEF Announced
<1>3. ASSUME NEW i \in DOMAIN w, Is(w, i, "Progress")
      PROVE  w[i].at \in Nat /\ peer <= w[i].at /\ w[i].at <= last /\ w[i].at <= next
  <2>1. w[i].at \in Nat
    BY <1>3, Elements, Fields DEF Is
  <2>2. peer <= w[i].at /\ w[i].at <= last
    BY <1>3 DEF Announced
  <2> QED BY <2>1, <2>2
<1>4. ASSUME NEW i \in DOMAIN v, Is(v, i, "Progress")
      PROVE  peer <= v[i].at /\ v[i].at <= next
  <2>1. CASE i \in DOMAIN w
    <3>1. v[i] = w[i]
      BY <2>1, Joined
    <3> QED BY <1>3, <1>4, <2>1, <3>1 DEF Is
  <2>2. ASSUME NEW j \in DOMAIN u, i = Len(w) + j
        PROVE  peer <= v[i].at /\ v[i].at <= next
    <3>1. v[i] = u[j]
      BY <2>2, Joined
    <3> QED BY <1>2, <1>4, <3>1 DEF Is
  <2> QED BY <2>1, <2>2, Joined
<1>5. ASSUME NEW i \in DOMAIN v, NEW j \in DOMAIN v, i < j, Is(v, i, "Progress"), Is(v, j, "Progress")
      PROVE  v[i].at <= v[j].at
  <2>1. CASE i \in DOMAIN w /\ j \in DOMAIN w
    <3>1. v[i] = w[i] /\ v[j] = w[j]
      BY <2>1, Joined
    <3> QED BY <1>5, <2>1, <3>1 DEF Is, Announced
  <2>2. ASSUME NEW k \in DOMAIN u, j = Len(w) + k
        PROVE  v[i].at <= v[j].at
    <3>1. v[j] = u[k]
      BY <2>2, Joined
    <3>2. v[j].at = next
      BY <1>5, <3>1 DEF Is
    <3> QED BY <1>4, <1>5, <3>2
  <2>3. ASSUME NEW k \in DOMAIN u, i = Len(w) + k, j \in DOMAIN w
        PROVE  FALSE
    <3>1. j < i
      BY <2>3, Joined
    <3> QED BY <1>5, <2>3, <3>1, Elements, Joined
  <2> QED BY <2>1, <2>2, <2>3, Joined
<1> QED BY <1>1, <1>2, <1>4, <1>5 DEF Announced

\* Messages that are no edge and speak of all edges keep the numbering.
LEMMA NumberedMore ==
  ASSUME NEW w \in Seq(Message), NEW u \in Seq(Message), NEW sequence, NEW out, NEW at,
         Numbered(w, sequence, out, at), ~Asking(u),
         \A j \in DOMAIN u : /\ Is(u, j, "EmissionComplete") => u[j].id = out
                             /\ Is(u, j, "Fence") => u[j].through = out
  PROVE  Numbered(w \o u, sequence, out, at)
<1> DEFINE v == w \o u
<1>1. \A i \in DOMAIN v : Is(v, i, "EdgeRequest") => i \in DOMAIN w /\ Is(w, i, "EdgeRequest")
  BY Joined DEF Asking, Is
<1>2. \A i \in DOMAIN w : i \in DOMAIN v /\ v[i] = w[i]
  BY Joined
<1>3. Asking(v) <=> Asking(w)
  BY AskingMore
<1>4. sequence = IF Asking(v) THEN out - 1 ELSE out
  BY <1>3 DEF Numbered
<1>5. \A i \in DOMAIN v : Is(v, i, "EdgeRequest") =>
       /\ v[i].id = out /\ v[i].at = at
       /\ \A j \in DOMAIN v : Is(v, j, "EdgeRequest") => i = j
  BY <1>1, <1>2 DEF Numbered
<1>6. \A i \in DOMAIN w : Through(v, i, out) = Through(w, i, out)
  BY <1>1, <1>2 DEF Through, Is
<1>7. \A j \in DOMAIN u : Through(v, Len(w) + j, out) = out
  <2> SUFFICES ASSUME NEW j \in DOMAIN u PROVE ~\E k \in DOMAIN v : Len(w) + j < k /\ Is(v, k, "EdgeRequest")
    BY DEF Through
  <2>1. ASSUME NEW k \in DOMAIN v, Len(w) + j < k, Is(v, k, "EdgeRequest") PROVE FALSE
    <3>1. k \in DOMAIN w
      BY <1>1, <2>1
    <3>2. k < Len(w) + j /\ k \in Nat /\ Len(w) + j \in Nat
      BY <3>1, Joined, Elements
    <3> QED BY <2>1, <3>2
  <2> QED BY <2>1
<1>8. ASSUME NEW i \in DOMAIN v
      PROVE  /\ Is(v, i, "EmissionComplete") => v[i].id = Through(v, i, out)
             /\ Is(v, i, "Fence") => v[i].through = Through(v, i, out)
  <2>1. CASE i \in DOMAIN w
    BY <1>2, <1>6, <2>1 DEF Numbered, Is
  <2>2. ASSUME NEW j \in DOMAIN u, i = Len(w) + j
        PROVE  /\ Is(v, i, "EmissionComplete") => v[i].id = Through(v, i, out)
               /\ Is(v, i, "Fence") => v[i].through = Through(v, i, out)
    <3>1. v[i] = u[j] /\ Through(v, i, out) = out
      BY <1>7, <2>2, Joined
    <3> QED BY <3>1 DEF Is
  <2> QED BY <2>1, <2>2, Joined
<1> QED BY <1>4, <1>5, <1>8 DEF Numbered

\* The next edge, and what speaks of it, go out when none is on the way.
LEMMA NumberedNext ==
  ASSUME NEW w \in Seq(Message), NEW u \in Seq(Message), NEW sequence, NEW out \in Nat, NEW at, NEW due,
         Numbered(w, sequence, out, at), ~Asking(w),
         1 \in DOMAIN u, Is(u, 1, "EdgeRequest"), u[1].id = out + 1, u[1].at = due,
         \A j \in DOMAIN u : /\ Is(u, j, "EdgeRequest") => j = 1
                             /\ Is(u, j, "EmissionComplete") => u[j].id = out + 1
                             /\ ~Is(u, j, "Fence")
  PROVE  Numbered(w \o u, sequence, out + 1, due)
<1> DEFINE v == w \o u
<1>1. Len(w) + 1 \in DOMAIN v /\ v[Len(w) + 1] = u[1] /\ Is(v, Len(w) + 1, "EdgeRequest")
  BY Joined DEF Is
<1>2. \A i \in DOMAIN v : Is(v, i, "EdgeRequest") => i = Len(w) + 1
  BY SMTT(30), Joined DEF Asking, Is
<1>3. sequence = out /\ (out + 1) - 1 = out
  BY DEF Numbered
<1>4. sequence = IF Asking(v) THEN (out + 1) - 1 ELSE out + 1
  BY <1>1, <1>3 DEF Asking
<1>5. \A i \in DOMAIN v : Is(v, i, "EdgeRequest") =>
       /\ v[i].id = out + 1 /\ v[i].at = due
       /\ \A j \in DOMAIN v : Is(v, j, "EdgeRequest") => i = j
  BY <1>1, <1>2
<1>6. \A i \in DOMAIN w : Through(w, i, out) = out /\ Through(v, i, out + 1) = out
  <2> SUFFICES ASSUME NEW i \in DOMAIN w PROVE Through(w, i, out) = out /\ Through(v, i, out + 1) = out
    OBVIOUS
  <2>1. Through(w, i, out) = out
    BY DEF Through, Asking
  <2>2. i < Len(w) + 1
    BY Joined
  <2> QED BY <1>1, <1>3, <2>1, <2>2 DEF Through
<1>7. \A j \in DOMAIN u : Through(v, Len(w) + j, out + 1) = out + 1
  <2> SUFFICES ASSUME NEW j \in DOMAIN u
               PROVE ~\E k \in DOMAIN v : Len(w) + j < k /\ Is(v, k, "EdgeRequest")
    BY DEF Through
  <2>1. j \in Nat /\ j >= 1 /\ Len(w) \in Nat
    BY Elements
  <2>2. ASSUME NEW k \in DOMAIN v, Len(w) + j < k, Is(v, k, "EdgeRequest") PROVE FALSE
    BY <1>2, <2>1, <2>2
  <2> QED BY <2>2
<1>8. ASSUME NEW i \in DOMAIN v
      PROVE  /\ Is(v, i, "EmissionComplete") => v[i].id = Through(v, i, out + 1)
             /\ Is(v, i, "Fence") => v[i].through = Through(v, i, out + 1)
  <2>1. CASE i \in DOMAIN w
    <3>1. v[i] = w[i]
      BY <2>1, Joined
    <3> QED BY <1>6, <2>1, <3>1 DEF Numbered, Is
  <2>2. ASSUME NEW j \in DOMAIN u, i = Len(w) + j
        PROVE  /\ Is(v, i, "EmissionComplete") => v[i].id = Through(v, i, out + 1)
               /\ Is(v, i, "Fence") => v[i].through = Through(v, i, out + 1)
    <3>1. v[i] = u[j] /\ Through(v, i, out + 1) = out + 1
      BY <1>7, <2>2, Joined
    <3> QED BY <3>1 DEF Is
  <2> QED BY <2>1, <2>2, Joined
<1> QED BY <1>4, <1>5, <1>8 DEF Numbered

\* A side declares complete what it has reached, and an edge comes after all
\* that was declared before it.
LEMMA DeclaredMore ==
  ASSUME NEW w \in Seq(Message), NEW u \in Seq(Message), NEW mark \in Int, NEW last \in Int, NEW next \in Int,
         Declared(w, mark, last), last <= next,
         \A j \in DOMAIN u : /\ Is(u, j, "EmissionComplete") => u[j].at = next
                             /\ Is(u, j, "EdgeRequest") => j = 1 /\ last < u[j].at
  PROVE  Declared(w \o u, mark, next)
<1> DEFINE v == w \o u
<1>1. mark <= last /\ mark <= next
  BY DEF Declared
<1>2. ASSUME NEW m \in Message, m.type \in {"EmissionComplete", "EdgeRequest"} PROVE m.at \in Int
  BY <1>2, Fields
<1>3. \A i \in DOMAIN v : Is(v, i, "EmissionComplete") \/ Is(v, i, "EdgeRequest") => v[i].at \in Int
  BY <1>2, Joined, Elements DEF Is
<1>4. ASSUME NEW i \in DOMAIN w
      PROVE  /\ v[i] = w[i]
             /\ Is(v, i, "EmissionComplete") => mark <= v[i].at /\ v[i].at <= last /\ v[i].at <= next
             /\ Is(v, i, "EdgeRequest") => mark < v[i].at
  <2>1. i \in DOMAIN v /\ v[i] = w[i]
    BY Joined
  <2>2. /\ Is(v, i, "EmissionComplete") => mark <= v[i].at /\ v[i].at <= last
        /\ Is(v, i, "EdgeRequest") => mark < v[i].at
    BY <2>1 DEF Declared, Is
  <2> QED BY <1>3, <2>1, <2>2
<1>5. ASSUME NEW i \in DOMAIN v, NEW j \in DOMAIN u, i = Len(w) + j
      PROVE  /\ Is(v, i, "EmissionComplete") => mark <= v[i].at /\ v[i].at = next
             /\ Is(v, i, "EdgeRequest") => j = 1 /\ last < v[i].at /\ mark < v[i].at
  <2>1. v[i] = u[j]
    BY <1>5, Joined
  <2>2. /\ Is(v, i, "EmissionComplete") => v[i].at = next
        /\ Is(v, i, "EdgeRequest") => j = 1 /\ last < v[i].at
    BY <2>1 DEF Is
  <2> QED BY <1>1, <1>3, <2>2
<1>6. ASSUME NEW i \in DOMAIN v
      PROVE  /\ Is(v, i, "EmissionComplete") => mark <= v[i].at /\ v[i].at <= next
             /\ Is(v, i, "EdgeRequest") => mark < v[i].at
  <2>1. CASE i \in DOMAIN w
    BY <1>4, <2>1
  <2>2. CASE \E j \in DOMAIN u : i = Len(w) + j
    BY <1>5, <2>2
  <2> QED BY <2>1, <2>2, Joined
<1>7. ASSUME NEW i \in DOMAIN v, NEW j \in DOMAIN v, i < j, Is(v, i, "EmissionComplete")
      PROVE  /\ Is(v, j, "EmissionComplete") => v[i].at <= v[j].at
             /\ Is(v, j, "EdgeRequest") => v[i].at < v[j].at
  <2>1. CASE i \in DOMAIN w /\ j \in DOMAIN w
    <3>1. v[i] = w[i] /\ v[j] = w[j]
      BY <1>4, <2>1
    <3> QED BY <1>7, <2>1, <3>1 DEF Declared, Is
  <2>2. CASE i \in DOMAIN w /\ \E k \in DOMAIN u : j = Len(w) + k
    <3>1. PICK k \in DOMAIN u : j = Len(w) + k
      BY <2>2
    <3>2. v[i].at <= last /\ v[i].at <= next /\ v[i].at \in Int
      BY <1>3, <1>4, <1>7, <2>2
    <3>3. /\ Is(v, j, "EmissionComplete") => v[j].at = next
          /\ Is(v, j, "EdgeRequest") => last < v[j].at /\ v[j].at \in Int
      BY <1>3, <1>5, <3>1
    <3> HIDE DEF v
    <3> QED BY <3>2, <3>3
  <2>3. CASE \E k \in DOMAIN u : i = Len(w) + k
    <3>1. PICK k \in DOMAIN u : i = Len(w) + k
      BY <2>3
    <3>2. v[i].at = next
      BY <1>5, <1>7, <3>1
    <3>3. j \notin DOMAIN w
      <4>1. i \in Nat /\ j \in Nat
        BY Joined, Elements
      <4>2. j \in DOMAIN w => j < i
        BY <3>1, Joined
      <4> QED BY <1>7, <4>1, <4>2
    <3>4. PICK l \in DOMAIN u : j = Len(w) + l
      BY <3>3, Joined
    <3>5. k \in Nat /\ l \in Nat /\ k >= 1 /\ k < l
      BY <1>7, <3>1, <3>4, Elements
    <3>6. ~Is(v, j, "EdgeRequest")
      BY <1>5, <3>4, <3>5
    <3>7. Is(v, j, "EmissionComplete") => v[j].at = next
      BY <1>5, <3>4
    <3> QED BY <3>2, <3>6, <3>7
  <2>4. /\ i \in DOMAIN w \/ \E k \in DOMAIN u : i = Len(w) + k
        /\ j \in DOMAIN w \/ \E k \in DOMAIN u : j = Len(w) + k
    BY Joined
  <2> QED BY <2>1, <2>2, <2>3, <2>4
<1> QED BY <1>1, <1>6, <1>7 DEF Declared

\* Fences are sent one after the other, and none is taken back before it is
\* acknowledged.
LEMMA FencedMore ==
  ASSUME NEW w \in Seq(Message), NEW u \in Seq(Message), NEW seen \in Nat,
         NEW started \in Nat, NEW next \in Nat, NEW sent, NEW sents,
         Fenced(w, seen, started, sent),
         \A m \in Message : Sent(m) \in sent => Sent(m) \in sents,
         next = started \/ next = started + 1,
         next = started + 1 => \E j \in DOMAIN u : Is(u, j, "Fence"),
         next = started => \A j \in DOMAIN u : ~Is(u, j, "Fence"),
         \A j \in DOMAIN u : Is(u, j, "Fence") => u[j].id = next /\ Sent(u[j]) \in sents,
         \A i, j \in DOMAIN u : Is(u, i, "Fence") /\ Is(u, j, "Fence") => i = j
  PROVE  Fenced(w \o u, seen, next, sents)
<1> DEFINE v == w \o u
<1>1. seen <= started /\ started <= next /\ seen <= next
  BY DEF Fenced
<1>2. ASSUME NEW i \in DOMAIN w
      PROVE  /\ i \in DOMAIN v /\ v[i] = w[i]
             /\ Is(v, i, "Fence") => /\ v[i].id \in Nat /\ seen < v[i].id /\ v[i].id <= started
                                     /\ v[i].id <= next /\ Sent(v[i]) \in sents
  <2>1. i \in DOMAIN v /\ v[i] = w[i] /\ w[i] \in Message
    BY Joined, Elements
  <2>2. Is(w, i, "Fence") => /\ w[i].id \in Nat /\ seen < w[i].id /\ w[i].id <= started /\ Sent(w[i]) \in sent
    BY <2>1, Fields DEF Fenced, Is
  <2>3. \A a \in Nat : a <= started => a <= next
    BY <1>1
  <2> QED BY <2>1, <2>2, <2>3 DEF Is
<1>3. ASSUME NEW i \in DOMAIN v, NEW j \in DOMAIN u, i = Len(w) + j
      PROVE  /\ v[i] = u[j]
             /\ Is(v, i, "Fence") => /\ v[i].id = next /\ next = started + 1
                                     /\ seen < v[i].id /\ Sent(v[i]) \in sents
  <2>1. v[i] = u[j]
    BY <1>3, Joined
  <2>2. Is(v, i, "Fence") => v[i].id = next /\ next = started + 1 /\ Sent(v[i]) \in sents
    BY <2>1 DEF Is
  <2> QED BY <1>1, <2>1, <2>2
<1>4. ASSUME NEW i \in DOMAIN v
      PROVE  i \in DOMAIN w \/ \E j \in DOMAIN u : i = Len(w) + j
  BY Joined
<1>5. \A i \in DOMAIN v : Is(v, i, "Fence") => seen < v[i].id /\ v[i].id <= next /\ Sent(v[i]) \in sents
  BY <1>2, <1>3, <1>4
<1>6. ASSUME NEW n \in Nat, seen < n, n <= next
      PROVE  \E i \in DOMAIN v : Is(v, i, "Fence") /\ v[i].id = n
  <2>1. CASE n <= started
    <3>1. PICK i \in DOMAIN w : Is(w, i, "Fence") /\ w[i].id = n
      BY <1>6, <2>1 DEF Fenced
    <3> QED BY <1>2, <3>1 DEF Is
  <2>2. CASE ~(n <= started)
    <3>1. next = started + 1 /\ n = next
      BY <1>6, <2>2
    <3>2. PICK j \in DOMAIN u : Is(u, j, "Fence")
      BY <3>1
    <3>3. Len(w) + j \in DOMAIN v /\ v[Len(w) + j] = u[j] /\ u[j].id = n
      BY <3>1, <3>2, Joined
    <3> QED BY <3>2, <3>3 DEF Is
  <2> QED BY <2>1, <2>2
<1>7. ASSUME NEW i \in DOMAIN v, NEW j \in DOMAIN v, i < j, Is(v, i, "Fence"), Is(v, j, "Fence")
      PROVE  v[i].id < v[j].id
  <2>1. CASE i \in DOMAIN w /\ j \in DOMAIN w
    <3>1. v[i] = w[i] /\ v[j] = w[j]
      BY <1>2, <2>1
    <3> QED BY <1>7, <2>1, <3>1 DEF Fenced, Is
  <2>2. CASE i \in DOMAIN w /\ \E k \in DOMAIN u : j = Len(w) + k
    <3>1. v[i].id \in Nat /\ v[i].id <= started /\ v[j].id = started + 1
      BY <1>2, <1>3, <1>7, <2>2
    <3> HIDE DEF v
    <3> QED BY <3>1
  <2>3. CASE \E k \in DOMAIN u : i = Len(w) + k
    <3>1. PICK k \in DOMAIN u : i = Len(w) + k
      BY <2>3
    <3>2. j \notin DOMAIN w
      <4>1. i \in Nat /\ j \in Nat
        BY Joined, Elements
      <4>2. j \in DOMAIN w => j < i
        BY <3>1, Joined
      <4> QED BY <1>7, <4>1, <4>2
    <3>3. PICK l \in DOMAIN u : j = Len(w) + l
      BY <1>4, <3>2
    <3>4. Is(u, k, "Fence") /\ Is(u, l, "Fence")
      BY <1>3, <1>7, <3>1, <3>3 DEF Is
    <3>5. i = j
      BY <3>1, <3>3, <3>4
    <3>6. i \in Nat
      BY Joined, Elements
    <3> QED BY <1>7, <3>5, <3>6
  <2> QED BY <1>4, <2>1, <2>2, <2>3
<1> QED BY <1>1, <1>5, <1>6, <1>7 DEF Fenced

\* The fences that are owed first are acknowledged, the others stay owed.
LEMMA AckedMore ==
  ASSUME NEW w \in Seq(Message), NEW u \in Seq(Message), NEW seen \in Nat, NEW sent,
         NEW owed \in Seq([id : Nat, through : Nat]), NEW rest \in Seq([id : Nat, through : Nat]),
         NEW n \in Nat,
         Owed(owed, seen, sent), Acked(w, owed, seen, sent),
         \A j \in DOMAIN u : Is(u, j, "FenceAck") =>
            j <= n /\ j \in DOMAIN owed /\ u[j].id = owed[j].id /\ u[j].through = owed[j].through,
         \A k \in DOMAIN rest : n + k \in DOMAIN owed /\ rest[k] = owed[n + k]
  PROVE  Acked(w \o u, rest, seen, sent) /\ Owed(rest, seen, sent)
<1> DEFINE v == w \o u
<1>0. /\ \A k \in DOMAIN rest : k \in Nat /\ k >= 1
      /\ \A k \in DOMAIN owed : k \in Nat /\ owed[k] \in [id : Nat, through : Nat] /\ owed[k].id \in Nat
  <2>1. \A k \in DOMAIN rest : k \in Nat /\ k >= 1
    BY SMTT(30), LenProperties
  <2>2. DOMAIN owed = 1..Len(owed) /\ Len(owed) \in Nat
    BY LenProperties
  <2>3. \A k \in 1..Len(owed) : owed[k] \in [id : Nat, through : Nat]
    BY ElementOfSeq
  <2> QED BY <2>1, <2>2, <2>3
<1>1. Owed(rest, seen, sent)
  <2>1. \A k \in DOMAIN rest : rest[k].id <= seen /\ Sent(rest[k]) \in sent
    BY DEF Owed
  <2>2. ASSUME NEW k \in DOMAIN rest, NEW l \in DOMAIN rest, k < l PROVE rest[k].id < rest[l].id
    <3>1. n + k < n + l
      BY <1>0, <2>2
    <3> QED BY <3>1 DEF Owed
  <2> QED BY <2>1, <2>2 DEF Owed
<1>2. ASSUME NEW i \in DOMAIN w
      PROVE  /\ i \in DOMAIN v /\ v[i] = w[i]
             /\ Is(v, i, "FenceAck") =>
                  /\ Sent(v[i]) \in sent /\ v[i].id <= seen
                  /\ \A j \in DOMAIN owed : v[i].id < owed[j].id
  <2>1. i \in DOMAIN v /\ v[i] = w[i]
    BY Joined
  <2> QED BY <2>1 DEF Is, Acked
<1>3. ASSUME NEW i \in DOMAIN v, NEW j \in DOMAIN u, i = Len(w) + j, Is(v, i, "FenceAck")
      PROVE  /\ v[i] = u[j] /\ j \in DOMAIN owed /\ j <= n /\ v[i].id = owed[j].id
             /\ Sent(v[i]) \in sent /\ v[i].id <= seen
             /\ \A k \in DOMAIN rest : v[i].id < rest[k].id
  <2>1. v[i] = u[j]
    BY <1>3, Joined
  <2>2. /\ j \in DOMAIN owed /\ j <= n /\ v[i].id = owed[j].id /\ v[i].through = owed[j].through
    BY <1>3, <2>1 DEF Is
  <2>3. Sent(v[i]) \in sent /\ v[i].id <= seen
    BY <2>2 DEF Owed, Sent
  <2>4. ASSUME NEW k \in DOMAIN rest PROVE v[i].id < rest[k].id
    <3>1. j < n + k
      BY SMTT(30), <1>0, <2>2
    <3> QED BY <2>2, <3>1 DEF Owed
  <2> QED BY <2>1, <2>2, <2>3, <2>4
<1>4. ASSUME NEW i \in DOMAIN v
      PROVE  i \in DOMAIN w \/ \E j \in DOMAIN u : i = Len(w) + j
  BY Joined
<1>5. \A i \in DOMAIN v : Is(v, i, "FenceAck") =>
       /\ Sent(v[i]) \in sent /\ v[i].id <= seen
       /\ \A j \in DOMAIN rest : v[i].id < rest[j].id
  BY <1>2, <1>3, <1>4
<1>6. ASSUME NEW i \in DOMAIN v, NEW j \in DOMAIN v, i < j, Is(v, i, "FenceAck"), Is(v, j, "FenceAck")
      PROVE  v[i].id < v[j].id
  <2>1. CASE i \in DOMAIN w /\ j \in DOMAIN w
    <3>1. v[i] = w[i] /\ v[j] = w[j]
      BY <1>2, <2>1
    <3> QED BY <1>6, <2>1, <3>1 DEF Acked, Is
  <2>2. CASE i \in DOMAIN w /\ \E k \in DOMAIN u : j = Len(w) + k
    <3>1. PICK k \in DOMAIN u : j = Len(w) + k
      BY <2>2
    <3>2. k \in DOMAIN owed /\ v[j].id = owed[k].id
      BY <1>3, <1>6, <3>1
    <3> QED BY <1>2, <1>6, <2>2, <3>2
  <2>3. CASE \E k \in DOMAIN u : i = Len(w) + k
    <3>1. PICK k \in DOMAIN u : i = Len(w) + k
      BY <2>3
    <3>2. j \notin DOMAIN w
      <4>1. i \in Nat /\ j \in Nat
        BY Joined, Elements
      <4>2. j \in DOMAIN w => j < i
        BY <3>1, Joined
      <4> QED BY <1>6, <4>1, <4>2
    <3>3. PICK l \in DOMAIN u : j = Len(w) + l
      BY <1>4, <3>2
    <3>4. k < l
      BY <1>6, <3>1, <3>3, Joined
    <3>5. k \in DOMAIN owed /\ l \in DOMAIN owed /\ v[i].id = owed[k].id /\ v[j].id = owed[l].id
      BY <1>3, <1>6, <3>1, <3>3
    <3> QED BY <3>4, <3>5 DEF Owed
  <2> QED BY <1>4, <2>1, <2>2, <2>3
<1> QED BY <1>1, <1>5, <1>6 DEF Acked

-----------------------------------------------------------------------------
(* What a side takes is removed from what is on the way *)

\* What is left of a stream without one of its messages.
LEMMA Left ==
  ASSUME NEW v, NEW w, NEW d, Thinned(v, w, d)
  PROVE  /\ v \in Seq(Message) /\ w \in Seq(Message) /\ d \in DOMAIN w /\ w[d] \in Message
         /\ DOMAIN v \subseteq Nat /\ DOMAIN w \subseteq Nat
         /\ \A i \in DOMAIN v : v[i] \in Message
         /\ \A i \in DOMAIN w : w[i] \in Message
         /\ d = 1 => \A k \in DOMAIN w : k # d => d < k
BY Elements DEF Thinned

\* The places of the messages that are left, in the stream they are left of.
LEMMA Places ==
  ASSUME NEW v, NEW w, NEW d, Thinned(v, w, d)
  PROVE  \E g \in [DOMAIN v -> DOMAIN w] :
           /\ \A i \in DOMAIN v : v[i] = w[g[i]] /\ g[i] \in DOMAIN w /\ g[i] # d
           /\ \A i, j \in DOMAIN v : /\ i < j => g[i] < g[j]
                                     /\ g[i] < g[j] => i < j
                                     /\ g[i] = g[j] => i = j
           /\ \A k \in DOMAIN w : k = d \/ \E i \in DOMAIN v : g[i] = k
<1>1. PICK g \in [DOMAIN v -> DOMAIN w \ {d}] :
       /\ \A i \in DOMAIN v : v[i] = w[g[i]]
       /\ \A i, j \in DOMAIN v : i < j => g[i] < g[j]
       /\ \A i, j \in DOMAIN v : g[i] < g[j] => i < j
       /\ \A i, j \in DOMAIN v : g[i] = g[j] => i = j
       /\ \A k \in DOMAIN w : k = d \/ \E i \in DOMAIN v : g[i] = k
  BY DEF Thinned
<1>2. g \in [DOMAIN v -> DOMAIN w] /\ \A i \in DOMAIN v : g[i] \in DOMAIN w /\ g[i] # d
  OBVIOUS
<1> QED BY <1>1, <1>2

\* The announcements that are left are still in order, if none is dropped that
\* counts; the first to be consumed is the one the receiver expects.
LEMMA AnnouncedLess ==
  ASSUME NEW v, NEW w, NEW d, Thinned(v, w, d), NEW progress \in Nat, NEW peer \in Nat,
         NEW last \in Nat, Announced(w, progress, peer, last)
  PROVE  /\ w[d].type # "Progress" => Announced(v, progress, peer, last)
         /\ d = 1 /\ w[1].type = "Progress" =>
              /\ progress = 0 => w[1].at = 0
              /\ peer <= w[1].at /\ w[1].at \in Nat
              /\ Announced(v, progress + 1, w[1].at, last)
<1>1. PICK g \in [DOMAIN v -> DOMAIN w] :
           /\ \A i \in DOMAIN v : v[i] = w[g[i]] /\ g[i] \in DOMAIN w /\ g[i] # d
           /\ \A i, j \in DOMAIN v : /\ i < j => g[i] < g[j]
                                     /\ g[i] < g[j] => i < j
                                     /\ g[i] = g[j] => i = j
           /\ \A k \in DOMAIN w : k = d \/ \E i \in DOMAIN v : g[i] = k
  BY Places
<1>2. \A i \in DOMAIN v : Is(v, i, "Progress") <=> Is(w, g[i], "Progress")
  BY <1>1 DEF Is
<1>3. \A i, j \in DOMAIN v :
       i < j /\ Is(v, i, "Progress") /\ Is(v, j, "Progress") => v[i].at <= v[j].at
  BY <1>1, <1>2 DEF Announced
<1>4. \A i \in DOMAIN v : Is(v, i, "Progress") => peer <= v[i].at /\ v[i].at <= last
  BY <1>1, <1>2 DEF Announced
<1>5. ASSUME w[d].type # "Progress" PROVE Announced(v, progress, peer, last)
  <2>1. peer <= last
    BY DEF Announced
  <2>2. ASSUME progress = 0 PROVE v # <<>> /\ v[1] = Progress(0) /\ peer = 0
    <3>1. w[1] = Progress(0) /\ peer = 0
      BY <2>2 DEF Announced
    <3>2. d # 1
      BY <1>5, <3>1, Messages
    <3>3. v # <<>> /\ v[1] = w[1]
      BY <3>2 DEF Thinned
    <3> QED BY <3>1, <3>3
  <2> QED BY <1>3, <1>4, <2>1, <2>2 DEF Announced
<1>6. ASSUME d = 1, w[1].type = "Progress"
      PROVE  /\ progress = 0 => w[1].at = 0
             /\ peer <= w[1].at /\ w[1].at \in Nat
             /\ Announced(v, progress + 1, w[1].at, last)
  <2>1. 1 \in DOMAIN w /\ w[1].at \in Nat /\ Is(w, 1, "Progress")
    BY <1>6, Left, Fields DEF Is
  <2>2. peer <= w[1].at /\ w[1].at <= last
    BY <2>1 DEF Announced
  <2>3. progress = 0 => w[1].at = 0
    BY Messages DEF Announced
  <2>4. \A i \in DOMAIN v : Is(v, i, "Progress") => w[1].at <= v[i].at
    <3>1. \A i \in DOMAIN v : 1 < g[i]
      BY <1>1, <1>6, Left
    <3> QED BY <1>1, <1>2, <2>1, <3>1 DEF Announced
  <2>5. progress + 1 # 0
    OBVIOUS
  <2> QED BY <1>3, <1>4, <2>1, <2>2, <2>3, <2>4, <2>5 DEF Announced
<1> QED BY <1>5, <1>6

\* The numbers that are left are still right, if the edge is not dropped; an
\* edge that is consumed is the next one, and was sent with the last number.
LEMMA NumberedLess ==
  ASSUME NEW v, NEW w, NEW d, Thinned(v, w, d), NEW sequence, NEW out \in Nat,
         NEW at, Numbered(w, sequence, out, at)
  PROVE  /\ w[d].type # "EdgeRequest" => Numbered(v, sequence, out, at) /\ (Asking(v) <=> Asking(w))
         /\ d = 1 /\ w[1].type = "EdgeRequest" =>
              /\ Asking(w) /\ ~Asking(v)
              /\ w[1].id = out /\ sequence = out - 1 /\ w[1].at = at
              /\ Numbered(v, out, out, at)
         /\ d = 1 /\ w[1].type = "EmissionComplete" => w[1].id = sequence
         /\ d = 1 /\ w[1].type = "Fence" => w[1].through = sequence
<1>1. PICK g \in [DOMAIN v -> DOMAIN w] :
           /\ \A i \in DOMAIN v : v[i] = w[g[i]] /\ g[i] \in DOMAIN w /\ g[i] # d
           /\ \A i, j \in DOMAIN v : /\ i < j => g[i] < g[j]
                                     /\ g[i] < g[j] => i < j
                                     /\ g[i] = g[j] => i = j
           /\ \A k \in DOMAIN w : k = d \/ \E i \in DOMAIN v : g[i] = k
  BY Places
<1>2. \A type : \A i \in DOMAIN v : Is(v, i, type) <=> Is(w, g[i], type)
  BY <1>1 DEF Is
<1>3. 1 \in DOMAIN w => \A k \in DOMAIN w : k # 1 => 1 < k
  BY Left, Elements
<1>4. ASSUME w[d].type # "EdgeRequest"
      PROVE  Numbered(v, sequence, out, at) /\ (Asking(v) <=> Asking(w))
  <2>1. Asking(v) <=> Asking(w)
    <3>1. ASSUME Asking(v) PROVE Asking(w)
      BY <1>1, <1>2, <3>1 DEF Asking
    <3>2. ASSUME NEW k \in DOMAIN w, Is(w, k, "EdgeRequest") PROVE Asking(v)
      <4>1. k # d
        BY <1>4, <3>2 DEF Is
      <4>2. PICK i \in DOMAIN v : g[i] = k
        BY <1>1, <4>1
      <4> QED BY <1>2, <3>2, <4>2 DEF Asking
    <3> QED BY <3>1, <3>2 DEF Asking
  <2>2. ASSUME NEW i \in DOMAIN v PROVE Through(v, i, out) = Through(w, g[i], out)
    <3>1. ASSUME NEW j \in DOMAIN v, i < j, Is(v, j, "EdgeRequest")
          PROVE  g[j] \in DOMAIN w /\ g[i] < g[j] /\ Is(w, g[j], "EdgeRequest")
      BY <1>1, <1>2, <3>1
    <3>2. ASSUME NEW k \in DOMAIN w, g[i] < k, Is(w, k, "EdgeRequest")
          PROVE  \E j \in DOMAIN v : i < j /\ Is(v, j, "EdgeRequest")
      <4>1. k # d
        BY <1>4, <3>2 DEF Is
      <4>2. PICK j \in DOMAIN v : g[j] = k
        BY <1>1, <4>1
      <4>3. i < j /\ Is(v, j, "EdgeRequest")
        BY <1>1, <1>2, <3>2, <4>2
      <4> QED BY <4>3
    <3> QED BY <3>1, <3>2 DEF Through
  <2>3. \A i \in DOMAIN v : Is(v, i, "EdgeRequest") =>
          /\ v[i].id = out /\ v[i].at = at
          /\ \A j \in DOMAIN v : Is(v, j, "EdgeRequest") => i = j
    BY <1>1, <1>2 DEF Numbered
  <2>4. \A i \in DOMAIN v : /\ Is(v, i, "EmissionComplete") => v[i].id = Through(v, i, out)
                            /\ Is(v, i, "Fence") => v[i].through = Through(v, i, out)
    BY <1>1, <1>2, <2>2 DEF Numbered
  <2>5. sequence = IF Asking(v) THEN out - 1 ELSE out
    BY <2>1 DEF Numbered
  <2> QED BY <2>1, <2>3, <2>4, <2>5 DEF Numbered
<1>5. ASSUME d = 1, w[1].type = "EdgeRequest"
      PROVE  /\ Asking(w) /\ ~Asking(v)
             /\ w[1].id = out /\ sequence = out - 1 /\ w[1].at = at
             /\ Numbered(v, out, out, at)
  <2>1. 1 \in DOMAIN w /\ Is(w, 1, "EdgeRequest") /\ Asking(w)
    BY <1>5, Left DEF Is, Asking
  <2>2. w[1].id = out /\ sequence = out - 1 /\ w[1].at = at
    BY <2>1 DEF Numbered
  <2>3. \A i \in DOMAIN v : ~Is(v, i, "EdgeRequest")
    <3> SUFFICES ASSUME NEW i \in DOMAIN v, Is(v, i, "EdgeRequest") PROVE FALSE
      OBVIOUS
    <3>1. g[i] \in DOMAIN w /\ g[i] # 1 /\ Is(w, g[i], "EdgeRequest")
      BY <1>1, <1>2, <1>5
    <3> QED BY <2>1, <3>1 DEF Numbered
  <2>4. \A i \in DOMAIN v : Through(v, i, out) = out
    BY <2>3 DEF Through
  <2>5. ASSUME NEW i \in DOMAIN v PROVE Through(w, g[i], out) = out
    <3>1. ASSUME NEW k \in DOMAIN w, g[i] < k, Is(w, k, "EdgeRequest") PROVE FALSE
      <4>1. k = 1
        BY <2>1, <3>1 DEF Numbered
      <4>2. 1 < g[i] /\ g[i] \in Nat
        BY <1>1, <1>3, <1>5, <2>1, Left
      <4> QED BY <3>1, <4>1, <4>2
    <3> QED BY <3>1 DEF Through
  <2>6. \A i \in DOMAIN v : /\ Is(v, i, "EmissionComplete") => v[i].id = Through(v, i, out)
                            /\ Is(v, i, "Fence") => v[i].through = Through(v, i, out)
    BY <1>1, <1>2, <2>4, <2>5 DEF Numbered
  <2>7. ~Asking(v)
    BY <2>3 DEF Asking
  <2> QED BY <2>1, <2>2, <2>3, <2>6, <2>7 DEF Numbered
<1>6. ASSUME d = 1, w[1].type \in {"EmissionComplete", "Fence"}
      PROVE  Through(w, 1, out) = sequence
  <2>1. 1 \in DOMAIN w /\ ~Is(w, 1, "EdgeRequest")
    BY <1>6, Left DEF Is
  <2>2. Asking(w) <=> \E j \in DOMAIN w : 1 < j /\ Is(w, j, "EdgeRequest")
    BY <1>3, <2>1 DEF Asking
  <2> QED BY <2>2 DEF Through, Numbered
<1>7. ASSUME d = 1
      PROVE  /\ w[1].type = "EmissionComplete" => w[1].id = sequence
             /\ w[1].type = "Fence" => w[1].through = sequence
  BY <1>6, <1>7, Left DEF Numbered, Is
<1> QED BY <1>4, <1>5, <1>7

\* No edge that is left falls into what was declared complete, before or by
\* what is consumed.
LEMMA DeclaredLess ==
  ASSUME NEW v, NEW w, NEW d, Thinned(v, w, d), NEW mark \in Int, NEW last \in Int,
         Declared(w, mark, last)
  PROVE  /\ Declared(v, mark, last)
         /\ d = 1 /\ w[1].type = "EmissionComplete" =>
              mark <= w[1].at /\ w[1].at \in Nat /\ w[1].at <= last /\ Declared(v, w[1].at, last)
         /\ d = 1 /\ w[1].type = "EdgeRequest" => mark < w[1].at /\ w[1].at \in Nat
<1>1. PICK g \in [DOMAIN v -> DOMAIN w] :
           /\ \A i \in DOMAIN v : v[i] = w[g[i]] /\ g[i] \in DOMAIN w /\ g[i] # d
           /\ \A i, j \in DOMAIN v : /\ i < j => g[i] < g[j]
                                     /\ g[i] < g[j] => i < j
                                     /\ g[i] = g[j] => i = j
           /\ \A k \in DOMAIN w : k = d \/ \E i \in DOMAIN v : g[i] = k
  BY Places
<1>2. \A type : \A i \in DOMAIN v : Is(v, i, type) <=> Is(w, g[i], type)
  BY <1>1 DEF Is
<1>3. \A i, j \in DOMAIN v : i < j /\ Is(v, i, "EmissionComplete") =>
       /\ Is(v, j, "EmissionComplete") => v[i].at <= v[j].at
       /\ Is(v, j, "EdgeRequest") => v[i].at < v[j].at
  BY <1>1, <1>2 DEF Declared
<1>4. Declared(v, mark, last)
  <2>1. mark <= last
    BY DEF Declared
  <2>2. \A i \in DOMAIN v : /\ Is(v, i, "EmissionComplete") => mark <= v[i].at /\ v[i].at <= last
                            /\ Is(v, i, "EdgeRequest") => mark < v[i].at
    BY <1>1, <1>2 DEF Declared
  <2> QED BY <1>3, <2>1, <2>2 DEF Declared
<1>5. ASSUME d = 1, w[1].type = "EmissionComplete"
      PROVE  mark <= w[1].at /\ w[1].at \in Nat /\ w[1].at <= last /\ Declared(v, w[1].at, last)
  <2>1. 1 \in DOMAIN w /\ Is(w, 1, "EmissionComplete") /\ w[1].at \in Nat
    BY <1>5, Left, Fields DEF Is
  <2>2. mark <= w[1].at /\ w[1].at <= last
    BY <2>1 DEF Declared
  <2>3. \A i \in DOMAIN v : 1 < g[i]
    BY <1>1, <1>5, Left
  <2>4. \A i \in DOMAIN v : /\ Is(v, i, "EmissionComplete") => w[1].at <= v[i].at /\ v[i].at <= last
                            /\ Is(v, i, "EdgeRequest") => w[1].at < v[i].at
    BY <1>1, <1>2, <2>1, <2>3 DEF Declared
  <2> QED BY <1>3, <2>1, <2>2, <2>4 DEF Declared
<1>6. ASSUME d = 1, w[1].type = "EdgeRequest"
      PROVE  mark < w[1].at /\ w[1].at \in Nat
  BY <1>6, Left, Fields DEF Declared, Is
<1> QED BY <1>4, <1>5, <1>6

\* The fences that are left are still all that is between the one that was
\* seen last and the one that was started last.
LEMMA FencedLess ==
  ASSUME NEW v, NEW w, NEW d, Thinned(v, w, d), NEW seen \in Nat, NEW started \in Nat,
         NEW sent, Fenced(w, seen, started, sent)
  PROVE  /\ w[d].type # "Fence" => Fenced(v, seen, started, sent)
         /\ d = 1 /\ w[1].type = "Fence" =>
              w[1].id = seen + 1 /\ Sent(w[1]) \in sent /\ Fenced(v, seen + 1, started, sent)
<1>1. PICK g \in [DOMAIN v -> DOMAIN w] :
           /\ \A i \in DOMAIN v : v[i] = w[g[i]] /\ g[i] \in DOMAIN w /\ g[i] # d
           /\ \A i, j \in DOMAIN v : /\ i < j => g[i] < g[j]
                                     /\ g[i] < g[j] => i < j
                                     /\ g[i] = g[j] => i = j
           /\ \A k \in DOMAIN w : k = d \/ \E i \in DOMAIN v : g[i] = k
  BY Places
<1>2. \A type : \A i \in DOMAIN v : Is(v, i, type) <=> Is(w, g[i], type)
  BY <1>1 DEF Is
<1>3. \A i, j \in DOMAIN v : i < j /\ Is(v, i, "Fence") /\ Is(v, j, "Fence") => v[i].id < v[j].id
  BY <1>1, <1>2 DEF Fenced
<1>4. \A i \in DOMAIN v : Is(v, i, "Fence") =>
        /\ seen < v[i].id /\ v[i].id <= started /\ Sent(v[i]) \in sent /\ v[i].id \in Nat
  <2>1. \A i \in DOMAIN v : Is(v, i, "Fence") => v[i].id \in Nat
    BY Left, Fields DEF Is
  <2> QED BY <1>1, <1>2, <2>1 DEF Fenced
<1>5. seen <= started
  BY DEF Fenced
<1>6. ASSUME w[d].type # "Fence" PROVE Fenced(v, seen, started, sent)
  <2>1. ASSUME NEW n \in Nat, seen < n /\ n <= started
        PROVE  \E i \in DOMAIN v : Is(v, i, "Fence") /\ v[i].id = n
    <3>1. PICK k \in DOMAIN w : Is(w, k, "Fence") /\ w[k].id = n
      BY <2>1 DEF Fenced
    <3>2. k # d
      BY <1>6, <3>1 DEF Is
    <3>3. PICK i \in DOMAIN v : g[i] = k
      BY <1>1, <3>2
    <3> QED BY <1>1, <1>2, <3>1, <3>3
  <2> QED BY <1>3, <1>4, <1>5, <2>1 DEF Fenced
<1>7. ASSUME d = 1, w[1].type = "Fence"
      PROVE  w[1].id = seen + 1 /\ Sent(w[1]) \in sent /\ Fenced(v, seen + 1, started, sent)
  <2>1. 1 \in DOMAIN w /\ Is(w, 1, "Fence") /\ w[1].id \in Nat
    BY <1>7, Left, Fields DEF Is
  <2>2. seen < w[1].id /\ w[1].id <= started /\ Sent(w[1]) \in sent
    BY <2>1 DEF Fenced
  <2>3. \A k \in DOMAIN w : k # 1 /\ Is(w, k, "Fence") => w[1].id < w[k].id
    BY <1>7, <2>1, Left DEF Fenced
  <2>4. w[1].id = seen + 1
    <3>1. CASE seen + 1 <= started
      <4>1. PICK k \in DOMAIN w : Is(w, k, "Fence") /\ w[k].id = seen + 1
        BY <3>1 DEF Fenced
      <4>2. CASE k = 1
        BY <4>1, <4>2
      <4>3. CASE k # 1
        BY <2>1, <2>2, <2>3, <4>1, <4>3
      <4> QED BY <4>2, <4>3
    <3>2. CASE ~(seen + 1 <= started)
      BY <2>1, <2>2, <3>2
    <3> QED BY <3>1, <3>2
  <2>5. \A i \in DOMAIN v : Is(v, i, "Fence") => seen + 1 < v[i].id
    BY <1>1, <1>2, <1>7, <2>3, <2>4
  <2>6. ASSUME NEW n \in Nat, seen + 1 < n /\ n <= started
        PROVE  \E i \in DOMAIN v : Is(v, i, "Fence") /\ v[i].id = n
    <3>1. seen < n
      BY <2>6
    <3>2. PICK k \in DOMAIN w : Is(w, k, "Fence") /\ w[k].id = n
      BY <2>6, <3>1 DEF Fenced
    <3>3. k # 1
      BY <2>4, <2>6, <3>2
    <3>4. PICK i \in DOMAIN v : g[i] = k
      BY <1>1, <1>7, <3>3
    <3> QED BY <1>1, <1>2, <3>2, <3>4
  <2>7. seen + 1 <= started
    BY <2>2, <2>4
  <2> QED BY <1>3, <1>4, <2>2, <2>4, <2>5, <2>6, <2>7 DEF Fenced
<1> QED BY <1>6, <1>7

\* The acknowledgements that are left are still for fences that were sent; the
\* one that is consumed is for the first of them.
LEMMA AckedLess ==
  ASSUME NEW v, NEW w, NEW d, Thinned(v, w, d), NEW seen \in Nat,
         NEW owed \in Seq([id : Nat, through : Nat]), NEW sent, Acked(w, owed, seen, sent)
  PROVE  /\ Acked(v, owed, seen, sent)
         /\ d = 1 /\ w[1].type = "FenceAck" =>
              /\ Sent(w[1]) \in sent /\ w[1].id \in Nat
              /\ \A i \in DOMAIN v : Is(v, i, "FenceAck") => v[i].id # w[1].id
              /\ \A j \in DOMAIN owed : owed[j].id # w[1].id
<1>1. PICK g \in [DOMAIN v -> DOMAIN w] :
           /\ \A i \in DOMAIN v : v[i] = w[g[i]] /\ g[i] \in DOMAIN w /\ g[i] # d
           /\ \A i, j \in DOMAIN v : /\ i < j => g[i] < g[j]
                                     /\ g[i] < g[j] => i < j
                                     /\ g[i] = g[j] => i = j
           /\ \A k \in DOMAIN w : k = d \/ \E i \in DOMAIN v : g[i] = k
  BY Places
<1>2. \A type : \A i \in DOMAIN v : Is(v, i, type) <=> Is(w, g[i], type)
  BY <1>1 DEF Is
<1>3. Acked(v, owed, seen, sent)
  <2>1. \A i \in DOMAIN v : Is(v, i, "FenceAck") =>
          /\ Sent(v[i]) \in sent /\ v[i].id <= seen
          /\ \A j \in DOMAIN owed : v[i].id < owed[j].id
    BY <1>1, <1>2 DEF Acked
  <2>2. \A i, j \in DOMAIN v :
       i < j /\ Is(v, i, "FenceAck") /\ Is(v, j, "FenceAck") => v[i].id < v[j].id
    BY <1>1, <1>2 DEF Acked
  <2> QED BY <2>1, <2>2 DEF Acked
<1>4. ASSUME d = 1, w[1].type = "FenceAck"
      PROVE  /\ Sent(w[1]) \in sent /\ w[1].id \in Nat
             /\ \A i \in DOMAIN v : Is(v, i, "FenceAck") => v[i].id # w[1].id
             /\ \A j \in DOMAIN owed : owed[j].id # w[1].id
  <2>1. 1 \in DOMAIN w /\ Is(w, 1, "FenceAck") /\ w[1].id \in Nat
    BY <1>4, Left, Fields DEF Is
  <2>2. ASSUME NEW i \in DOMAIN v, Is(v, i, "FenceAck") PROVE v[i].id # w[1].id
    <3>1. 1 < g[i] /\ Is(w, g[i], "FenceAck") /\ v[i] = w[g[i]]
      BY <1>1, <1>2, <1>4, <2>2, Left
    <3>2. w[1].id < v[i].id
      BY <1>1, <2>1, <3>1 DEF Acked
    <3>3. v[i].id \in Nat
      BY <2>2, Left, Fields DEF Is
    <3> QED BY <2>1, <3>2, <3>3
  <2>3. \A j \in DOMAIN owed : owed[j].id # w[1].id
    BY <2>1 DEF Acked
  <2> QED BY <2>1, <2>2, <2>3 DEF Acked
<1> QED BY <1>3, <1>4

-----------------------------------------------------------------------------
(* What the invariant says of each side, and what it takes to keep it *)

\* The parts of the state of one side.
LEMMA Typed ==
  ASSUME Shape, NEW s \in Sides
  PROVE  /\ pc[s] \in Positions /\ mode[s] \in {"none", "before", "wait", "end", "fence"}
         /\ co[s] \in Coordinator /\ serial[s] \in SerialCore /\ link[s] \in Bookkeeping
         /\ fences[s] \in Fencing /\ open[s] \in BOOLEAN /\ wire[s] \in Seq(Message)
         /\ fault[s] \in Fault
         /\ link[s].ingress \in Seq(Message) /\ wire[Other(s)] \in Seq(Message)
         /\ Stream(s) \in Seq(Message)
<1>1. /\ pc[s] \in Positions /\ mode[s] \in {"none", "before", "wait", "end", "fence"}
      /\ co[s] \in Coordinator /\ serial[s] \in SerialCore /\ link[s] \in Bookkeeping
      /\ fences[s] \in Fencing /\ open[s] \in BOOLEAN /\ wire[s] \in Seq(Message)
      /\ fault[s] \in Fault
  BY DEF Shape
<1>2. link[s].ingress \in Seq(Message)
  BY <1>1 DEF Bookkeeping
<1>3. wire[Other(s)] \in Seq(Message)
  BY Peers DEF Shape
<1>4. Stream(s) \in Seq(Message)
  BY <1>2, <1>3, Joined DEF Stream
<1> QED BY <1>1, <1>2, <1>3, <1>4

\* The numbers of one side.
LEMMA Numbers ==
  ASSUME Shape, NEW s \in Sides
  PROVE  /\ co[s].local \in Nat /\ co[s].peer \in Nat /\ co[s].progress \in Nat
         /\ co[s].permit \in {0, Need} /\ co[s].permit \in Nat /\ co[s].episodeEnd \in Int
         /\ co[s].instructions \in Nat /\ co[s].edgeSequence \in Nat /\ co[s].mark \in Int
         /\ co[s].mark \in Nat \cup {-1} /\ co[s].ended \in Ending /\ co[s].episodeOpen \in BOOLEAN
         /\ co[s].edges \subseteq Edge /\ co[s].held \subseteq Edge /\ link[s].delivery \subseteq Edge
         /\ serial[s].bits \in 0..ByteBits /\ serial[s].target \in Nat /\ serial[s].now \in Nat
         /\ serial[s].enabled \in BOOLEAN /\ serial[s].internal \in BOOLEAN
         /\ link[s].out \in Nat /\ link[s].waiting \in Nat /\ link[s].scheduled \in Nat
         /\ link[s].settled \in Nat /\ link[s].sentProgress \in Nat /\ link[s].sentMark \in Int
         /\ link[s].sentMark \in Nat \cup {-1} /\ link[s].completed \subseteq Nat
         /\ fences[s].started \in Nat /\ fences[s].seen \in Nat /\ fences[s].sent \subseteq FenceSent
         /\ fences[s].owed \in Seq([id : Nat, through : Nat])
<1>1. co[s] \in Coordinator /\ serial[s] \in SerialCore /\ link[s] \in Bookkeeping /\ fences[s] \in Fencing
  BY Typed
<1>2. Need \in Nat
  BY Constants
<1>3. /\ co[s].local \in Nat /\ co[s].peer \in Nat /\ co[s].progress \in Nat
      /\ co[s].permit \in {0, Need} /\ co[s].permit \in Nat /\ co[s].episodeEnd \in Int
      /\ co[s].instructions \in Nat /\ co[s].edgeSequence \in Nat /\ co[s].mark \in Int
      /\ co[s].mark \in Nat \cup {-1} /\ co[s].ended \in Ending /\ co[s].episodeOpen \in BOOLEAN
      /\ co[s].edges \subseteq Edge /\ co[s].held \subseteq Edge
  BY <1>1, <1>2 DEF Coordinator
<1>4. /\ serial[s].bits \in 0..ByteBits /\ serial[s].target \in Nat /\ serial[s].now \in Nat
      /\ serial[s].enabled \in BOOLEAN /\ serial[s].internal \in BOOLEAN
  BY <1>1 DEF SerialCore
<1>5. /\ link[s].out \in Nat /\ link[s].waiting \in Nat /\ link[s].scheduled \in Nat
      /\ link[s].settled \in Nat /\ link[s].sentProgress \in Nat /\ link[s].sentMark \in Int
      /\ link[s].sentMark \in Nat \cup {-1} /\ link[s].completed \subseteq Nat
      /\ link[s].delivery \subseteq Edge
  BY <1>1 DEF Bookkeeping
<1>6. /\ fences[s].started \in Nat /\ fences[s].seen \in Nat /\ fences[s].sent \subseteq FenceSent
      /\ fences[s].owed \in Seq([id : Nat, through : Nat])
  BY <1>1 DEF Fencing
<1> QED BY <1>3, <1>4, <1>5, <1>6

\* The invariant, side by side.
LEMMA Sidewise ==
  ASSUME IInv, NEW s \in Sides
  PROVE  /\ Shape /\ Own(s) /\ Received(s) /\ Placed(s)
         /\ Position(s) /\ Core(s) /\ Bounded(s) /\ Outstanding(fences[s].sent, fences[s].started)
         /\ Own(Other(s)) /\ Received(Other(s)) /\ Placed(Other(s))
         /\ Position(Other(s)) /\ Core(Other(s)) /\ Bounded(Other(s))
         /\ Outstanding(fences[Other(s)].sent, fences[Other(s)].started)
<1>1. Other(s) \in Sides
  BY Peers
<1>2. Shape /\ Own(s) /\ Received(s) /\ Placed(s) /\ Own(Other(s)) /\ Received(Other(s)) /\ Placed(Other(s))
  BY <1>1 DEF IInv
<1> QED BY <1>2 DEF Own

\* It is kept if it is kept on both sides.
LEMMA BothSides ==
  ASSUME NEW s \in Sides, Shape', Own(s)', Own(Other(s))', Received(s)', Received(Other(s))',
         Placed(s)', Placed(Other(s))'
  PROVE  IInv'
<1>1. \A t \in Sides : t = s \/ t = Other(s)
  BY Peers
<1>2. ASSUME NEW t \in Sides PROVE (Own(t) /\ Received(t) /\ Placed(t))'
  <2>1. CASE t = s
    BY <2>1
  <2>2. CASE t = Other(s)
    BY <2>2
  <2> QED BY <1>1, <2>1, <2>2
<1> QED BY <1>2 DEF IInv

\* A side whose own state does not change.
LEMMA OwnSame ==
  ASSUME NEW s \in Sides, Own(s), pc'[s] = pc[s], co'[s] = co[s], serial'[s] = serial[s],
         link'[s] = link[s], fences'[s] = fences[s], fault'[s] = fault[s]
  PROVE  Own(s)'
<1>1. Position(s)'
  BY DEF Own, Position
<1>2. Core(s)'
  BY DEF Own, Core, Clocking
<1>3. Bounded(s)'
  BY DEF Own, Bounded
<1>4. Outstanding(fences[s].sent, fences[s].started)'
  BY DEF Own, Outstanding
<1> QED BY <1>1, <1>2, <1>3, <1>4 DEF Own

\* A side that receives nothing more, or nothing at all.
LEMMA ReceivedSame ==
  ASSUME NEW s \in Sides, NEW o \in Sides, o = Other(s), Received(s), co'[s].peer = co[s].peer,
         link'[o].sentProgress = link[o].sentProgress,
         fences'[o].owed = fences[o].owed, fences'[o].seen = fences[o].seen, fences'[s].sent = fences[s].sent,
         open'[s] =>
           /\ open[s] /\ Stream(s)' = Stream(s)
           /\ co'[s].progress = co[s].progress /\ co'[s].edgeSequence = co[s].edgeSequence
           /\ co'[s].mark = co[s].mark
           /\ link'[o].out = link[o].out /\ link'[o].scheduled = link[o].scheduled
           /\ link'[o].sentMark = link[o].sentMark
           /\ fences'[s].seen = fences[s].seen /\ fences'[o].started = fences[o].started
           /\ fences'[o].sent = fences[o].sent
  PROVE  Received(s)'
<1>1. (co[s].peer <= link[o].sentProgress)'
  BY DEF Received
<1>2. Owed(fences[o].owed, fences[o].seen, fences[s].sent)'
  BY DEF Received, Owed
<1>3. ASSUME open'[s]
      PROVE  /\ Announced(Stream(s), co[s].progress, co[s].peer, link[o].sentProgress)'
             /\ Numbered(Stream(s), co[s].edgeSequence, link[o].out, link[o].scheduled)'
             /\ Declared(Stream(s), co[s].mark, link[o].sentMark)'
             /\ Fenced(Stream(s), fences[s].seen, fences[o].started, fences[o].sent)'
             /\ Acked(Stream(s), fences[o].owed, fences[o].seen, fences[s].sent)'
  <2>1. Announced(Stream(s), co[s].progress, co[s].peer, link[o].sentProgress)'
    BY <1>3 DEF Received, Announced, Is
  <2>2. Numbered(Stream(s), co[s].edgeSequence, link[o].out, link[o].scheduled)'
    BY <1>3 DEF Received, Numbered, Is, Through, Asking
  <2>3. Declared(Stream(s), co[s].mark, link[o].sentMark)'
    BY <1>3 DEF Received, Declared, Is
  <2>4. Fenced(Stream(s), fences[s].seen, fences[o].started, fences[o].sent)'
    BY <1>3 DEF Received, Fenced, Is
  <2>5. Acked(Stream(s), fences[o].owed, fences[o].seen, fences[s].sent)'
    BY <1>3 DEF Received, Acked, Is
  <2> QED BY <2>1, <2>2, <2>3, <2>4, <2>5
<1> QED BY <1>1, <1>2, <1>3 DEF Received

\* The answers on their way back from a side.
Answers(s) ==
  \A i \in DOMAIN wire[s] : Is(wire[s], i, "EdgeResponse") =>
       /\ Answer(s, wire[s][i])
       /\ \A j \in DOMAIN wire[s] : Is(wire[s], j, "EdgeResponse") => i = j

\* The edge of the other side stays where it is.
LEMMA PlacedStill ==
  ASSUME NEW s \in Sides, NEW o \in Sides, o = Other(s), Placed(s),
         link'[o].waiting = link[o].waiting, link'[o].out = link[o].out,
         link'[o].scheduled = link[o].scheduled,
         co'[s].edges = co[s].edges, co'[s].edgeSequence = co[s].edgeSequence,
         link'[s].delivery = link[s].delivery, link'[s].completed = link[s].completed,
         open'[s] => open[s] /\ (Asking(Stream(s))' => Asking(Stream(s))),
         Answers(s)'
  PROVE  Placed(s)'
<1>1. Here(s)' = Here(s)
  BY DEF Here
<1>2. EdgeOf(link[o])' = EdgeOf(link[o])
  BY DEF EdgeOf
<1> QED BY <1>1, <1>2 DEF Placed, Answers

\* The same when nothing was sent back either.
LEMMA PlacedSame ==
  ASSUME NEW s \in Sides, NEW o \in Sides, o = Other(s), Placed(s),
         link'[o].waiting = link[o].waiting, link'[o].out = link[o].out,
         link'[o].scheduled = link[o].scheduled,
         co'[s].edges = co[s].edges, co'[s].edgeSequence = co[s].edgeSequence,
         link'[s].delivery = link[s].delivery, link'[s].completed = link[s].completed,
         wire'[s] = wire[s], open'[s] => open[s] /\ Stream(s)' = Stream(s)
  PROVE  Placed(s)'
<1>1. Here(s)' = Here(s)
  BY DEF Here
<1>2. Answers(s)'
  BY <1>1 DEF Placed, Answers, Answer, Is
<1>3. open'[s] => open[s] /\ (Asking(Stream(s))' => Asking(Stream(s)))
  BY DEF Asking, Is
<1> QED BY <1>2, <1>3, PlacedStill

-----------------------------------------------------------------------------
(* Failures *)

\* A session that fails between two instructions keeps the invariant.
LEMMA FailKeeps ==
  ASSUME IInv, NEW s \in Sides, NEW why \in Fault \ {"none", "protocol", "lateness"},
         NEW ended \in Ending, co[s].permit = 0, FailWith(s, why, ended)
  PROVE  IInv'
<1> DEFINE o == Other(s)
<1>1. /\ o \in Sides /\ o # s /\ Other(o) = s
      /\ Shape /\ Own(s) /\ Own(o) /\ Received(s) /\ Received(o) /\ Placed(s) /\ Placed(o)
      /\ Position(s) /\ Core(s) /\ Bounded(s) /\ Outstanding(fences[s].sent, fences[s].started)
  BY Peers, Sidewise
<1>2. /\ pc' = [pc EXCEPT ![s] = "down"] /\ open' = [open EXCEPT ![s] = FALSE]
      /\ mode' = mode /\ serial' = serial /\ link' = link /\ fences' = fences /\ wire' = wire
      /\ fault' = [fault EXCEPT ![s] = Seen(s, why)]
      /\ co' = [co EXCEPT ![s].ended = IF @ = "none" THEN ended ELSE @]
  BY DEF FailWith, Goto
<1>3. Seen(s, why) \in Fault \ {"none", "protocol", "lateness"}
  BY DEF Seen, Fault
<1>4. /\ co'[s] \in Coordinator /\ co'[o] = co[o]
      /\ co'[s].local = co[s].local /\ co'[s].peer = co[s].peer /\ co'[s].progress = co[s].progress
      /\ co'[s].permit = co[s].permit /\ co'[s].episodeOpen = co[s].episodeOpen
      /\ co'[s].instructions = co[s].instructions /\ co'[s].edgeSequence = co[s].edgeSequence
      /\ co'[s].edges = co[s].edges /\ co'[s].mark = co[s].mark /\ co'[s].held = co[s].held
  <2>1. co[s] \in Coordinator
    BY <1>1, Typed
  <2>2. co'[s] = [co[s] EXCEPT !.ended = IF @ = "none" THEN ended ELSE @] /\ co'[o] = co[o]
    BY <1>1, <1>2 DEF Shape
  <2> QED BY <2>1, <2>2 DEF Coordinator
<1>5. /\ pc'[s] = "down" /\ pc'[o] = pc[o] /\ fault'[s] \in Fault \ {"none", "protocol", "lateness"}
      /\ fault'[o] = fault[o] /\ open'[s] = FALSE /\ open'[o] = open[o]
  BY <1>1, <1>2, <1>3 DEF Shape
<1>6. Shape'
  <2>1. co' \in [Sides -> Coordinator]
    BY <1>1, <1>2, <1>4 DEF Shape
  <2> QED BY <1>1, <1>2, <1>3, <2>1 DEF Shape, Positions
<1>7. Own(s)'
  <2>1. Position(s)'
    BY <1>1, <1>2, <1>4, <1>5 DEF Position
  <2>2. Core(s)'
    BY <1>1, <1>2, <1>5 DEF Core, Clocking, Settled
  <2>3. Bounded(s)'
    BY <1>1, <1>2, <1>4 DEF Bounded
  <2>4. Outstanding(fences[s].sent, fences[s].started)'
    BY <1>1, <1>2 DEF Outstanding
  <2> QED BY <2>1, <2>2, <2>3, <2>4 DEF Own
<1>8. Own(o)'
  BY <1>1, <1>2, <1>4, <1>5, OwnSame
<1>9. Stream(o)' = Stream(o)
  BY <1>2 DEF Stream
<1>10. Received(s)'
  BY <1>1, <1>2, <1>4, <1>5, ReceivedSame
<1>11. Received(o)'
  BY <1>1, <1>2, <1>4, <1>5, <1>9, ReceivedSame
<1>12. Placed(s)'
  BY <1>1, <1>2, <1>4, <1>5, PlacedSame
<1>13. Placed(o)'
  BY <1>1, <1>2, <1>4, <1>5, <1>9, PlacedSame
<1> QED BY <1>6, <1>7, <1>8, <1>10, <1>11, <1>12, <1>13, BothSides

\* A failure in the serial core leaves the instruction to be accounted.
LEMMA SerialFaultKeeps ==
  ASSUME IInv, NEW s \in Sides, NEW why \in Fault \ {"none", "protocol", "lateness"},
         pc[s] \in {"access", "boundary", "reply"}, SerialFault(s, why)
  PROVE  IInv'
<1> DEFINE o == Other(s)
<1>1. /\ o \in Sides /\ o # s /\ Other(o) = s
      /\ Shape /\ Own(s) /\ Own(o) /\ Received(s) /\ Received(o) /\ Placed(s) /\ Placed(o)
      /\ Position(s) /\ Core(s) /\ Bounded(s) /\ Outstanding(fences[s].sent, fences[s].started)
      /\ co[s].permit \in Nat
  BY Peers, Sidewise, Numbers
<1>2. /\ pc' = [pc EXCEPT ![s] = IF co[s].permit > 0 THEN "commit" ELSE "broken"] /\ open' = open
      /\ mode' = mode /\ serial' = serial /\ link' = link /\ fences' = fences /\ wire' = wire
      /\ fault' = [fault EXCEPT ![s] = Seen(s, why)] /\ co' = co
  BY DEF SerialFault, Goto
<1>3. Seen(s, why) \in Fault \ {"none", "protocol", "lateness"}
  BY DEF Seen, Fault
<1>4. /\ pc'[s] = (IF co[s].permit > 0 THEN "commit" ELSE "broken") /\ pc'[o] = pc[o]
      /\ fault'[s] \in Fault \ {"none", "protocol", "lateness"} /\ fault'[o] = fault[o]
  BY <1>1, <1>2, <1>3 DEF Shape
<1>5. Shape'
  BY <1>1, <1>2, <1>3 DEF Shape, Positions
<1>6. Own(s)'
  <2>1. Position(s)'
    BY <1>1, <1>2, <1>4 DEF Position
  <2>2. Core(s)'
    BY <1>1, <1>2, <1>4 DEF Core, Clocking, Settled
  <2>3. Bounded(s)'
    BY <1>1, <1>2 DEF Bounded
  <2>4. Outstanding(fences[s].sent, fences[s].started)'
    BY <1>1, <1>2 DEF Outstanding
  <2> QED BY <2>1, <2>2, <2>3, <2>4 DEF Own
<1>7. Own(o)'
  BY <1>1, <1>2, <1>4, OwnSame
<1>8. Stream(o)' = Stream(o) /\ Stream(s)' = Stream(s)
  BY <1>2 DEF Stream
<1>9. Received(s)' /\ Received(o)'
  BY <1>1, <1>2, <1>8, ReceivedSame
<1>10. Placed(s)' /\ Placed(o)'
  BY <1>1, <1>2, <1>8, PlacedSame
<1> QED BY <1>5, <1>6, <1>7, <1>9, <1>10, BothSides

\* The ends a session comes to by itself: at a check, after an instruction, or
\* when a deadline expires.
LEMMA StopKeeps ==
  ASSUME IInv, NEW s \in Sides, Notice(s) \/ Break(s) \/ Expire(s)
  PROVE  IInv'
<1>1. Position(s) /\ co[s].permit \in Nat /\ fault[s] \in Fault
  BY Sidewise, Numbers, Typed
<1>2. pc[s] \in {"consume", "deliver", "reserve", "starved", "boundary", "broken"} => co[s].permit = 0
  BY <1>1 DEF Position
<1>3. /\ "closed" \in Fault \ {"none", "protocol", "lateness"} /\ "closed" \in Ending
      /\ "deadline" \in Fault \ {"none", "protocol", "lateness"}
  BY DEF Fault, Ending
<1>4. CASE \E why \in {"closed", "deadline"} : pc[s] = "reply" /\ SerialFault(s, why)
  BY <1>3, <1>4, SerialFaultKeeps
<1>5. CASE \E why \in {"closed", "deadline"} :
             pc[s] \in {"consume", "deliver", "reserve", "starved", "boundary"} /\ Fail(s, why)
  <2>1. PICK why \in {"closed", "deadline"} :
             pc[s] \in {"consume", "deliver", "reserve", "starved", "boundary"} /\ FailWith(s, why, "closed")
    BY <1>5 DEF Fail
  <2> QED BY <1>2, <1>3, <2>1, FailKeeps
<1>6. CASE Break(s)
  <2>1. pc[s] = "broken" /\ FailWith(s, fault[s], "closed")
    BY <1>6 DEF Break, Fail
  <2>2. fault[s] \in Fault \ {"none", "protocol", "lateness"}
    BY <1>1, <2>1 DEF Position
  <2> QED BY <1>2, <1>3, <2>1, <2>2, FailKeeps
<1>7. Notice(s) \/ Expire(s) =>
         \/ \E why \in {"closed", "deadline"} : pc[s] = "reply" /\ SerialFault(s, why)
         \/ \E why \in {"closed", "deadline"} :
             pc[s] \in {"consume", "deliver", "reserve", "starved", "boundary"} /\ Fail(s, why)
  BY DEF Notice, Expire
<1> QED BY <1>4, <1>5, <1>6, <1>7

\* A cancellation from another thread.
LEMMA CancelKeeps ==
  ASSUME IInv, NEW s \in Sides, Cancel(s)
  PROVE  IInv'
<1> DEFINE o == Other(s)
<1>1. /\ o \in Sides /\ o # s /\ Other(o) = s
      /\ Shape /\ Own(s) /\ Own(o) /\ Received(s) /\ Received(o) /\ Placed(s) /\ Placed(o)
      /\ Position(s) /\ Core(s) /\ Bounded(s) /\ Outstanding(fences[s].sent, fences[s].started)
  BY Peers, Sidewise
<1>2. /\ open' = [open EXCEPT ![s] = FALSE] /\ pc' = pc /\ fault' = fault
      /\ mode' = mode /\ serial' = serial /\ link' = link /\ fences' = fences /\ wire' = wire
      /\ co' = [co EXCEPT ![s].ended = "cancelled"]
  BY DEF Cancel
<1>3. /\ co'[s] \in Coordinator /\ co'[o] = co[o]
      /\ co'[s].local = co[s].local /\ co'[s].peer = co[s].peer /\ co'[s].progress = co[s].progress
      /\ co'[s].permit = co[s].permit /\ co'[s].episodeOpen = co[s].episodeOpen
      /\ co'[s].instructions = co[s].instructions /\ co'[s].edgeSequence = co[s].edgeSequence
      /\ co'[s].edges = co[s].edges /\ co'[s].mark = co[s].mark /\ co'[s].held = co[s].held
  <2>1. co[s] \in Coordinator /\ "cancelled" \in Ending
    BY <1>1, Typed DEF Ending
  <2>2. co'[s] = [co[s] EXCEPT !.ended = "cancelled"] /\ co'[o] = co[o]
    BY <1>1, <1>2 DEF Shape
  <2> QED BY <2>1, <2>2 DEF Coordinator
<1>4. open'[s] = FALSE /\ open'[o] = open[o]
  BY <1>1, <1>2 DEF Shape
<1>5. Shape'
  <2>1. co' \in [Sides -> Coordinator]
    BY <1>1, <1>2, <1>3 DEF Shape
  <2> QED BY <1>1, <1>2, <2>1 DEF Shape
<1>6. Own(s)'
  <2>1. Position(s)'
    BY <1>1, <1>2, <1>3 DEF Position
  <2>2. Core(s)'
    BY <1>1, <1>2, <1>3 DEF Core, Clocking, Settled
  <2>3. Bounded(s)'
    BY <1>1, <1>2, <1>3 DEF Bounded
  <2>4. Outstanding(fences[s].sent, fences[s].started)'
    BY <1>1, <1>2 DEF Outstanding
  <2> QED BY <2>1, <2>2, <2>3, <2>4 DEF Own
<1>7. Own(o)'
  BY <1>1, <1>2, <1>3, OwnSame
<1>8. Stream(o)' = Stream(o)
  BY <1>2 DEF Stream
<1>9. Received(s)' /\ Received(o)'
  BY <1>1, <1>2, <1>3, <1>4, <1>8, ReceivedSame
<1>10. Placed(s)' /\ Placed(o)'
  BY <1>1, <1>2, <1>3, <1>4, <1>8, PlacedSame
<1> QED BY <1>5, <1>6, <1>7, <1>9, <1>10, BothSides

\* The reader of a side meets the end of the stream.
LEMMA EofKeeps ==
  ASSUME IInv, NEW s \in Sides, Eof(s)
  PROVE  IInv'
<1> DEFINE o == Other(s)
<1>1. /\ o \in Sides /\ o # s /\ Other(o) = s
      /\ Shape /\ Own(s) /\ Own(o) /\ Received(s) /\ Received(o) /\ Placed(s) /\ Placed(o)
  BY Peers, Sidewise
<1>2. /\ open' = [open EXCEPT ![s] = FALSE] /\ wire' = [wire EXCEPT ![o] = <<>>]
      /\ pc' = pc /\ fault' = fault /\ mode' = mode /\ serial' = serial /\ link' = link
      /\ fences' = fences /\ co' = co
  BY DEF Eof
<1>3. /\ open'[s] = FALSE /\ open'[o] = open[o] /\ wire'[s] = wire[s] /\ wire'[o] = <<>>
  BY <1>1, <1>2 DEF Shape
<1>4. <<>> \in Seq(Message) /\ DOMAIN <<>> = {}
  BY EmptySeq, Elements
<1>5. Shape'
  BY <1>1, <1>2, <1>4 DEF Shape
<1>6. Own(s)' /\ Own(o)'
  BY <1>1, <1>2, OwnSame
<1>7. Stream(o)' = Stream(o)
  BY <1>1, <1>2, <1>3 DEF Stream
<1>8. Received(s)' /\ Received(o)'
  BY <1>1, <1>2, <1>3, <1>7, ReceivedSame
<1>9. Placed(s)'
  BY <1>1, <1>2, <1>3, PlacedSame
<1>10. Placed(o)'
  <2>1. Answers(o)'
    BY <1>3, <1>4 DEF Answers
  <2>2. Asking(Stream(o))' => Asking(Stream(o))
    BY <1>7 DEF Asking, Is
  <2> QED BY <1>1, <1>2, <1>3, <2>1, <2>2, PlacedStill
<1> QED BY <1>5, <1>6, <1>8, <1>9, <1>10, BothSides

-----------------------------------------------------------------------------
(* Staging what has arrived, and forgetting an acknowledged fence *)

\* A fence that is forgotten was acknowledged.
LEMMA PollFenceKeeps ==
  ASSUME IInv, NEW s \in Sides, PollFence(s)
  PROVE  IInv'
<1> DEFINE o == Other(s)
<1>1. /\ o \in Sides /\ o # s /\ Other(o) = s
      /\ Shape /\ Own(s) /\ Own(o) /\ Received(s) /\ Received(o) /\ Placed(s) /\ Placed(o)
      /\ Position(s) /\ Core(s) /\ Bounded(s) /\ Outstanding(fences[s].sent, fences[s].started)
  BY Peers, Sidewise
<1>2. PICK f \in fences[s].sent :
        /\ f.acked /\ fences' = [fences EXCEPT ![s].sent = @ \ {f}]
        /\ pc' = pc /\ mode' = mode /\ co' = co /\ serial' = serial /\ link' = link /\ open' = open
        /\ wire' = wire /\ fault' = fault
  BY DEF PollFence
<1>3. fences[s] \in Fencing
  BY <1>1, Typed
<1>4. /\ fences'[s] = [fences[s] EXCEPT !.sent = @ \ {f}] /\ fences'[o] = fences[o]
  BY <1>1, <1>2 DEF Shape
<1>5. /\ fences'[s] \in Fencing /\ fences'[s].sent = fences[s].sent \ {f}
      /\ fences'[s].started = fences[s].started /\ fences'[s].seen = fences[s].seen
      /\ fences'[s].owed = fences[s].owed
  BY <1>3, <1>4 DEF Fencing
<1>6. \A m : Sent(m) \in fences[s].sent => Sent(m) \in fences'[s].sent
  BY <1>2, <1>5 DEF Sent
<1>7. Shape'
  <2>1. fences' \in [Sides -> Fencing]
    BY <1>1, <1>2, <1>5 DEF Shape
  <2> QED BY <1>1, <1>2, <2>1 DEF Shape
<1>8. Own(s)'
  <2>1. Position(s)' /\ Core(s)' /\ Bounded(s)'
    BY <1>1, <1>2 DEF Position, Core, Clocking, Bounded
  <2>2. Outstanding(fences[s].sent, fences[s].started)'
    <3>1. IsFiniteSet(fences[s].sent) /\ Cardinality(fences[s].sent) <= Capacity /\ Capacity \in Nat
      BY <1>1, Constants DEF Outstanding
    <3>2. /\ IsFiniteSet(fences[s].sent \ {f}) /\ Cardinality(fences[s].sent \ {f}) <= Cardinality(fences[s].sent)
          /\ Cardinality(fences[s].sent \ {f}) \in Nat /\ Cardinality(fences[s].sent) \in Nat
      BY <3>1, FS_Subset, FS_CardinalityType
    <3>3. Cardinality(fences[s].sent \ {f}) <= Capacity
      BY <3>1, <3>2
    <3> QED BY <1>1, <1>5, <3>2, <3>3 DEF Outstanding
  <2> QED BY <2>1, <2>2 DEF Own
<1>9. Own(o)'
  BY <1>1, <1>2, <1>4, OwnSame
<1>10. Stream(o)' = Stream(o) /\ Stream(s)' = Stream(s)
  BY <1>2 DEF Stream
<1>11. Received(s)'
  <2>1. /\ Owed(fences[o].owed, fences[o].seen, fences'[s].sent)
        /\ open[s] => Acked(Stream(s), fences[o].owed, fences[o].seen, fences'[s].sent)
    BY <1>1, <1>6 DEF Received, Owed, Acked
  <2>2. Owed(fences[o].owed, fences[o].seen, fences[s].sent)'
    BY <1>4, <2>1 DEF Owed
  <2>3. ASSUME open[s]
        PROVE  /\ Announced(Stream(s), co[s].progress, co[s].peer, link[o].sentProgress)'
               /\ Numbered(Stream(s), co[s].edgeSequence, link[o].out, link[o].scheduled)'
               /\ Declared(Stream(s), co[s].mark, link[o].sentMark)'
               /\ Fenced(Stream(s), fences[s].seen, fences[o].started, fences[o].sent)'
               /\ Acked(Stream(s), fences[o].owed, fences[o].seen, fences[s].sent)'
    <3>1. Announced(Stream(s), co[s].progress, co[s].peer, link[o].sentProgress)'
      BY <1>1, <1>2, <1>10, <2>3 DEF Received, Announced, Is
    <3>2. Numbered(Stream(s), co[s].edgeSequence, link[o].out, link[o].scheduled)'
      BY <1>1, <1>2, <1>10, <2>3 DEF Received, Numbered, Is, Through, Asking
    <3>3. Declared(Stream(s), co[s].mark, link[o].sentMark)'
      BY <1>1, <1>2, <1>10, <2>3 DEF Received, Declared, Is
    <3>4. Fenced(Stream(s), fences[s].seen, fences[o].started, fences[o].sent)'
      BY <1>1, <1>2, <1>4, <1>5, <1>10, <2>3 DEF Received, Fenced, Is
    <3>5. Acked(Stream(s), fences[o].owed, fences[o].seen, fences[s].sent)'
      BY <1>1, <1>4, <1>10, <2>1, <2>3 DEF Acked, Is
    <3> QED BY <3>1, <3>2, <3>3, <3>4, <3>5
  <2> QED BY <1>1, <1>2, <2>2, <2>3 DEF Received
<1>12. Received(o)'
  <2>1. open[o] => Fenced(Stream(o), fences[o].seen, fences[s].started, fences'[s].sent)
    BY <1>1, <1>6 DEF Received, Fenced
  <2>2. Owed(fences[s].owed, fences[s].seen, fences[o].sent)'
    BY <1>1, <1>4, <1>5 DEF Received, Owed
  <2>3. ASSUME open[o]
        PROVE  /\ Announced(Stream(o), co[o].progress, co[o].peer, link[s].sentProgress)'
               /\ Numbered(Stream(o), co[o].edgeSequence, link[s].out, link[s].scheduled)'
               /\ Declared(Stream(o), co[o].mark, link[s].sentMark)'
               /\ Fenced(Stream(o), fences[o].seen, fences[s].started, fences[s].sent)'
               /\ Acked(Stream(o), fences[s].owed, fences[s].seen, fences[o].sent)'
    <3>1. Announced(Stream(o), co[o].progress, co[o].peer, link[s].sentProgress)'
      BY <1>1, <1>2, <1>10, <2>3 DEF Received, Announced, Is
    <3>2. Numbered(Stream(o), co[o].edgeSequence, link[s].out, link[s].scheduled)'
      BY <1>1, <1>2, <1>10, <2>3 DEF Received, Numbered, Is, Through, Asking
    <3>3. Declared(Stream(o), co[o].mark, link[s].sentMark)'
      BY <1>1, <1>2, <1>10, <2>3 DEF Received, Declared, Is
    <3>4. Fenced(Stream(o), fences[o].seen, fences[s].started, fences[s].sent)'
      BY <1>4, <1>5, <1>10, <2>1, <2>3 DEF Fenced, Is
    <3>5. Acked(Stream(o), fences[s].owed, fences[s].seen, fences[o].sent)'
      BY <1>1, <1>4, <1>5, <1>10, <2>3 DEF Received, Acked, Is
    <3> QED BY <3>1, <3>2, <3>3, <3>4, <3>5
  <2> QED BY <1>1, <1>2, <2>2, <2>3 DEF Received
<1>13. Placed(s)' /\ Placed(o)'
  BY <1>1, <1>2, <1>10, PlacedSame
<1> QED BY <1>7, <1>8, <1>9, <1>11, <1>12, <1>13, BothSides

\* The first n messages, and the others.
LEMMA Divided ==
  ASSUME NEW w \in Seq(Message), NEW n \in 0..Len(w)
  PROVE  /\ SubSeq(w, 1, n) \in Seq(Message) /\ Len(SubSeq(w, 1, n)) = n
         /\ DOMAIN SubSeq(w, 1, n) = 1..n /\ \A i \in 1..n : SubSeq(w, 1, n)[i] = w[i]
         /\ SubSeq(w, n + 1, Len(w)) \in Seq(Message)
         /\ DOMAIN SubSeq(w, n + 1, Len(w)) = 1..(Len(w) - n)
         /\ \A i \in 1..(Len(w) - n) : /\ SubSeq(w, n + 1, Len(w))[i] = w[n + i]
                                       /\ n + i \in DOMAIN w
         /\ SubSeq(w, 1, n) \o SubSeq(w, n + 1, Len(w)) = w
<1>1. Len(w) \in Nat /\ n \in Nat /\ n <= Len(w) /\ DOMAIN w = 1..Len(w) /\ \A i \in DOMAIN w : w[i] \in Message
  BY Elements
<1>2. \A i \in 1..n : w[i] \in Message
  BY <1>1
<1>3. \A i \in (n + 1)..Len(w) : w[i] \in Message
  BY <1>1
<1>4. /\ SubSeq(w, 1, n) \in Seq(Message) /\ Len(SubSeq(w, 1, n)) = (IF 1 <= n THEN n - 1 + 1 ELSE 0)
      /\ \A i \in 1 .. n - 1 + 1 : SubSeq(w, 1, n)[i] = w[1 + i - 1]
  BY <1>1, <1>2, SubSeqProperties
<1>5. /\ SubSeq(w, n + 1, Len(w)) \in Seq(Message)
      /\ Len(SubSeq(w, n + 1, Len(w))) = (IF n + 1 <= Len(w) THEN Len(w) - (n + 1) + 1 ELSE 0)
      /\ \A i \in 1 .. Len(w) - (n + 1) + 1 : SubSeq(w, n + 1, Len(w))[i] = w[n + 1 + i - 1]
  BY <1>1, <1>3, SubSeqProperties
<1>6. Len(SubSeq(w, 1, n)) = n /\ DOMAIN SubSeq(w, 1, n) = 1..n /\ \A i \in 1..n : SubSeq(w, 1, n)[i] = w[i]
  <2>1. Len(SubSeq(w, 1, n)) = n
    BY <1>1, <1>4
  <2>2. \A i \in 1..n : i \in 1 .. n - 1 + 1 /\ 1 + i - 1 = i
    BY <1>1
  <2> QED BY <1>4, <2>1, <2>2, Elements
<1>7. /\ DOMAIN SubSeq(w, n + 1, Len(w)) = 1..(Len(w) - n)
      /\ \A i \in 1..(Len(w) - n) : SubSeq(w, n + 1, Len(w))[i] = w[n + i] /\ n + i \in DOMAIN w
  <2>0. \A l, m \in Nat : m <= l => (IF m + 1 <= l THEN l - (m + 1) + 1 ELSE 0) = l - m
    OBVIOUS
  <2>1. Len(SubSeq(w, n + 1, Len(w))) = Len(w) - n
    BY <1>1, <1>5, <2>0
  <2>2. \A i \in 1..(Len(w) - n) : i \in 1 .. Len(w) - (n + 1) + 1 /\ n + 1 + i - 1 = n + i /\ n + i \in DOMAIN w
    BY <1>1
  <2> QED BY <1>5, <2>1, <2>2, Elements
<1>8. SubSeq(w, 1, n) \o SubSeq(w, n + 1, Len(w)) = w
  <2>1. 1 \in 1..Len(w) + 1 /\ n \in 1 - 1 .. Len(w) /\ Len(w) \in n..Len(w)
    BY <1>1
  <2>2. SubSeq(w, 1, n) \o SubSeq(w, n + 1, Len(w)) = SubSeq(w, 1, Len(w))
    BY <2>1, ConcatAdjacentSubSeq
  <2> QED BY <2>2, SubSeqFull
<1> QED BY <1>4, <1>5, <1>6, <1>7, <1>8

\* Staging does not change what is on the way.
LEMMA StagedKeeps ==
  ASSUME IInv, NEW s \in Sides, NEW n \in 0..Len(Incoming(s)), NEW where \in {"consume", "reply"},
         \A i \in 1..n : Incoming(s)[i].type # "EdgeResponse",
         link' = [link EXCEPT ![s].ingress = @ \o SubSeq(Incoming(s), 1, n)],
         wire' = [wire EXCEPT ![Other(s)] = SubSeq(Incoming(s), n + 1, Len(Incoming(s)))],
         pc' = [pc EXCEPT ![s] = where],
         mode' \in [Sides -> {"none", "before", "wait", "end", "fence"}],
         co' = co, serial' = serial, fences' = fences, open' = open, fault' = fault,
         fault[s] = "none", where = "reply" => pc[s] = "reply",
         where = "consume" => pc[s] = "starved" \/ AtBoundary(s)
  PROVE  IInv'
<1> DEFINE o == Other(s)
           w == Incoming(s)
           a == SubSeq(w, 1, n)
           b == SubSeq(w, n + 1, Len(w))
<1>1. /\ o \in Sides /\ o # s /\ Other(o) = s
      /\ Shape /\ Own(s) /\ Own(o) /\ Received(s) /\ Received(o) /\ Placed(s) /\ Placed(o)
      /\ Position(s) /\ Core(s) /\ Bounded(s) /\ Outstanding(fences[s].sent, fences[s].started)
  BY Peers, Sidewise
<1>2. /\ w = wire[o] /\ w \in Seq(Message) /\ link[s] \in Bookkeeping /\ link[s].ingress \in Seq(Message)
      /\ n \in Nat
  BY <1>1, Typed, Elements DEF Incoming
<1>3. /\ a \in Seq(Message) /\ b \in Seq(Message) /\ a \o b = w
      /\ DOMAIN b = 1..(Len(w) - n) /\ \A i \in DOMAIN b : b[i] = w[n + i] /\ n + i \in DOMAIN w
  BY <1>2, Divided
<1> HIDE DEF a, b, w
<1>4. /\ link'[s] = [link[s] EXCEPT !.ingress = link[s].ingress \o a] /\ link'[o] = link[o]
      /\ wire'[o] = b /\ wire'[s] = wire[s] /\ pc'[s] = where /\ pc'[o] = pc[o]
  BY <1>1 DEF Shape, a, b, w
<1>5. link[s].ingress \o a \in Seq(Message)
  BY <1>2, <1>3, Joined
<1>6. /\ link'[s] \in Bookkeeping /\ link'[s].ingress = link[s].ingress \o a
      /\ link'[s].delivery = link[s].delivery /\ link'[s].completed = link[s].completed
      /\ link'[s].out = link[s].out /\ link'[s].waiting = link[s].waiting
      /\ link'[s].scheduled = link[s].scheduled /\ link'[s].settled = link[s].settled
      /\ link'[s].sentProgress = link[s].sentProgress /\ link'[s].sentMark = link[s].sentMark
  <2> DEFINE c == link[s].ingress \o a
  <2>1. /\ c \in Seq(Message) /\ link'[s] = [link[s] EXCEPT !.ingress = c]
        /\ link[s] \in Bookkeeping
    BY <1>2, <1>4, <1>5
  <2> HIDE DEF c
  <2>2. /\ link'[s] \in Bookkeeping /\ link'[s].ingress = c
        /\ link'[s].delivery = link[s].delivery /\ link'[s].completed = link[s].completed
        /\ link'[s].out = link[s].out /\ link'[s].waiting = link[s].waiting
        /\ link'[s].scheduled = link[s].scheduled /\ link'[s].settled = link[s].settled
        /\ link'[s].sentProgress = link[s].sentProgress /\ link'[s].sentMark = link[s].sentMark
    BY ONLY <2>1 DEF Bookkeeping
  <2> QED BY <2>2 DEF c
<1>7. Stream(s)' = Stream(s)
  <2>1. Stream(s)' = (link[s].ingress \o a) \o b /\ Stream(s) = link[s].ingress \o w
    BY <1>2, <1>4, <1>6 DEF Stream
  <2>2. (link[s].ingress \o a) \o b = link[s].ingress \o (a \o b)
    <3>1. \A x, y, z \in Seq(Message) : (x \o y) \o z = x \o (y \o z)
      BY ConcatAssociative
    <3> QED BY <1>2, <1>3, <3>1
  <2> QED BY <1>3, <2>1, <2>2
<1>8. Stream(o)' = Stream(o)
  BY <1>1, <1>4 DEF Stream
<1>9. Shape'
  <2>1. link' \in [Sides -> Bookkeeping]
    BY <1>1, <1>4, <1>6 DEF Shape
  <2>2. wire' \in [Sides -> Seq(Message)]
    BY <1>1, <1>3, <1>4 DEF Shape
  <2>3. pc' \in [Sides -> Positions]
    BY <1>1, <1>4 DEF Shape, Positions
  <2> QED BY <1>1, <2>1, <2>2, <2>3 DEF Shape
<1>10. Own(s)'
  <2>0. co[s].permit \in Nat /\ serial[s].target \in Nat /\ serial[s].now \in Nat
    BY <1>1, Numbers
  <2>1. Position(s)'
    BY <1>1, <1>4, <1>6, <2>0 DEF Position, AtBoundary
  <2>2. Core(s)'
    BY <1>1, <1>4, <1>6, <2>0 DEF Core, Clocking, Settled, AtBoundary, EdgeDue
  <2>3. Bounded(s)'
    BY <1>1, <1>6 DEF Bounded
  <2>4. Outstanding(fences[s].sent, fences[s].started)'
    BY <1>1 DEF Outstanding
  <2> QED BY <2>1, <2>2, <2>3, <2>4 DEF Own
<1>11. Own(o)'
  BY <1>1, <1>4, OwnSame
<1>12. Received(s)' /\ Received(o)'
  BY <1>1, <1>4, <1>6, <1>7, <1>8, ReceivedSame
<1>13. Placed(s)'
  BY <1>1, <1>4, <1>6, <1>7, PlacedSame
<1>14. Placed(o)'
  <2>1. Answers(o)'
    <3>0. wire'[o] = b
      BY <1>4
    <3>1. ASSUME NEW i \in DOMAIN wire'[o], wire'[o][i].type = "EdgeResponse"
          PROVE  n + i \in DOMAIN w /\ Is(w, n + i, "EdgeResponse") /\ Answer(o, wire[o][i])'
      <4>1. n + i \in DOMAIN w /\ Is(w, n + i, "EdgeResponse") /\ wire'[o][i] = w[n + i]
        BY <1>3, <3>0, <3>1 DEF Is
      <4>2. Answer(o, w[n + i])
        BY <1>1, <1>2, <4>1 DEF Placed
      <4>3. Here(o)' = Here(o)
        BY <1>1, <1>4 DEF Here
      <4>4. link'[s].waiting = link[s].waiting /\ link'[s].scheduled = link[s].scheduled
            /\ link'[s].out = link[s].out /\ link'[o] = link[o] /\ Other(o) = s
        BY <1>1, <1>4, <1>6
      <4>5. Answer(o, wire[o][i])'
        BY ONLY <4>1, <4>2, <4>3, <4>4 DEF Answer
      <4> QED BY <4>1, <4>5
    <3>2. ASSUME NEW i \in DOMAIN wire'[o], NEW j \in DOMAIN wire'[o],
                 wire'[o][i].type = "EdgeResponse", wire'[o][j].type = "EdgeResponse"
          PROVE  i = j
      <4>1. n + i = n + j
        BY <1>1, <1>2, <3>1, <3>2 DEF Placed
      <4>2. i \in Nat /\ j \in Nat /\ n \in Nat
        BY <1>2, <1>3, <3>0, Elements
      <4> QED BY <4>1, <4>2
    <3> HIDE DEF o
    <3> QED BY ONLY <3>1, <3>2 DEF Answers, Is
  <2>2. Asking(Stream(o))' => Asking(Stream(o))
    BY <1>8 DEF Asking, Is
  <2> QED BY <1>1, <1>4, <1>6, <2>1, <2>2, PlacedStill
<1> QED BY <1>9, <1>10, <1>11, <1>12, <1>13, <1>14, BothSides

\* A pump takes what has arrived: no response is among it, because the side
\* waits for none.
LEMMA PumpKeeps ==
  ASSUME IInv, NEW s \in Sides, NEW n \in Polled(s),
         PumpBefore(s, n) \/ PumpEnd(s, n) \/ PumpFence(s, n) \/ PumpWait(s, n)
  PROVE  IInv'
<1> DEFINE o == Other(s)
           w == Incoming(s)
<1>1. /\ o \in Sides /\ o # s /\ Other(o) = s
      /\ Shape /\ Position(s) /\ Placed(o) /\ w = wire[o] /\ w \in Seq(Message)
      /\ co[s].permit \in Nat /\ fault[s] \in Fault
  BY Peers, Sidewise, Typed, Numbers DEF Incoming
<1>2. PICK m \in {"before", "wait", "end", "fence"} :
        (pc[s] = "starved" \/ AtBoundary(s)) /\ Pump(s, m, n)
  BY DEF PumpBefore, PumpEnd, PumpFence, PumpWait
<1>3. n \in 0..Len(w) /\ n \in Nat
  BY <1>1, Constants, Elements DEF Polled
<1>4. link[s].waiting = 0 /\ fault[s] = "none" /\ co[s].permit = 0
  BY <1>1, <1>2 DEF Position, AtBoundary
<1> DEFINE staged == SubSeq(Incoming(s), 1, n)
           responses == {i \in 1..n : staged[i].type = "EdgeResponse"}
<1>5. \A i \in 1..n : staged[i] = w[i]
  BY <1>1, <1>3, Divided
<1>6. \A i \in DOMAIN w : ~Is(w, i, "EdgeResponse")
  BY <1>1, <1>4 DEF Placed, Answer
<1>7. \A i \in 1..n : i \in DOMAIN w
  BY <1>1, <1>3, Elements
<1>8. \A i \in 1..n : Incoming(s)[i].type # "EdgeResponse" /\ staged[i].type # "EdgeResponse"
  BY <1>5, <1>6, <1>7 DEF Is
<1>9. responses = {}
  BY <1>8
<1>10. CASE n > 0 /\ Backlog(s) + n > Capacity
  <2>1. FailWith(s, "capacity", "closed")
    BY <1>2, <1>9, <1>10 DEF Pump, Fail
  <2>2. "capacity" \in Fault \ {"none", "protocol", "lateness"} /\ "closed" \in Ending
    BY DEF Fault, Ending
  <2> QED BY <1>4, <2>1, <2>2, FailKeeps
<1>11. CASE ~(n > 0 /\ Backlog(s) + n > Capacity)
  <2>1. /\ link' = [link EXCEPT ![s].ingress = @ \o SubSeq(Incoming(s), 1, n)]
        /\ wire' = [wire EXCEPT ![Other(s)] = SubSeq(@, n + 1, Len(@))]
        /\ mode' = [mode EXCEPT ![s] = m] /\ pc' = [pc EXCEPT ![s] = "consume"]
        /\ co' = co /\ serial' = serial /\ fences' = fences /\ open' = open /\ fault' = fault
    BY <1>2, <1>9, <1>11 DEF Pump, Goto
  <2>2. wire' = [wire EXCEPT ![Other(s)] = SubSeq(Incoming(s), n + 1, Len(Incoming(s)))]
    BY <1>1, <2>1 DEF Incoming
  <2>3. mode' \in [Sides -> {"none", "before", "wait", "end", "fence"}]
    BY <1>1, <2>1 DEF Shape
  <2> QED BY <1>2, <1>3, <1>4, <1>8, <2>1, <2>2, <2>3, StagedKeeps
<1> QED BY <1>10, <1>11

\* While a side waits for its response, it stages everything else.
LEMMA StageWhileWaitingKeeps ==
  ASSUME IInv, NEW s \in Sides, StageWhileWaiting(s)
  PROVE  IInv'
<1> DEFINE w == Incoming(s)
<1>1. /\ Shape /\ Position(s) /\ w \in Seq(Message) /\ w # <<>> /\ pc[s] = "reply"
      /\ Head(w).type # "EdgeResponse" /\ fault[s] \in Fault
      /\ link[s].ingress \in Seq(Message)
  BY Sidewise, Typed DEF Incoming, StageWhileWaiting, Replying
<1>2. 1 \in DOMAIN w /\ Head(w) = w[1] /\ Len(w) \in Nat /\ 1 \in 1..Len(w) /\ 1 \in 0..Len(w) /\ w[1] \in Message
  BY <1>1, Elements
<1>3. CASE Backlog(s) >= Capacity
  <2>1. SerialFault(s, "capacity")
    BY <1>3 DEF StageWhileWaiting
  <2>2. "capacity" \in Fault \ {"none", "protocol", "lateness"}
    BY DEF Fault
  <2> QED BY <1>1, <2>1, <2>2, SerialFaultKeeps
<1>4. CASE ~(Backlog(s) >= Capacity)
  <2>1. /\ link' = [link EXCEPT ![s].ingress = Append(@, Head(w))]
        /\ wire' = [wire EXCEPT ![Other(s)] = Tail(@)]
        /\ pc' = pc /\ mode' = mode
        /\ co' = co /\ serial' = serial /\ fences' = fences /\ open' = open /\ fault' = fault
    BY <1>4 DEF StageWhileWaiting
  <2>2. Append(link[s].ingress, Head(w)) = link[s].ingress \o SubSeq(w, 1, 1)
    <3>1. Append(link[s].ingress, w[1]) = link[s].ingress \o <<w[1]>>
      BY <1>1, <1>2, AppendIsConcat
    <3>2. SubSeq(w, 1, 1) = <<w[1]>>
      <4>1. SubSeq(w, 1, 1) = <<w[1]>> \o SubSeq(w, 1 + 1, 1)
        BY <1>1, <1>2, SubSeqRecursiveFirst
      <4>2. SubSeq(w, 1 + 1, 1) = <<>>
        BY SubSeqEmpty
      <4>3. <<w[1]>> \in Seq(Message)
        BY <1>2
      <4> QED BY <4>1, <4>2, <4>3, ConcatEmptySeq
    <3> QED BY <1>2, <3>1, <3>2
  <2>3. Tail(w) = SubSeq(w, 1 + 1, Len(w))
    BY <1>1, TailIsSubSeq
  <2>4. /\ link' = [link EXCEPT ![s].ingress = @ \o SubSeq(Incoming(s), 1, 1)]
        /\ wire' = [wire EXCEPT ![Other(s)] = SubSeq(Incoming(s), 1 + 1, Len(Incoming(s)))]
        /\ pc' = [pc EXCEPT ![s] = "reply"]
        /\ mode' \in [Sides -> {"none", "before", "wait", "end", "fence"}]
    BY <1>1, <2>1, <2>2, <2>3 DEF Shape, Incoming
  <2>5. fault[s] = "none"
    BY <1>1 DEF Position
  <2>6. \A i \in 1..1 : Incoming(s)[i].type # "EdgeResponse"
    BY <1>1, <1>2
  <2> QED BY <1>1, <1>2, <2>1, <2>4, <2>5, <2>6, StagedKeeps
<1> QED BY <1>3, <1>4

-----------------------------------------------------------------------------
(* Consuming what was staged *)

\* The message that is consumed is the first that is on the way.
LEMMA Opening ==
  ASSUME IInv, NEW s \in Sides, NEW type, Consuming(s, type)
  PROVE  /\ pc[s] = "consume" /\ open[s] /\ link[s].ingress # <<>>
         /\ co[s].permit = 0 /\ fault[s] = "none" /\ link[s].waiting = 0
         /\ Thinned(Tail(link[s].ingress) \o wire[Other(s)], Stream(s), 1)
         /\ Stream(s)[1] = Head1(s) /\ Head1(s).type = type /\ Head1(s) \in Message
         /\ Tail(link[s].ingress) \in Seq(Message)
<1>1. /\ pc[s] = "consume" /\ open[s] /\ link[s].ingress # <<>> /\ Head1(s).type = type
  BY DEF Consuming, Usable
<1>2. /\ Position(s) /\ Shape /\ link[s].ingress \in Seq(Message) /\ wire[Other(s)] \in Seq(Message)
      /\ co[s].permit \in Nat
  BY Sidewise, Typed, Numbers
<1>3. co[s].permit = 0 /\ fault[s] = "none" /\ link[s].waiting = 0
  BY <1>1, <1>2 DEF Position
<1>4. /\ Thinned(Tail(link[s].ingress) \o wire[Other(s)], Stream(s), 1)
      /\ Stream(s)[1] = Head1(s)
  BY <1>1, <1>2, Beheaded DEF Stream, Head1
<1>5. Head1(s) \in Message /\ Tail(link[s].ingress) \in Seq(Message)
  BY <1>1, <1>2, HeadTailProperties DEF Head1
<1> QED BY <1>1, <1>3, <1>4, <1>5

\* What dropping it changes.
LEMMA Dropped ==
  ASSUME Shape, NEW s \in Sides, link[s].ingress # <<>>, Drop(s), wire' = wire
  PROVE  /\ link' \in [Sides -> Bookkeeping] /\ link'[Other(s)] = link[Other(s)]
         /\ link'[s].delivery = link[s].delivery /\ link'[s].completed = link[s].completed
         /\ link'[s].out = link[s].out /\ link'[s].waiting = link[s].waiting
         /\ link'[s].scheduled = link[s].scheduled /\ link'[s].settled = link[s].settled
         /\ link'[s].sentProgress = link[s].sentProgress /\ link'[s].sentMark = link[s].sentMark
         /\ Stream(s)' = Tail(link[s].ingress) \o wire[Other(s)]
         /\ Stream(Other(s))' = Stream(Other(s))
<1>1. Other(s) \in Sides /\ Other(s) # s
  BY Peers
<1>2. link[s] \in Bookkeeping /\ link[s].ingress \in Seq(Message) /\ Tail(link[s].ingress) \in Seq(Message)
  BY Typed, HeadTailProperties
<1>3. link'[s] = [link[s] EXCEPT !.ingress = Tail(link[s].ingress)] /\ link'[Other(s)] = link[Other(s)]
  BY <1>1 DEF Drop, Shape
<1>4. /\ link'[s] \in Bookkeeping
      /\ link'[s].delivery = link[s].delivery /\ link'[s].completed = link[s].completed
      /\ link'[s].out = link[s].out /\ link'[s].waiting = link[s].waiting
      /\ link'[s].scheduled = link[s].scheduled /\ link'[s].settled = link[s].settled
      /\ link'[s].sentProgress = link[s].sentProgress /\ link'[s].sentMark = link[s].sentMark
      /\ link'[s].ingress = Tail(link[s].ingress)
  BY ONLY <1>2, <1>3 DEF Bookkeeping
<1>5. link' \in [Sides -> Bookkeeping]
  BY <1>4 DEF Drop, Shape
<1>6. Stream(s)' = Tail(link[s].ingress) \o wire[Other(s)]
  BY <1>4 DEF Stream
<1>7. Stream(Other(s))' = Stream(Other(s))
  BY <1>3 DEF Stream
<1> QED BY <1>3, <1>4, <1>5, <1>6, <1>7

\* The answers on their way back do not change.
LEMMA AnswersSame ==
  ASSUME NEW s \in Sides, NEW o \in Sides, o = Other(s), Placed(s),
         link'[o].waiting = link[o].waiting, link'[o].out = link[o].out,
         link'[o].scheduled = link[o].scheduled, co'[s].edges = co[s].edges,
         link'[s].delivery = link[s].delivery, link'[s].completed = link[s].completed,
         wire'[s] = wire[s]
  PROVE  Answers(s)'
<1>1. Here(s)' = Here(s)
  BY DEF Here
<1> QED BY <1>1 DEF Placed, Answers, Answer, Is

\* What is left to show when a message was consumed.
LEMMA ConsumedKeeps ==
  ASSUME IInv, NEW s \in Sides, NEW type, Consuming(s, type), Drop(s),
         pc' = pc, mode' = mode, serial' = serial, open' = open, wire' = wire, fault' = fault,
         co' \in [Sides -> Coordinator], co'[Other(s)] = co[Other(s)], co'[s].local = co[s].local,
         co'[s].permit = co[s].permit,
         fences' \in [Sides -> Fencing], fences'[Other(s)] = fences[Other(s)],
         Bounded(s)', Outstanding(fences[s].sent, fences[s].started)',
         Received(s)', Received(Other(s))', Placed(s)'
  PROVE  IInv'
<1> DEFINE o == Other(s)
<1>1. /\ o \in Sides /\ o # s /\ Other(o) = s
      /\ Shape /\ Own(o) /\ Placed(o) /\ Position(s) /\ Core(s)
  BY Peers, Sidewise
<1>2. /\ link' \in [Sides -> Bookkeeping] /\ link'[o] = link[o]
      /\ link'[s].delivery = link[s].delivery /\ link'[s].completed = link[s].completed
      /\ link'[s].out = link[s].out /\ link'[s].waiting = link[s].waiting
      /\ link'[s].scheduled = link[s].scheduled /\ link'[s].settled = link[s].settled
      /\ link'[s].sentProgress = link[s].sentProgress /\ link'[s].sentMark = link[s].sentMark
      /\ Stream(o)' = Stream(o)
  BY <1>1, Dropped, Opening
<1>3. Shape'
  BY <1>1, <1>2 DEF Shape
<1>4. Own(s)'
  <2>1. Position(s)'
    BY <1>1, <1>2 DEF Position
  <2>2. Core(s)'
    BY <1>1, <1>2 DEF Core, Clocking
  <2> QED BY <2>1, <2>2 DEF Own
<1>5. Own(o)'
  BY <1>1, <1>2, OwnSame
<1>6. Placed(o)'
  BY <1>1, <1>2, PlacedSame
<1> QED BY <1>3, <1>4, <1>5, <1>6, BothSides

\* A progress message is the next one, and the peer never goes back.
LEMMA ConsumeProgressKeeps ==
  ASSUME IInv, NEW s \in Sides, ConsumeProgress(s)
  PROVE  IInv'
<1> DEFINE o == Other(s)
           at == Head1(s).at
           w == Stream(s)
           v == Tail(link[s].ingress) \o wire[o]
<1>1. /\ o \in Sides /\ o # s /\ Other(o) = s
      /\ Shape /\ Received(s) /\ Received(o) /\ Placed(s) /\ Bounded(s)
      /\ Outstanding(fences[s].sent, fences[s].started)
      /\ Consuming(s, "Progress")
  BY Peers, Sidewise DEF ConsumeProgress
<1>2. /\ open[s] /\ link[s].ingress # <<>> /\ Thinned(v, w, 1) /\ w[1] = Head1(s) /\ w[1].type = "Progress"
  BY <1>1, Opening
<1>3. /\ co[s].local \in Nat /\ co[s].permit \in Nat /\ co[s].peer \in Nat /\ co[s].progress \in Nat
      /\ co[s].mark \in Int /\ link[o].sentProgress \in Nat /\ link[o].out \in Nat
      /\ link[o].sentMark \in Int /\ fences[s].seen \in Nat /\ fences[o].started \in Nat
      /\ fences[o].seen \in Nat /\ fences[o].owed \in Seq([id : Nat, through : Nat])
      /\ QuantumCycles \in Nat /\ RearmBudget \in Nat
  BY <1>1, Numbers, Constants
<1>4. /\ Announced(w, co[s].progress, co[s].peer, link[o].sentProgress)
      /\ Numbered(w, co[s].edgeSequence, link[o].out, link[o].scheduled)
      /\ Declared(w, co[s].mark, link[o].sentMark)
      /\ Fenced(w, fences[s].seen, fences[o].started, fences[o].sent)
      /\ Acked(w, fences[o].owed, fences[o].seen, fences[s].sent)
      /\ Owed(fences[o].owed, fences[o].seen, fences[s].sent)
  BY <1>1, <1>2 DEF Received
<1>5. /\ co[s].progress = 0 => at = 0
      /\ co[s].peer <= at /\ at \in Nat
      /\ Announced(v, co[s].progress + 1, at, link[o].sentProgress)
  <2>1. /\ co[s].progress = 0 => w[1].at = 0
        /\ co[s].peer <= w[1].at /\ w[1].at \in Nat
        /\ Announced(v, co[s].progress + 1, w[1].at, link[o].sentProgress)
    <3>1. /\ Thinned(v, w, 1) /\ w[1].type = "Progress"
          /\ co[s].progress \in Nat /\ co[s].peer \in Nat /\ link[o].sentProgress \in Nat
          /\ Announced(w, co[s].progress, co[s].peer, link[o].sentProgress)
      BY <1>2, <1>3, <1>4
    <3> HIDE DEF v, w, o
    <3> QED BY ONLY <3>1, AnnouncedLess
  <2> QED BY <1>2, <2>1
<1>6. /\ Numbered(v, co[s].edgeSequence, link[o].out, link[o].scheduled)
      /\ Asking(v) <=> Asking(w)
  <2> HIDE DEF v, w, o
  <2>1. /\ Thinned(v, w, 1) /\ w[1].type = "Progress"
        /\ link[o].out \in Nat
        /\ Numbered(w, co[s].edgeSequence, link[o].out, link[o].scheduled)
    BY <1>2, <1>3, <1>4
  <2> QED BY ONLY <2>1, NumberedLess
<1>7. /\ Declared(v, co[s].mark, link[o].sentMark)
      /\ Fenced(v, fences[s].seen, fences[o].started, fences[o].sent)
      /\ Acked(v, fences[o].owed, fences[o].seen, fences[s].sent)
  <2> HIDE DEF v, w, o
  <2>1. Declared(v, co[s].mark, link[o].sentMark)
    <3>1. /\ Thinned(v, w, 1) /\ w[1].type = "Progress"
          /\ co[s].mark \in Int /\ link[o].sentMark \in Int
          /\ Declared(w, co[s].mark, link[o].sentMark)
      BY <1>2, <1>3, <1>4
    <3> QED BY ONLY <3>1, DeclaredLess
  <2>2. Fenced(v, fences[s].seen, fences[o].started, fences[o].sent)
    <3>1. /\ Thinned(v, w, 1) /\ w[1].type = "Progress"
          /\ fences[s].seen \in Nat /\ fences[o].started \in Nat
          /\ Fenced(w, fences[s].seen, fences[o].started, fences[o].sent)
      BY <1>2, <1>3, <1>4
    <3> QED BY ONLY <3>1, FencedLess
  <2>3. Acked(v, fences[o].owed, fences[o].seen, fences[s].sent)
    <3>1. /\ Thinned(v, w, 1) /\ w[1].type = "Progress"
          /\ fences[o].seen \in Nat /\ fences[o].owed \in Seq([id : Nat, through : Nat])
          /\ Acked(w, fences[o].owed, fences[o].seen, fences[s].sent)
      BY <1>2, <1>3, <1>4
    <3> QED BY ONLY <3>1, AckedLess
  <2> QED BY <2>1, <2>2, <2>3
<1>8. /\ co' = [co EXCEPT ![s].peer = at, ![s].progress = @ + 1] /\ Drop(s)
      /\ pc' = pc /\ mode' = mode /\ serial' = serial /\ fences' = fences /\ open' = open
      /\ wire' = wire /\ fault' = fault
  BY <1>3, <1>5 DEF ConsumeProgress
<1> HIDE DEF v, w
<1>9. /\ co'[s] = [co[s] EXCEPT !.peer = at, !.progress = @ + 1] /\ co'[o] = co[o]
      /\ co[s] \in Coordinator /\ co[s].progress + 1 \in Nat
  <2>1. co[s] \in Coordinator /\ co[s].progress + 1 \in Nat
    BY SMTT(30), <1>1, <1>3, Typed
  <2> QED BY <1>1, <1>8, <2>1 DEF Shape
<1>10. /\ co'[s] \in Coordinator /\ co'[s].peer = at /\ co'[s].progress = co[s].progress + 1
       /\ co'[s].local = co[s].local /\ co'[s].permit = co[s].permit /\ co'[s].mark = co[s].mark
       /\ co'[s].held = co[s].held /\ co'[s].edges = co[s].edges
       /\ co'[s].episodeOpen = co[s].episodeOpen /\ co'[s].instructions = co[s].instructions
       /\ co'[s].edgeSequence = co[s].edgeSequence
  BY <1>5, <1>9 DEF Coordinator
<1>11. co' \in [Sides -> Coordinator]
  BY <1>1, <1>8, <1>10 DEF Shape
<1>12. /\ link'[o] = link[o] /\ Stream(s)' = v /\ Stream(o)' = Stream(o)
       /\ link'[s].delivery = link[s].delivery /\ link'[s].completed = link[s].completed
       /\ link'[s].out = link[s].out /\ link'[s].waiting = link[s].waiting
       /\ link'[s].scheduled = link[s].scheduled /\ link'[s].settled = link[s].settled
       /\ link'[s].sentProgress = link[s].sentProgress /\ link'[s].sentMark = link[s].sentMark
  BY <1>1, <1>2, <1>8, Dropped DEF v
<1>13. Bounded(s)'
  <2>1. \A l, n, p, q, a, b \in Nat : l + n <= p + a + b /\ p <= q => l + n <= q + a + b
    OBVIOUS
  <2>2. co[s].local + co[s].permit <= at + QuantumCycles + RearmBudget
    <3>1. co[s].local + co[s].permit <= co[s].peer + QuantumCycles + RearmBudget
      BY <1>1 DEF Bounded
    <3> HIDE DEF at
    <3> QED BY <1>3, <1>5, <2>1, <3>1
  <2> QED BY <1>1, <1>10, <1>12, <2>2 DEF Bounded
<1>14. Outstanding(fences[s].sent, fences[s].started)'
  BY <1>1, <1>8 DEF Outstanding
<1>15. Received(s)'
  <2>1. at <= link[o].sentProgress
    BY <1>5 DEF Announced
  <2>2. (co[s].peer <= link[o].sentProgress)'
    BY <1>10, <1>12, <2>1
  <2>3. Owed(fences[o].owed, fences[o].seen, fences[s].sent)'
    BY <1>4, <1>8 DEF Owed
  <2>4. Announced(Stream(s), co[s].progress, co[s].peer, link[o].sentProgress)'
    BY <1>5, <1>10, <1>12 DEF Announced, Is
  <2>5. Numbered(Stream(s), co[s].edgeSequence, link[o].out, link[o].scheduled)'
    BY <1>6, <1>10, <1>12 DEF Numbered, Is, Through, Asking
  <2>6. Declared(Stream(s), co[s].mark, link[o].sentMark)'
    BY <1>7, <1>10, <1>12 DEF Declared, Is
  <2>7. Fenced(Stream(s), fences[s].seen, fences[o].started, fences[o].sent)'
    BY <1>7, <1>8, <1>12 DEF Fenced, Is
  <2>8. Acked(Stream(s), fences[o].owed, fences[o].seen, fences[s].sent)'
    BY <1>7, <1>8, <1>12 DEF Acked, Is
  <2> QED BY <2>2, <2>3, <2>4, <2>5, <2>6, <2>7, <2>8 DEF Received
<1>16. Received(o)'
  BY <1>1, <1>8, <1>9, <1>12, ReceivedSame
<1>17. Placed(s)'
  <2>1. Answers(s)'
    BY <1>1, <1>8, <1>10, <1>12, AnswersSame
  <2>2. open'[s] => open[s] /\ (Asking(Stream(s))' => Asking(Stream(s)))
    BY <1>6, <1>8, <1>12 DEF w, Asking, Is
  <2> QED BY <1>1, <1>10, <1>12, <2>1, <2>2, PlacedStill
<1> HIDE DEF at
<1> QED BY <1>1, <1>8, <1>9, <1>10, <1>11, <1>13, <1>14, <1>15, <1>16, <1>17, ConsumedKeeps DEF Shape

\* Something is counted up to only one number.
LEMMA Upto ==
  ASSUME NEW n \in Nat, n > 0
  PROVE  1..n # 1..(n - 1)
<1>1. n \in 1..n /\ n \notin 1..(n - 1)
  OBVIOUS
<1> QED BY <1>1

\* An edge is the next one, lies beyond what was declared complete, and comes
\* in time for the instruction that ends the farthest.
LEMMA ConsumeEdgeRequestKeeps ==
  ASSUME IInv, NEW s \in Sides, ConsumeEdgeRequest(s)
  PROVE  IInv'
<1> DEFINE o == Other(s)
           l == link[o]
           at == Head1(s).at
           id == Head1(s).id
           edge == [at |-> at, seq |-> id]
           w == Stream(s)
           v == Tail(link[s].ingress) \o wire[o]
<1>1. /\ o \in Sides /\ o # s /\ Other(o) = s
      /\ Shape /\ Received(s) /\ Received(o) /\ Placed(s) /\ Bounded(s)
      /\ Outstanding(fences[s].sent, fences[s].started)
      /\ Consuming(s, "EdgeRequest")
  BY Peers, Sidewise DEF ConsumeEdgeRequest
<1>2. /\ open[s] /\ link[s].ingress # <<>> /\ Thinned(v, w, 1) /\ w[1] = Head1(s)
      /\ w[1].type = "EdgeRequest" /\ co[s].permit = 0 /\ id \in Nat /\ at \in Nat
  BY <1>1, Opening, Fields
<1>3. /\ co[s].local \in Nat /\ co[s].peer \in Nat /\ co[s].progress \in Nat
      /\ co[s].mark \in Int /\ co[s].mark >= -1 /\ link[o].sentProgress \in Nat /\ link[o].out \in Nat
      /\ link[o].sentMark \in Int /\ fences[s].seen \in Nat /\ fences[o].started \in Nat
      /\ fences[o].seen \in Nat /\ fences[o].owed \in Seq([id : Nat, through : Nat])
      /\ MaxEdgeLateness \in Nat /\ link[o].waiting \in Nat
  <2>1. \A m \in Nat \cup {-1} : m >= -1
    OBVIOUS
  <2>2. co[s].mark \in Nat \cup {-1}
    BY <1>1, Numbers
  <2>3. co[s].mark >= -1
    BY <2>1, <2>2
  <2> QED BY <1>1, <2>3, Numbers, Constants
<1>4. /\ Announced(w, co[s].progress, co[s].peer, link[o].sentProgress)
      /\ Numbered(w, co[s].edgeSequence, link[o].out, link[o].scheduled)
      /\ Declared(w, co[s].mark, link[o].sentMark)
      /\ Fenced(w, fences[s].seen, fences[o].started, fences[o].sent)
      /\ Acked(w, fences[o].owed, fences[o].seen, fences[s].sent)
      /\ Owed(fences[o].owed, fences[o].seen, fences[s].sent)
  BY <1>1, <1>2 DEF Received
<1>5. /\ Asking(w) /\ ~Asking(v)
      /\ id = l.out /\ co[s].edgeSequence = l.out - 1 /\ at = l.scheduled
      /\ Numbered(v, l.out, l.out, l.scheduled)
  <2>1. /\ Asking(w) /\ ~Asking(v)
        /\ w[1].id = link[o].out /\ co[s].edgeSequence = link[o].out - 1 /\ w[1].at = link[o].scheduled
        /\ Numbered(v, link[o].out, link[o].out, link[o].scheduled)
    <3> HIDE DEF v, w
    <3>1. Thinned(v, w, 1) /\ w[1].type = "EdgeRequest" /\ link[o].out \in Nat
          /\ Numbered(w, co[s].edgeSequence, link[o].out, link[o].scheduled)
      BY <1>2, <1>3, <1>4
    <3> QED BY ONLY <3>1, NumberedLess
  <2> QED BY <1>2, <2>1
<1>6. /\ Announced(v, co[s].progress, co[s].peer, link[o].sentProgress)
      /\ Declared(v, co[s].mark, link[o].sentMark) /\ co[s].mark < w[1].at
      /\ Fenced(v, fences[s].seen, fences[o].started, fences[o].sent)
      /\ Acked(v, fences[o].owed, fences[o].seen, fences[s].sent)
  <2> HIDE DEF v, w, o
  <2>1. Announced(v, co[s].progress, co[s].peer, link[o].sentProgress)
    <3>1. /\ Thinned(v, w, 1) /\ w[1].type = "EdgeRequest"
          /\ co[s].progress \in Nat /\ co[s].peer \in Nat /\ link[o].sentProgress \in Nat
          /\ Announced(w, co[s].progress, co[s].peer, link[o].sentProgress)
      BY <1>2, <1>3, <1>4
    <3> QED BY ONLY <3>1, AnnouncedLess
  <2>2. Declared(v, co[s].mark, link[o].sentMark) /\ co[s].mark < w[1].at
    <3>1. /\ Thinned(v, w, 1) /\ w[1].type = "EdgeRequest"
          /\ co[s].mark \in Int /\ link[o].sentMark \in Int
          /\ Declared(w, co[s].mark, link[o].sentMark)
      BY <1>2, <1>3, <1>4
    <3> QED BY ONLY <3>1, DeclaredLess
  <2>3. Fenced(v, fences[s].seen, fences[o].started, fences[o].sent)
    <3>1. /\ Thinned(v, w, 1) /\ w[1].type = "EdgeRequest"
          /\ fences[s].seen \in Nat /\ fences[o].started \in Nat
          /\ Fenced(w, fences[s].seen, fences[o].started, fences[o].sent)
      BY <1>2, <1>3, <1>4
    <3> QED BY ONLY <3>1, FencedLess
  <2>4. Acked(v, fences[o].owed, fences[o].seen, fences[s].sent)
    <3>1. /\ Thinned(v, w, 1) /\ w[1].type = "EdgeRequest"
          /\ fences[o].seen \in Nat /\ fences[o].owed \in Seq([id : Nat, through : Nat])
          /\ Acked(w, fences[o].owed, fences[o].seen, fences[s].sent)
      BY <1>2, <1>3, <1>4
    <3> QED BY ONLY <3>1, AckedLess
  <2> QED BY <2>1, <2>2, <2>3, <2>4
<1>7. co[s].mark < at
  BY <1>2, <1>6
<1> HIDE DEF v, w
<1>8. edge = EdgeOf(l) /\ edge \in Edge
  BY <1>2, <1>5 DEF EdgeOf, Edge
<1>9. co[s].local <= at + MaxEdgeLateness
  <2>1. co[s].local + co[s].permit = co[s].local
    BY <1>2, <1>3
  <2>2. co[s].local <= co[s].mark + MaxEdgeLateness \/ co[s].local = 0
    BY <1>1, <2>1 DEF Bounded
  <2> HIDE DEF at
  <2> QED BY SMTT(30), <1>2, <1>3, <1>7, <2>2
<1>10. ~Late(edge, co[s].local)
  <2> HIDE DEF at
  <2> QED BY <1>2, <1>3, <1>9 DEF Late
<1>11. edge.seq = co[s].edgeSequence + 1 /\ ~(edge.at <= co[s].mark)
  <2>1. edge.seq = l.out /\ l.out \in Nat
    BY <1>3, <1>5
  <2>2. edge.at = at
    OBVIOUS
  <2>3. at \in Nat /\ co[s].mark \in Int /\ co[s].mark < at /\ co[s].edgeSequence = l.out - 1
    BY <1>2, <1>3, <1>5, <1>7
  <2> HIDE DEF at, l, edge
  <2>4. edge.seq = co[s].edgeSequence + 1
    BY ONLY <2>1, <2>3
  <2>5. ~(edge.at <= co[s].mark)
    BY ONLY <2>2, <2>3
  <2> QED BY <2>4, <2>5
<1>12. /\ co' = [co EXCEPT ![s].edges = @ \cup {edge}, ![s].edgeSequence = edge.seq,
                           ![s].lastEdgeAt = edge.at]
       /\ Drop(s)
       /\ pc' = pc /\ mode' = mode /\ serial' = serial /\ fences' = fences /\ open' = open
       /\ wire' = wire /\ fault' = fault
  BY <1>10, <1>11 DEF ConsumeEdgeRequest
<1>13. /\ l.waiting # 0 /\ l.out > 0 /\ link[s].completed = 1..(l.out - 1) /\ Here(s) = {}
       /\ co[s].edges = {}
  <2>1. Asking(Stream(s))
    BY <1>5 DEF w
  <2>2. l.waiting # 0 /\ l.out > 0 /\ link[s].completed = 1..(l.out - 1)
    BY <1>1, <1>2, <2>1 DEF Placed
  <2>3. co[s].edgeSequence # l.out
    BY <1>3, <1>5
  <2>4. Here(s) = {}
    BY <1>1, <2>3 DEF Placed
  <2> QED BY <2>2, <2>4 DEF Here
<1>14. /\ co'[s].edges = {edge} /\ co'[s].edgeSequence = l.out /\ co'[s] \in Coordinator /\ co'[o] = co[o]
       /\ co'[s].peer = co[s].peer /\ co'[s].progress = co[s].progress
       /\ co'[s].local = co[s].local /\ co'[s].permit = co[s].permit /\ co'[s].mark = co[s].mark
       /\ co'[s].held = co[s].held
       /\ co'[s].episodeOpen = co[s].episodeOpen /\ co'[s].instructions = co[s].instructions
  <2>1. co[s] \in Coordinator
    BY <1>1, Typed
  <2>2. co'[s] = [co[s] EXCEPT !.edges = @ \cup {edge}, !.edgeSequence = edge.seq, !.lastEdgeAt = edge.at]
        /\ co'[o] = co[o]
    BY <1>1, <1>12 DEF Shape
  <2>3. /\ edge.seq = l.out /\ edge.seq \in Nat /\ edge.at \in Nat /\ co[s].edges \cup {edge} = {edge}
        /\ {edge} \in SUBSET Edge
    BY <1>2, <1>5, <1>8, <1>13
  <2> HIDE DEF edge, l
  <2>4. co'[s] = [co[s] EXCEPT !.edges = {edge}, !.edgeSequence = edge.seq, !.lastEdgeAt = edge.at]
    BY <2>2, <2>3
  <2> QED BY ONLY ZenonT(60), <2>1, <2>2, <2>3, <2>4 DEF Coordinator
<1>15. co' \in [Sides -> Coordinator]
  BY <1>1, <1>12, <1>14 DEF Shape
<1>16. /\ link'[o] = link[o] /\ Stream(s)' = v /\ Stream(o)' = Stream(o)
       /\ link'[s].delivery = link[s].delivery /\ link'[s].completed = link[s].completed
       /\ link'[s].out = link[s].out /\ link'[s].waiting = link[s].waiting
       /\ link'[s].scheduled = link[s].scheduled /\ link'[s].settled = link[s].settled
       /\ link'[s].sentProgress = link[s].sentProgress /\ link'[s].sentMark = link[s].sentMark
  BY <1>1, <1>2, <1>12, Dropped DEF v
<1>17. Bounded(s)'
  <2>1. co[s].local + co[s].permit = co[s].local
    BY <1>2, <1>3
  <2>2. \A e \in co'[s].held \cup co'[s].edges : co[s].local + co[s].permit <= e.at + MaxEdgeLateness
    <3>1. \A e \in co[s].held : co[s].local + co[s].permit <= e.at + MaxEdgeLateness
      BY <1>1 DEF Bounded
    <3>2. \A e \in {edge} : co[s].local <= e.at + MaxEdgeLateness
      BY <1>9
    <3> HIDE DEF edge
    <3> QED BY <1>14, <2>1, <3>1, <3>2
  <2> QED BY <1>1, <1>14, <1>16, <2>2 DEF Bounded
<1>18. Outstanding(fences[s].sent, fences[s].started)'
  BY <1>1, <1>12 DEF Outstanding
<1>19. Received(s)'
  <2>1. (co[s].peer <= link[o].sentProgress)'
    BY <1>1, <1>14, <1>16 DEF Received
  <2>2. Owed(fences[o].owed, fences[o].seen, fences[s].sent)'
    BY <1>4, <1>12 DEF Owed
  <2>3. Announced(Stream(s), co[s].progress, co[s].peer, link[o].sentProgress)'
    BY <1>6, <1>14, <1>16 DEF Announced, Is
  <2>4. Numbered(Stream(s), co[s].edgeSequence, link[o].out, link[o].scheduled)'
    BY <1>5, <1>14, <1>16 DEF Numbered, Is, Through, Asking
  <2>5. Declared(Stream(s), co[s].mark, link[o].sentMark)'
    BY <1>6, <1>14, <1>16 DEF Declared, Is
  <2>6. Fenced(Stream(s), fences[s].seen, fences[o].started, fences[o].sent)'
    BY <1>6, <1>12, <1>16 DEF Fenced, Is
  <2>7. Acked(Stream(s), fences[o].owed, fences[o].seen, fences[s].sent)'
    BY <1>6, <1>12, <1>16 DEF Acked, Is
  <2> QED BY <2>1, <2>2, <2>3, <2>4, <2>5, <2>6, <2>7 DEF Received
<1>20. Received(o)'
  BY <1>1, <1>12, <1>14, <1>16, ReceivedSame
<1>21. Placed(s)'
  <2>1. \A i \in DOMAIN wire[s] : ~Is(wire[s], i, "EdgeResponse")
    <3>1. link[s].completed # 1..l.out
      BY <1>3, <1>13, Upto
    <3> QED BY <1>1, <3>1 DEF Placed, Answer
  <2>2. ~Asking(Stream(s))'
    BY <1>5, <1>16 DEF Asking, Is
  <2>3. Here(s)' = {edge} /\ co'[s].edges \cap link'[s].delivery = {}
    <3>1. link[s].delivery = {}
      BY <1>13 DEF Here
    <3> QED BY <1>14, <1>16, <3>1 DEF Here
  <2>4. EdgeOf(link[o])' = edge
    BY <1>8, <1>16 DEF EdgeOf
  <2>5. l.waiting \in {0, l.out}
    BY <1>1 DEF Placed
  <2>6. /\ link'[o] = l /\ link'[s].completed = 1..(l.out - 1) /\ co'[s].edgeSequence = l.out
        /\ wire'[s] = wire[s] /\ l.waiting # 0 /\ l.out > 0
    BY <1>12, <1>13, <1>14, <1>16
  <2>7. \A i \in DOMAIN wire'[s] : ~Is(wire[s], i, "EdgeResponse")'
    BY <2>1, <2>6 DEF Is
  <2> HIDE DEF edge
  <2> QED BY <1>1, <2>2, <2>3, <2>4, <2>5, <2>6, <2>7 DEF Placed
<1> HIDE DEF at
<1> QED BY <1>1, <1>12, <1>14, <1>15, <1>17, <1>18, <1>19, <1>20, <1>21, ConsumedKeeps DEF Shape

\* A watermark comes after the edges it includes, and never goes back.
LEMMA ConsumeEmissionCompleteKeeps ==
  ASSUME IInv, NEW s \in Sides, ConsumeEmissionComplete(s)
  PROVE  IInv'
<1> DEFINE o == Other(s)
           at == Head1(s).at
           id == Head1(s).id
           w == Stream(s)
           v == Tail(link[s].ingress) \o wire[o]
<1>1. /\ o \in Sides /\ o # s /\ Other(o) = s
      /\ Shape /\ Received(s) /\ Received(o) /\ Placed(s) /\ Bounded(s)
      /\ Outstanding(fences[s].sent, fences[s].started)
      /\ Consuming(s, "EmissionComplete")
  BY Peers, Sidewise DEF ConsumeEmissionComplete
<1>2. /\ open[s] /\ link[s].ingress # <<>> /\ Thinned(v, w, 1) /\ w[1] = Head1(s)
      /\ w[1].type = "EmissionComplete" /\ co[s].permit = 0 /\ id \in Nat /\ at \in Nat
  BY <1>1, Opening, Fields
<1>3. /\ co[s].local \in Nat /\ co[s].peer \in Nat /\ co[s].progress \in Nat /\ co[s].permit \in Nat
      /\ co[s].mark \in Int /\ link[o].sentProgress \in Nat /\ link[o].out \in Nat
      /\ link[o].sentMark \in Int /\ fences[s].seen \in Nat /\ fences[o].started \in Nat
      /\ fences[o].seen \in Nat /\ fences[o].owed \in Seq([id : Nat, through : Nat])
      /\ MaxEdgeLateness \in Nat
  BY <1>1, Numbers, Constants
<1>4. /\ Announced(w, co[s].progress, co[s].peer, link[o].sentProgress)
      /\ Numbered(w, co[s].edgeSequence, link[o].out, link[o].scheduled)
      /\ Declared(w, co[s].mark, link[o].sentMark)
      /\ Fenced(w, fences[s].seen, fences[o].started, fences[o].sent)
      /\ Acked(w, fences[o].owed, fences[o].seen, fences[s].sent)
      /\ Owed(fences[o].owed, fences[o].seen, fences[s].sent)
  BY <1>1, <1>2 DEF Received
<1>5. /\ Announced(v, co[s].progress, co[s].peer, link[o].sentProgress)
      /\ Numbered(v, co[s].edgeSequence, link[o].out, link[o].scheduled)
      /\ Asking(v) <=> Asking(w)
      /\ w[1].id = co[s].edgeSequence
      /\ co[s].mark <= w[1].at /\ w[1].at <= link[o].sentMark
      /\ Declared(v, w[1].at, link[o].sentMark)
      /\ Fenced(v, fences[s].seen, fences[o].started, fences[o].sent)
      /\ Acked(v, fences[o].owed, fences[o].seen, fences[s].sent)
  <2> HIDE DEF v, w
  <2>1. Announced(v, co[s].progress, co[s].peer, link[o].sentProgress)
    <3>1. /\ Thinned(v, w, 1) /\ w[1].type = "EmissionComplete"
          /\ co[s].progress \in Nat /\ co[s].peer \in Nat /\ link[o].sentProgress \in Nat
          /\ Announced(w, co[s].progress, co[s].peer, link[o].sentProgress)
      BY <1>2, <1>3, <1>4
    <3> QED BY ONLY <3>1, AnnouncedLess
  <2>2. /\ Numbered(v, co[s].edgeSequence, link[o].out, link[o].scheduled)
        /\ Asking(v) <=> Asking(w)
        /\ w[1].id = co[s].edgeSequence
    <3>1. Thinned(v, w, 1) /\ w[1].type = "EmissionComplete" /\ link[o].out \in Nat
          /\ Numbered(w, co[s].edgeSequence, link[o].out, link[o].scheduled)
      BY <1>2, <1>3, <1>4
    <3> QED BY ONLY <3>1, NumberedLess
  <2>3. /\ co[s].mark <= w[1].at /\ w[1].at <= link[o].sentMark
        /\ Declared(v, w[1].at, link[o].sentMark)
    <3>1. /\ Thinned(v, w, 1) /\ w[1].type = "EmissionComplete"
          /\ co[s].mark \in Int /\ link[o].sentMark \in Int
          /\ Declared(w, co[s].mark, link[o].sentMark)
      BY <1>2, <1>3, <1>4
    <3> QED BY ONLY <3>1, DeclaredLess
  <2>4. Fenced(v, fences[s].seen, fences[o].started, fences[o].sent)
    <3>1. /\ Thinned(v, w, 1) /\ w[1].type = "EmissionComplete"
          /\ fences[s].seen \in Nat /\ fences[o].started \in Nat
          /\ Fenced(w, fences[s].seen, fences[o].started, fences[o].sent)
      BY <1>2, <1>3, <1>4
    <3> QED BY ONLY <3>1, FencedLess
  <2>5. Acked(v, fences[o].owed, fences[o].seen, fences[s].sent)
    <3>1. /\ Thinned(v, w, 1) /\ w[1].type = "EmissionComplete"
          /\ fences[o].seen \in Nat /\ fences[o].owed \in Seq([id : Nat, through : Nat])
          /\ Acked(w, fences[o].owed, fences[o].seen, fences[s].sent)
      BY <1>2, <1>3, <1>4
    <3> QED BY ONLY <3>1, AckedLess
  <2> QED BY <2>1, <2>2, <2>3, <2>4, <2>5
<1>6. co[s].mark <= at /\ id = co[s].edgeSequence /\ Declared(v, at, link[o].sentMark)
  BY <1>2, <1>5
<1>7. /\ co' = [co EXCEPT ![s].mark = at, ![s].markSequence = id] /\ Drop(s)
      /\ pc' = pc /\ mode' = mode /\ serial' = serial /\ fences' = fences /\ open' = open
      /\ wire' = wire /\ fault' = fault
  BY <1>2, <1>3, <1>6 DEF ConsumeEmissionComplete
<1> HIDE DEF v, w, at, id
<1>8. /\ co'[s] = [co[s] EXCEPT !.mark = at, !.markSequence = id] /\ co'[o] = co[o]
      /\ co[s] \in Coordinator
  BY <1>1, <1>7, Typed DEF Shape
<1>9. /\ co'[s] \in Coordinator /\ co'[s].mark = at
      /\ co'[s].peer = co[s].peer /\ co'[s].progress = co[s].progress
      /\ co'[s].local = co[s].local /\ co'[s].permit = co[s].permit
      /\ co'[s].held = co[s].held /\ co'[s].edges = co[s].edges
      /\ co'[s].episodeOpen = co[s].episodeOpen /\ co'[s].instructions = co[s].instructions
      /\ co'[s].edgeSequence = co[s].edgeSequence
  <2>1. id \in Nat /\ at \in Nat
    BY <1>2
  <2> QED BY ONLY <2>1, <1>8 DEF Coordinator
<1>10. co' \in [Sides -> Coordinator]
  BY <1>1, <1>7, <1>9 DEF Shape
<1>11. /\ link'[o] = link[o] /\ Stream(s)' = v /\ Stream(o)' = Stream(o)
       /\ link'[s].delivery = link[s].delivery /\ link'[s].completed = link[s].completed
       /\ link'[s].out = link[s].out /\ link'[s].waiting = link[s].waiting
       /\ link'[s].scheduled = link[s].scheduled /\ link'[s].settled = link[s].settled
       /\ link'[s].sentProgress = link[s].sentProgress /\ link'[s].sentMark = link[s].sentMark
  BY <1>1, <1>2, <1>7, Dropped DEF v
<1>12. Bounded(s)'
  <2>1. \A l, n, b \in Nat, m, a \in Int : (l + n <= m + b \/ l + n = 0) /\ m <= a => l + n <= a + b \/ l + n = 0
    OBVIOUS
  <2>2. co[s].local + co[s].permit <= co[s].mark + MaxEdgeLateness \/ co[s].local + co[s].permit = 0
    BY <1>1 DEF Bounded
  <2>3. co[s].local + co[s].permit <= at + MaxEdgeLateness \/ co[s].local + co[s].permit = 0
    BY <1>2, <1>3, <1>6, <2>1, <2>2
  <2> QED BY <1>1, <1>9, <1>11, <2>3 DEF Bounded
<1>13. Outstanding(fences[s].sent, fences[s].started)'
  BY <1>1, <1>7 DEF Outstanding
<1>14. Received(s)'
  <2>1. (co[s].peer <= link[o].sentProgress)'
    BY <1>1, <1>9, <1>11 DEF Received
  <2>2. Owed(fences[o].owed, fences[o].seen, fences[s].sent)'
    BY <1>4, <1>7 DEF Owed
  <2>3. Announced(Stream(s), co[s].progress, co[s].peer, link[o].sentProgress)'
    BY <1>5, <1>9, <1>11 DEF Announced, Is
  <2>4. Numbered(Stream(s), co[s].edgeSequence, link[o].out, link[o].scheduled)'
    BY <1>5, <1>9, <1>11 DEF Numbered, Is, Through, Asking
  <2>5. Declared(Stream(s), co[s].mark, link[o].sentMark)'
    BY <1>6, <1>9, <1>11 DEF Declared, Is
  <2>6. Fenced(Stream(s), fences[s].seen, fences[o].started, fences[o].sent)'
    BY <1>5, <1>7, <1>11 DEF Fenced, Is
  <2>7. Acked(Stream(s), fences[o].owed, fences[o].seen, fences[s].sent)'
    BY <1>5, <1>7, <1>11 DEF Acked, Is
  <2> QED BY <2>1, <2>2, <2>3, <2>4, <2>5, <2>6, <2>7 DEF Received
<1>15. Received(o)'
  BY <1>1, <1>7, <1>8, <1>11, ReceivedSame
<1>16. Placed(s)'
  <2>1. Answers(s)'
    BY <1>1, <1>7, <1>9, <1>11, AnswersSame
  <2>2. open'[s] => open[s] /\ (Asking(Stream(s))' => Asking(Stream(s)))
    BY <1>5, <1>7, <1>11 DEF w, Asking, Is
  <2> QED BY <1>1, <1>9, <1>11, <2>1, <2>2, PlacedStill
<1> QED BY <1>1, <1>7, <1>8, <1>9, <1>10, <1>12, <1>13, <1>14, <1>15, <1>16, ConsumedKeeps DEF Shape

\* How many numbers there are from one on.
LEMMA Counted ==
  ASSUME NEW n \in Nat
  PROVE  IsFiniteSet(1..n) /\ Cardinality(1..n) = n
<1>1. \A a \in Int : /\ IsFiniteSet(a..n)
                     /\ Cardinality(a..n) = IF a > n THEN 0 ELSE n - a + 1
  BY FS_Interval
<1>2. Cardinality(1..n) = IF 1 > n THEN 0 ELSE n - 1 + 1
  BY <1>1
<1> QED BY <1>1, <1>2

\* A side has room for the fence it consumes: every fence it owes, and this
\* one, is one of those the other side may have outstanding.
LEMMA RoomForFence ==
  ASSUME NEW owed \in Seq([id : Nat, through : Nat]), NEW seen \in Nat, NEW sent, NEW m,
         Owed(owed, seen, sent), IsFiniteSet(sent), Cardinality(sent) <= Capacity,
         Sent(m) \in sent, \A i \in DOMAIN owed : owed[i].id # m.id
  PROVE  Len(owed) < Capacity
<1> DEFINE n == Len(owed)
           f == [i \in 1..n |-> Sent(owed[i])]
           T == sent \ {Sent(m)}
<1>1. n \in Nat /\ DOMAIN owed = 1..n
  BY LenProperties
<1>2. \A i \in 1..n : owed[i] \in [id : Nat, through : Nat]
  BY ElementOfSeq
<1>3. \A i \in 1..n : owed[i].id \in Nat
  BY <1>2
<1>4. \A i \in 1..n : Sent(owed[i]) \in T
  BY <1>1 DEF Owed, Sent
<1>5. \A i, j \in 1..n : i < j => owed[i].id < owed[j].id
  BY <1>1 DEF Owed
<1>6. \A i, j \in 1..n : Sent(owed[i]) = Sent(owed[j]) => owed[i].id = owed[j].id
  BY DEF Sent
<1> HIDE DEF n
<1>7. \A i, j \in 1..n : Sent(owed[i]) = Sent(owed[j]) => i = j
  <2> SUFFICES ASSUME NEW i \in 1..n, NEW j \in 1..n, owed[i].id = owed[j].id PROVE i = j
    BY <1>6
  <2>1. i < j \/ j < i \/ i = j
    BY <1>1
  <2>2. ~(i < j) /\ ~(j < i)
    BY <1>3, <1>5
  <2> QED BY <2>1, <2>2
<1>8. f \in Injection(1..n, T)
  BY <1>4, <1>7 DEF Injection, IsInjective
<1>9. IsFiniteSet(T) /\ Cardinality(T) = Cardinality(sent) - 1 /\ Cardinality(sent) \in Nat
  BY FS_RemoveElement, FS_CardinalityType
<1> HIDE DEF f, T
<1>10. Cardinality(1..n) <= Cardinality(T)
  BY <1>8, <1>9, FS_Injection
<1>11. n <= Cardinality(sent) - 1
  BY <1>1, <1>9, <1>10, Counted
<1> QED BY <1>1, <1>9, <1>11, Constants DEF n

\* A fence is the next one, covers the edges it should, and there is room to
\* owe it.
LEMMA ConsumeFenceKeeps ==
  ASSUME IInv, NEW s \in Sides, ConsumeFence(s)
  PROVE  IInv'
<1> DEFINE o == Other(s)
           f == fences[s]
           m == Head1(s)
           w == Stream(s)
           v == Tail(link[s].ingress) \o wire[o]
           debt == [id |-> m.id, through |-> m.through]
<1>1. /\ o \in Sides /\ o # s /\ Other(o) = s
      /\ Shape /\ Received(s) /\ Received(o) /\ Placed(s) /\ Bounded(s)
      /\ Outstanding(fences[s].sent, fences[s].started)
      /\ Outstanding(fences[o].sent, fences[o].started)
      /\ Consuming(s, "Fence")
  BY Peers, Sidewise DEF ConsumeFence
<1>2. /\ open[s] /\ link[s].ingress # <<>> /\ Thinned(v, w, 1) /\ w[1] = m
      /\ w[1].type = "Fence" /\ m.id \in Nat /\ m.through \in Nat
  BY <1>1, Opening, Fields
<1>3. /\ co[s].peer \in Nat /\ co[s].progress \in Nat
      /\ co[s].mark \in Int /\ link[o].sentProgress \in Nat /\ link[o].out \in Nat
      /\ link[o].sentMark \in Int /\ f.seen \in Nat /\ fences[o].started \in Nat
      /\ fences[o].seen \in Nat /\ fences[o].owed \in Seq([id : Nat, through : Nat])
      /\ f.owed \in Seq([id : Nat, through : Nat]) /\ f \in Fencing
  BY <1>1, Numbers, Typed
<1>4. /\ Announced(w, co[s].progress, co[s].peer, link[o].sentProgress)
      /\ Numbered(w, co[s].edgeSequence, link[o].out, link[o].scheduled)
      /\ Declared(w, co[s].mark, link[o].sentMark)
      /\ Fenced(w, fences[s].seen, fences[o].started, fences[o].sent)
      /\ Acked(w, fences[o].owed, fences[o].seen, fences[s].sent)
      /\ Owed(fences[o].owed, fences[o].seen, fences[s].sent)
      /\ Owed(f.owed, f.seen, fences[o].sent)
  BY <1>1, <1>2 DEF Received
<1>5. /\ Announced(v, co[s].progress, co[s].peer, link[o].sentProgress)
      /\ Numbered(v, co[s].edgeSequence, link[o].out, link[o].scheduled)
      /\ Asking(v) <=> Asking(w)
      /\ w[1].through = co[s].edgeSequence
      /\ Declared(v, co[s].mark, link[o].sentMark)
      /\ w[1].id = f.seen + 1 /\ Sent(w[1]) \in fences[o].sent
      /\ Fenced(v, f.seen + 1, fences[o].started, fences[o].sent)
      /\ Acked(v, fences[o].owed, fences[o].seen, fences[s].sent)
  <2> HIDE DEF v, w, f
  <2>1. Announced(v, co[s].progress, co[s].peer, link[o].sentProgress)
    <3>1. /\ Thinned(v, w, 1) /\ w[1].type = "Fence"
          /\ co[s].progress \in Nat /\ co[s].peer \in Nat /\ link[o].sentProgress \in Nat
          /\ Announced(w, co[s].progress, co[s].peer, link[o].sentProgress)
      BY <1>2, <1>3, <1>4
    <3> QED BY ONLY <3>1, AnnouncedLess
  <2>2. /\ Numbered(v, co[s].edgeSequence, link[o].out, link[o].scheduled)
        /\ Asking(v) <=> Asking(w)
        /\ w[1].through = co[s].edgeSequence
    <3>1. Thinned(v, w, 1) /\ w[1].type = "Fence" /\ link[o].out \in Nat
          /\ Numbered(w, co[s].edgeSequence, link[o].out, link[o].scheduled)
      BY <1>2, <1>3, <1>4
    <3> QED BY ONLY <3>1, NumberedLess
  <2>3. Declared(v, co[s].mark, link[o].sentMark)
    <3>1. /\ Thinned(v, w, 1) /\ w[1].type = "Fence"
          /\ co[s].mark \in Int /\ link[o].sentMark \in Int
          /\ Declared(w, co[s].mark, link[o].sentMark)
      BY <1>2, <1>3, <1>4
    <3> QED BY ONLY <3>1, DeclaredLess
  <2>4. /\ w[1].id = f.seen + 1 /\ Sent(w[1]) \in fences[o].sent
        /\ Fenced(v, f.seen + 1, fences[o].started, fences[o].sent)
    <3>1. Thinned(v, w, 1) /\ w[1].type = "Fence" /\ f.seen \in Nat /\ fences[o].started \in Nat
          /\ Fenced(w, f.seen, fences[o].started, fences[o].sent)
      BY <1>2, <1>3, <1>4 DEF f
    <3> QED BY ONLY <3>1, FencedLess
  <2>5. Acked(v, fences[o].owed, fences[o].seen, fences[s].sent)
    <3>1. /\ Thinned(v, w, 1) /\ w[1].type = "Fence"
          /\ fences[o].seen \in Nat /\ fences[o].owed \in Seq([id : Nat, through : Nat])
          /\ Acked(w, fences[o].owed, fences[o].seen, fences[s].sent)
      BY <1>2, <1>3, <1>4
    <3> QED BY ONLY <3>1, AckedLess
  <2> QED BY <2>1, <2>2, <2>3, <2>4, <2>5
<1>6. m.id = f.seen + 1 /\ Sent(m) \in fences[o].sent /\ m.through = co[s].edgeSequence
  BY <1>2, <1>5
<1> HIDE DEF v, w, m
<1>7. \A i \in DOMAIN f.owed : i \in 1..Len(f.owed) /\ f.owed[i].id <= f.seen /\ f.owed[i].id \in Nat /\ f.owed[i].id # m.id
  <2>1. \A i \in DOMAIN f.owed : f.owed[i].id <= f.seen
    BY <1>4 DEF Owed
  <2>2. \A i \in 1..Len(f.owed) : f.owed[i] \in [id : Nat, through : Nat]
    BY <1>3, ElementOfSeq
  <2>3. DOMAIN f.owed = 1..Len(f.owed)
    BY <1>3, LenProperties
  <2>4. \A i \in DOMAIN f.owed : f.owed[i].id \in Nat
    BY <2>2, <2>3
  <2> HIDE DEF f
  <2>5. \A i \in DOMAIN f.owed : f.owed[i].id # m.id
    BY <1>3, <1>6, <2>1, <2>4
  <2> QED BY <2>1, <2>3, <2>4, <2>5
<1>8. Len(f.owed) < Capacity
  <2> HIDE DEF f
  <2> QED BY <1>1, <1>3, <1>4, <1>6, <1>7, RoomForFence DEF Outstanding
<1>9. /\ fences' = [fences EXCEPT ![s].seen = m.id, ![s].owed = Append(@, debt)] /\ Drop(s)
      /\ pc' = pc /\ mode' = mode /\ co' = co /\ serial' = serial /\ open' = open
      /\ wire' = wire /\ fault' = fault
  BY <1>6, <1>8 DEF ConsumeFence, m
<1>10. debt \in [id : Nat, through : Nat] /\ debt.id = m.id /\ debt.through = m.through
  BY <1>2
<1> HIDE DEF debt
<1> DEFINE owed == Append(f.owed, debt)
<1>11. /\ owed \in Seq([id : Nat, through : Nat]) /\ Len(owed) = Len(f.owed) + 1
       /\ \A i \in 1..Len(f.owed) : owed[i] = f.owed[i]
       /\ owed[Len(f.owed) + 1] = debt /\ DOMAIN owed = 1..(Len(f.owed) + 1) /\ Len(f.owed) \in Nat
       /\ DOMAIN f.owed = 1..Len(f.owed)
  <2>1. /\ owed \in Seq([id : Nat, through : Nat]) /\ Len(owed) = Len(f.owed) + 1
        /\ \A i \in 1..Len(f.owed) : owed[i] = f.owed[i]
        /\ owed[Len(f.owed) + 1] = debt
    BY <1>3, <1>10, AppendProperties
  <2>2. DOMAIN owed = 1..Len(owed) /\ Len(f.owed) \in Nat /\ DOMAIN f.owed = 1..Len(f.owed)
    BY <1>3, <2>1, LenProperties
  <2> QED BY <2>1, <2>2
<1> HIDE DEF owed
<1>12. /\ fences'[s] = [fences[s] EXCEPT !.seen = m.id, !.owed = owed] /\ fences'[o] = fences[o]
       /\ fences[s] \in Fencing
  BY <1>1, <1>3, <1>9 DEF Shape, owed
<1>13. /\ fences'[s] \in Fencing /\ fences'[s].seen = m.id /\ fences'[s].owed = owed
       /\ fences'[s].sent = fences[s].sent /\ fences'[s].started = fences[s].started
  <2>1. m.id \in Nat
    BY <1>2
  <2> QED BY ONLY <2>1, <1>11, <1>12 DEF Fencing
<1>14. fences' \in [Sides -> Fencing]
  BY <1>1, <1>9, <1>13 DEF Shape
<1>15. /\ link'[o] = link[o] /\ Stream(s)' = v /\ Stream(o)' = Stream(o)
       /\ link'[s].delivery = link[s].delivery /\ link'[s].completed = link[s].completed
       /\ link'[s].out = link[s].out /\ link'[s].waiting = link[s].waiting
       /\ link'[s].scheduled = link[s].scheduled /\ link'[s].settled = link[s].settled
       /\ link'[s].sentProgress = link[s].sentProgress /\ link'[s].sentMark = link[s].sentMark
  BY <1>1, <1>2, <1>9, Dropped DEF v
<1>16. Bounded(s)'
  BY <1>1, <1>9, <1>15 DEF Bounded
<1>17. Outstanding(fences[s].sent, fences[s].started)'
  BY <1>1, <1>13 DEF Outstanding
<1>18. Received(s)'
  <2>1. (co[s].peer <= link[o].sentProgress)'
    BY <1>1, <1>9, <1>15 DEF Received
  <2>2. Owed(fences[o].owed, fences[o].seen, fences[s].sent)'
    BY <1>4, <1>12, <1>13 DEF Owed
  <2>3. Announced(Stream(s), co[s].progress, co[s].peer, link[o].sentProgress)'
    BY <1>5, <1>9, <1>15 DEF Announced, Is
  <2>4. Numbered(Stream(s), co[s].edgeSequence, link[o].out, link[o].scheduled)'
    BY <1>5, <1>9, <1>15 DEF Numbered, Is, Through, Asking
  <2>5. Declared(Stream(s), co[s].mark, link[o].sentMark)'
    BY <1>5, <1>9, <1>15 DEF Declared, Is
  <2>6. Fenced(Stream(s), fences[s].seen, fences[o].started, fences[o].sent)'
    BY <1>5, <1>6, <1>12, <1>13, <1>15 DEF Fenced, Is
  <2>7. Acked(Stream(s), fences[o].owed, fences[o].seen, fences[s].sent)'
    BY <1>5, <1>12, <1>13, <1>15 DEF Acked, Is
  <2> QED BY <2>1, <2>2, <2>3, <2>4, <2>5, <2>6, <2>7 DEF Received
<1>19. Received(o)'
  <2>0. f.seen <= m.id /\ f.seen \in Nat /\ m.id \in Nat /\ m.id <= m.id
    <3> HIDE DEF f
    <3> QED BY <1>2, <1>3, <1>6
  <2>10. \A a, b, c \in Nat : a <= b /\ b <= c => a <= c
    OBVIOUS
  <2>11. \A i \in DOMAIN owed :
          (i \in DOMAIN f.owed /\ owed[i] = f.owed[i]) \/ owed[i] = debt
    <3>1. \A n \in Nat : \A i \in 1..(n + 1) : i \in 1..n \/ i = n + 1
      OBVIOUS
    <3> HIDE DEF f
    <3> QED BY <1>11, <3>1
  <2>1. Owed(owed, m.id, fences[o].sent)
    <3>1. \A i \in DOMAIN owed :
            (i \in DOMAIN f.owed /\ owed[i] = f.owed[i]) \/ owed[i] = debt
      BY <2>11
    <3>2. ASSUME NEW i \in DOMAIN owed PROVE owed[i].id <= m.id /\ Sent(owed[i]) \in fences[o].sent
      <4>1. CASE i \in DOMAIN f.owed /\ owed[i] = f.owed[i]
        <5>1. f.owed[i].id <= f.seen /\ Sent(f.owed[i]) \in fences[o].sent
          BY <1>4, <4>1 DEF Owed
        <5>2. f.owed[i].id \in Nat
          BY <1>7, <4>1
        <5>3. f.owed[i].id <= m.id
          <6> HIDE DEF f
          <6> QED BY <2>0, <2>10, <5>1, <5>2
        <5> QED BY <4>1, <5>1, <5>3
      <4>2. CASE owed[i] = debt
        <5>1. Sent(debt) = Sent(m)
          BY <1>10 DEF Sent
        <5> QED BY <1>6, <1>10, <2>0, <4>2, <5>1
      <4> QED BY <3>1, <4>1, <4>2
    <3>3. ASSUME NEW i \in DOMAIN owed, NEW j \in DOMAIN owed, i < j PROVE owed[i].id < owed[j].id
      <4>1. i \in DOMAIN f.owed /\ owed[i] = f.owed[i]
        <5>1. \A n \in Nat : \A a, b \in 1..(n + 1) : a < b => a \in 1..n
          OBVIOUS
        <5>2. /\ i \in 1..(Len(f.owed) + 1) /\ j \in 1..(Len(f.owed) + 1) /\ Len(f.owed) \in Nat
          BY <1>11, <3>3
        <5>3. i \in 1..Len(f.owed)
          BY ONLY <3>3, <5>1, <5>2
        <5> QED BY ONLY <1>11, <5>3
      <4>2. CASE j \in DOMAIN f.owed /\ owed[j] = f.owed[j]
        BY <1>4, <3>3, <4>1, <4>2 DEF Owed
      <4>3. CASE owed[j] = debt
        <5>1. f.owed[i].id <= f.seen /\ f.owed[i].id \in Nat
          BY <1>7, <4>1
        <5> HIDE DEF f
        <5> QED BY <1>2, <1>3, <1>6, <1>10, <4>1, <4>3, <5>1
      <4> QED BY <3>1, <4>2, <4>3
    <3> QED BY <3>2, <3>3 DEF Owed
  <2>2. Owed(fences[s].owed, fences[s].seen, fences[o].sent)'
    BY <1>12, <1>13, <2>1 DEF Owed
  <2>3. ASSUME open[o] PROVE Acked(Stream(o), owed, m.id, fences[o].sent)
    <3>1. Acked(Stream(o), f.owed, f.seen, fences[o].sent)
      BY <1>1, <2>3 DEF Received
    <3>2. Stream(o) \in Seq(Message)
      BY <1>1, Typed
    <3>3. ASSUME NEW i \in DOMAIN Stream(o), Is(Stream(o), i, "FenceAck")
          PROVE  /\ Sent(Stream(o)[i]) \in fences[o].sent /\ Stream(o)[i].id <= m.id
                 /\ \A j \in DOMAIN owed : Stream(o)[i].id < owed[j].id
      <4>1. /\ Sent(Stream(o)[i]) \in fences[o].sent /\ Stream(o)[i].id <= f.seen
            /\ \A j \in DOMAIN f.owed : Stream(o)[i].id < f.owed[j].id
        BY <3>1, <3>3 DEF Acked
      <4>2. Stream(o)[i].id \in Nat
        BY <3>2, <3>3, Elements, Fields DEF Is
      <4>3. Stream(o)[i].id <= m.id /\ Stream(o)[i].id < debt.id
        <5> HIDE DEF f
        <5> QED BY <1>2, <1>3, <1>6, <1>10, <4>1, <4>2
      <4> QED BY <2>11, <4>1, <4>3
    <3> QED BY <3>1, <3>3 DEF Acked
  <2>4. open'[o] =>
          /\ Announced(Stream(o), co[o].progress, co[o].peer, link[s].sentProgress)'
          /\ Numbered(Stream(o), co[o].edgeSequence, link[s].out, link[s].scheduled)'
          /\ Declared(Stream(o), co[o].mark, link[s].sentMark)'
          /\ Fenced(Stream(o), fences[o].seen, fences[s].started, fences[s].sent)'
          /\ Acked(Stream(o), fences[s].owed, fences[s].seen, fences[o].sent)'
    <3> SUFFICES ASSUME open[o]
                 PROVE /\ Announced(Stream(o), co[o].progress, co[o].peer, link[s].sentProgress)'
                       /\ Numbered(Stream(o), co[o].edgeSequence, link[s].out, link[s].scheduled)'
                       /\ Declared(Stream(o), co[o].mark, link[s].sentMark)'
                       /\ Fenced(Stream(o), fences[o].seen, fences[s].started, fences[s].sent)'
                       /\ Acked(Stream(o), fences[s].owed, fences[s].seen, fences[o].sent)'
      BY <1>9
    <3>1. /\ Announced(Stream(o), co[o].progress, co[o].peer, link[s].sentProgress)
          /\ Numbered(Stream(o), co[o].edgeSequence, link[s].out, link[s].scheduled)
          /\ Declared(Stream(o), co[o].mark, link[s].sentMark)
          /\ Fenced(Stream(o), fences[o].seen, fences[s].started, fences[s].sent)
      BY <1>1 DEF Received
    <3>2. Announced(Stream(o), co[o].progress, co[o].peer, link[s].sentProgress)'
      BY <1>9, <1>15, <3>1 DEF Announced, Is
    <3>3. Numbered(Stream(o), co[o].edgeSequence, link[s].out, link[s].scheduled)'
      BY <1>9, <1>15, <3>1 DEF Numbered, Is, Through, Asking
    <3>4. Declared(Stream(o), co[o].mark, link[s].sentMark)'
      BY <1>9, <1>15, <3>1 DEF Declared, Is
    <3>5. Fenced(Stream(o), fences[o].seen, fences[s].started, fences[s].sent)'
      BY <1>12, <1>13, <1>15, <3>1 DEF Fenced, Is
    <3>6. Acked(Stream(o), fences[s].owed, fences[s].seen, fences[o].sent)'
      BY <1>12, <1>13, <1>15, <2>3 DEF Acked, Is
    <3> QED BY <3>2, <3>3, <3>4, <3>5, <3>6
  <2>5. (co[o].peer <= link[s].sentProgress)'
    BY <1>1, <1>9, <1>15 DEF Received
  <2> QED BY <1>1, <2>2, <2>4, <2>5 DEF Received
<1>20. Placed(s)'
  <2>1. Answers(s)'
    BY <1>1, <1>9, <1>15, AnswersSame
  <2>2. open'[s] => open[s] /\ (Asking(Stream(s))' => Asking(Stream(s)))
    BY <1>5, <1>9, <1>15 DEF w, Asking, Is
  <2> QED BY <1>1, <1>9, <1>15, <2>1, <2>2, PlacedStill
<1> QED BY <1>1, <1>9, <1>12, <1>14, <1>16, <1>17, <1>18, <1>19, <1>20, ConsumedKeeps DEF Shape

\* A fence that is acknowledged is outstanding, and no message or debt speaks
\* of it any more.
LEMMA ConsumeFenceAckKeeps ==
  ASSUME IInv, NEW s \in Sides, ConsumeFenceAck(s)
  PROVE  IInv'
<1> DEFINE o == Other(s)
           f == fences[s]
           m == Head1(s)
           w == Stream(s)
           v == Tail(link[s].ingress) \o wire[o]
           done == [Sent(m) EXCEPT !.acked = TRUE]
           kept == (f.sent \ {Sent(m)}) \cup {done}
<1>1. /\ o \in Sides /\ o # s /\ Other(o) = s
      /\ Shape /\ Received(s) /\ Received(o) /\ Placed(s) /\ Bounded(s)
      /\ Outstanding(fences[s].sent, fences[s].started)
      /\ Outstanding(fences[o].sent, fences[o].started)
      /\ Consuming(s, "FenceAck")
  BY Peers, Sidewise DEF ConsumeFenceAck
<1>2. /\ open[s] /\ link[s].ingress # <<>> /\ Thinned(v, w, 1) /\ w[1] = m
      /\ w[1].type = "FenceAck" /\ m.id \in Nat /\ m.through \in Nat /\ 1 \in DOMAIN w
  BY <1>1, Opening, Fields, Left
<1>3. /\ co[s].peer \in Nat /\ co[s].progress \in Nat
      /\ co[s].mark \in Int /\ link[o].sentProgress \in Nat /\ link[o].out \in Nat
      /\ link[o].sentMark \in Int /\ f.seen \in Nat /\ fences[o].started \in Nat
      /\ fences[o].seen \in Nat /\ fences[o].owed \in Seq([id : Nat, through : Nat])
      /\ f \in Fencing /\ f.started \in Nat
  BY <1>1, Numbers, Typed
<1>4. /\ Announced(w, co[s].progress, co[s].peer, link[o].sentProgress)
      /\ Numbered(w, co[s].edgeSequence, link[o].out, link[o].scheduled)
      /\ Declared(w, co[s].mark, link[o].sentMark)
      /\ Fenced(w, fences[s].seen, fences[o].started, fences[o].sent)
      /\ Acked(w, fences[o].owed, fences[o].seen, fences[s].sent)
      /\ Owed(fences[o].owed, fences[o].seen, fences[s].sent)
  BY <1>1, <1>2 DEF Received
<1>5. /\ Announced(v, co[s].progress, co[s].peer, link[o].sentProgress)
      /\ Numbered(v, co[s].edgeSequence, link[o].out, link[o].scheduled)
      /\ Asking(v) <=> Asking(w)
      /\ Declared(v, co[s].mark, link[o].sentMark)
      /\ Fenced(v, f.seen, fences[o].started, fences[o].sent)
      /\ Acked(v, fences[o].owed, fences[o].seen, fences[s].sent)
      /\ Sent(m) \in f.sent /\ m.id <= fences[o].seen
      /\ \A i \in DOMAIN v : Is(v, i, "FenceAck") => v[i].id # m.id
      /\ \A j \in DOMAIN fences[o].owed : fences[o].owed[j].id # m.id
  <2> HIDE DEF v, w, f, m
  <2>1. Announced(v, co[s].progress, co[s].peer, link[o].sentProgress)
    <3>1. /\ Thinned(v, w, 1) /\ w[1].type = "FenceAck"
          /\ co[s].progress \in Nat /\ co[s].peer \in Nat /\ link[o].sentProgress \in Nat
          /\ Announced(w, co[s].progress, co[s].peer, link[o].sentProgress)
      BY <1>2, <1>3, <1>4
    <3> QED BY ONLY <3>1, AnnouncedLess
  <2>2. /\ Numbered(v, co[s].edgeSequence, link[o].out, link[o].scheduled)
        /\ Asking(v) <=> Asking(w)
    <3>1. Thinned(v, w, 1) /\ w[1].type # "EdgeRequest" /\ link[o].out \in Nat
          /\ Numbered(w, co[s].edgeSequence, link[o].out, link[o].scheduled)
      BY <1>2, <1>3, <1>4
    <3> QED BY ONLY <3>1, NumberedLess
  <2>3. Declared(v, co[s].mark, link[o].sentMark)
    <3>1. /\ Thinned(v, w, 1) /\ w[1].type = "FenceAck"
          /\ co[s].mark \in Int /\ link[o].sentMark \in Int
          /\ Declared(w, co[s].mark, link[o].sentMark)
      BY <1>2, <1>3, <1>4
    <3> QED BY ONLY <3>1, DeclaredLess
  <2>4. Fenced(v, f.seen, fences[o].started, fences[o].sent)
    <3>1. Thinned(v, w, 1) /\ w[1].type # "Fence" /\ f.seen \in Nat /\ fences[o].started \in Nat
          /\ Fenced(w, f.seen, fences[o].started, fences[o].sent)
      BY <1>2, <1>3, <1>4 DEF f
    <3> QED BY ONLY <3>1, FencedLess
  <2>5. /\ Acked(v, fences[o].owed, fences[o].seen, fences[s].sent)
        /\ \A i \in DOMAIN v : Is(v, i, "FenceAck") => v[i].id # m.id
        /\ \A j \in DOMAIN fences[o].owed : fences[o].owed[j].id # m.id
    <3>1. /\ Thinned(v, w, 1) /\ w[1].type = "FenceAck" /\ fences[o].seen \in Nat
          /\ fences[o].owed \in Seq([id : Nat, through : Nat])
          /\ Acked(w, fences[o].owed, fences[o].seen, fences[s].sent)
      BY <1>2, <1>3, <1>4
    <3>2. /\ Acked(v, fences[o].owed, fences[o].seen, fences[s].sent)
          /\ \A i \in DOMAIN v : Is(v, i, "FenceAck") => v[i].id # w[1].id
          /\ \A j \in DOMAIN fences[o].owed : fences[o].owed[j].id # w[1].id
      BY ONLY <3>1, AckedLess
    <3> QED BY <1>2, <3>2
  <2>6. Sent(m) \in f.sent /\ m.id <= fences[o].seen
    BY <1>2, <1>4 DEF Acked, Is, f
  <2> QED BY <2>1, <2>2, <2>3, <2>4, <2>5, <2>6
<1> HIDE DEF v, w, m
<1>6. /\ fences' = [fences EXCEPT ![s].sent = kept] /\ Drop(s)
      /\ pc' = pc /\ mode' = mode /\ co' = co /\ serial' = serial /\ open' = open
      /\ wire' = wire /\ fault' = fault
  BY <1>5 DEF ConsumeFenceAck, m, Sent
<1>7. /\ done \in FenceSent /\ done.id = m.id /\ Sent(m) \in FenceSent
      /\ Sent(m).id = m.id
  BY <1>2 DEF FenceSent, Sent
<1> HIDE DEF done
<1>8. /\ kept \subseteq FenceSent
      /\ \A x : x.id # m.id /\ x \in f.sent => x \in kept
      /\ \A x \in kept : x = done \/ (x \in f.sent /\ x # Sent(m))
  <2>1. f.sent \subseteq FenceSent
    BY <1>3 DEF Fencing
  <2> QED BY <1>7, <2>1
<1>9. \A n \in Message : Sent(n).id = n.id
  BY DEF Sent
<1>10. Outstanding(kept, f.started)
  <2> DEFINE T == f.sent \ {Sent(m)}
  <2>1. /\ IsFiniteSet(f.sent) /\ Cardinality(f.sent) <= Capacity
        /\ \A x \in f.sent : x.id <= f.started
        /\ \A x, y \in f.sent : x.id = y.id => x = y
    BY <1>1 DEF Outstanding
  <2>2. /\ IsFiniteSet(T) /\ Cardinality(T) = Cardinality(f.sent) - 1
        /\ Cardinality(f.sent) \in Nat /\ Cardinality(T) \in Nat
    BY <1>5, <2>1, FS_RemoveElement, FS_CardinalityType
  <2>3. kept = T \cup {done}
    OBVIOUS
  <2> HIDE DEF T
  <2>4. IsFiniteSet(kept) /\ (Cardinality(kept) = Cardinality(T) \/ Cardinality(kept) = Cardinality(T) + 1)
    BY <2>2, <2>3, FS_AddElement
  <2>5. Cardinality(kept) <= Capacity
    BY <2>1, <2>2, <2>4, Constants
  <2>6. \A x \in kept : x.id <= f.started
    BY <1>5, <1>7, <1>8, <2>1
  <2>7. \A x, y \in kept : x.id = y.id => x = y
    BY <1>5, <1>7, <1>8, <2>1
  <2> QED BY <2>4, <2>5, <2>6, <2>7 DEF Outstanding
<1> HIDE DEF kept
<1>11. /\ fences'[s] = [fences[s] EXCEPT !.sent = kept] /\ fences'[o] = fences[o]
       /\ fences[s] \in Fencing
  BY <1>1, <1>3, <1>6 DEF Shape
<1>12. /\ fences'[s] \in Fencing /\ fences'[s].sent = kept /\ fences'[s].seen = fences[s].seen
       /\ fences'[s].owed = fences[s].owed /\ fences'[s].started = fences[s].started
  BY ONLY <1>8, <1>11 DEF Fencing
<1>13. fences' \in [Sides -> Fencing]
  BY <1>1, <1>6, <1>12 DEF Shape
<1>14. /\ link'[o] = link[o] /\ Stream(s)' = v /\ Stream(o)' = Stream(o)
       /\ link'[s].delivery = link[s].delivery /\ link'[s].completed = link[s].completed
       /\ link'[s].out = link[s].out /\ link'[s].waiting = link[s].waiting
       /\ link'[s].scheduled = link[s].scheduled /\ link'[s].settled = link[s].settled
       /\ link'[s].sentProgress = link[s].sentProgress /\ link'[s].sentMark = link[s].sentMark
  BY <1>1, <1>2, <1>6, Dropped DEF v
<1>15. Bounded(s)'
  BY <1>1, <1>6, <1>14 DEF Bounded
<1>16. Outstanding(fences[s].sent, fences[s].started)'
  BY <1>10, <1>12 DEF Outstanding
<1>17. Received(s)'
  <2>1. (co[s].peer <= link[o].sentProgress)'
    BY <1>1, <1>6, <1>14 DEF Received
  <2>2. \A i \in DOMAIN fences[o].owed : Sent(fences[o].owed[i]) \in kept
    BY <1>4, <1>5, <1>8 DEF Owed, Sent
  <2>3. Owed(fences[o].owed, fences[o].seen, fences[s].sent)'
    BY <1>4, <1>11, <1>12, <2>2 DEF Owed
  <2>4. Announced(Stream(s), co[s].progress, co[s].peer, link[o].sentProgress)'
    BY <1>5, <1>6, <1>14 DEF Announced, Is
  <2>5. Numbered(Stream(s), co[s].edgeSequence, link[o].out, link[o].scheduled)'
    BY <1>5, <1>6, <1>14 DEF Numbered, Is, Through, Asking
  <2>6. Declared(Stream(s), co[s].mark, link[o].sentMark)'
    BY <1>5, <1>6, <1>14 DEF Declared, Is
  <2>7. Fenced(Stream(s), fences[s].seen, fences[o].started, fences[o].sent)'
    BY <1>5, <1>11, <1>12, <1>14 DEF Fenced, Is
  <2>8. \A i \in DOMAIN v : Is(v, i, "FenceAck") => Sent(v[i]) \in kept
    BY <1>5, <1>8 DEF Acked, Sent
  <2>9. Acked(Stream(s), fences[o].owed, fences[o].seen, fences[s].sent)'
    BY <1>5, <1>11, <1>12, <1>14, <2>8 DEF Acked, Is
  <2> QED BY <2>1, <2>3, <2>4, <2>5, <2>6, <2>7, <2>9 DEF Received
<1>18. Received(o)'
  <2>1. Owed(fences[s].owed, fences[s].seen, fences[o].sent)'
    BY <1>1, <1>11, <1>12 DEF Owed, Received
  <2>2. open'[o] =>
          /\ Announced(Stream(o), co[o].progress, co[o].peer, link[s].sentProgress)'
          /\ Numbered(Stream(o), co[o].edgeSequence, link[s].out, link[s].scheduled)'
          /\ Declared(Stream(o), co[o].mark, link[s].sentMark)'
          /\ Fenced(Stream(o), fences[o].seen, fences[s].started, fences[s].sent)'
          /\ Acked(Stream(o), fences[s].owed, fences[s].seen, fences[o].sent)'
    <3> SUFFICES ASSUME open[o]
                 PROVE /\ Announced(Stream(o), co[o].progress, co[o].peer, link[s].sentProgress)'
                       /\ Numbered(Stream(o), co[o].edgeSequence, link[s].out, link[s].scheduled)'
                       /\ Declared(Stream(o), co[o].mark, link[s].sentMark)'
                       /\ Fenced(Stream(o), fences[o].seen, fences[s].started, fences[s].sent)'
                       /\ Acked(Stream(o), fences[s].owed, fences[s].seen, fences[o].sent)'
      BY <1>6
    <3>1. /\ Announced(Stream(o), co[o].progress, co[o].peer, link[s].sentProgress)
          /\ Numbered(Stream(o), co[o].edgeSequence, link[s].out, link[s].scheduled)
          /\ Declared(Stream(o), co[o].mark, link[s].sentMark)
          /\ Fenced(Stream(o), fences[o].seen, fences[s].started, fences[s].sent)
          /\ Acked(Stream(o), fences[s].owed, fences[s].seen, fences[o].sent)
      BY <1>1 DEF Received
    <3>2. Announced(Stream(o), co[o].progress, co[o].peer, link[s].sentProgress)'
      BY <1>6, <1>14, <3>1 DEF Announced, Is
    <3>3. Numbered(Stream(o), co[o].edgeSequence, link[s].out, link[s].scheduled)'
      BY <1>6, <1>14, <3>1 DEF Numbered, Is, Through, Asking
    <3>4. Declared(Stream(o), co[o].mark, link[s].sentMark)'
      BY <1>6, <1>14, <3>1 DEF Declared, Is
    <3>5. \A i \in DOMAIN Stream(o) : Is(Stream(o), i, "Fence") => Sent(Stream(o)[i]) \in kept
      <4> SUFFICES ASSUME NEW i \in DOMAIN Stream(o), Is(Stream(o), i, "Fence")
                   PROVE  Sent(Stream(o)[i]) \in kept
        OBVIOUS
      <4>1. Stream(o)[i].id \in Nat
        <5>1. Stream(o) \in Seq(Message)
          BY <1>1, Typed
        <5> QED BY <5>1, Elements, Fields DEF Is
      <4>2. fences[o].seen < Stream(o)[i].id /\ Sent(Stream(o)[i]) \in f.sent
        BY <3>1 DEF Fenced
      <4>3. Stream(o)[i].id # m.id
        BY <1>2, <1>3, <1>5, <4>1, <4>2
      <4> QED BY <1>8, <4>2, <4>3 DEF Sent
    <3>6. Fenced(Stream(o), fences[o].seen, fences[s].started, fences[s].sent)'
      BY <1>11, <1>12, <1>14, <3>1, <3>5 DEF Fenced, Is
    <3>7. Acked(Stream(o), fences[s].owed, fences[s].seen, fences[o].sent)'
      BY <1>11, <1>12, <1>14, <3>1 DEF Acked, Is
    <3> QED BY <3>2, <3>3, <3>4, <3>6, <3>7
  <2>3. (co[o].peer <= link[s].sentProgress)'
    BY <1>1, <1>6, <1>14 DEF Received
  <2> QED BY <1>1, <2>1, <2>2, <2>3 DEF Received
<1>19. Placed(s)'
  <2>1. Answers(s)'
    BY <1>1, <1>6, <1>14, AnswersSame
  <2>2. open'[s] => open[s] /\ (Asking(Stream(s))' => Asking(Stream(s)))
    BY <1>5, <1>6, <1>14 DEF w, Asking, Is
  <2> QED BY <1>1, <1>6, <1>14, <2>1, <2>2, PlacedStill
<1>20. co' \in [Sides -> Coordinator] /\ co'[o] = co[o] /\ co'[s].local = co[s].local
       /\ co'[s].permit = co[s].permit
  BY <1>1, <1>6 DEF Shape
<1> QED BY <1>1, <1>6, <1>11, <1>13, <1>15, <1>16, <1>17, <1>18, <1>19, <1>20, ConsumedKeeps

-----------------------------------------------------------------------------
(* One governed instruction *)

\* What is left to show of a step that concerns the clock and the core only.
LEMMA LocalKeeps ==
  ASSUME IInv, NEW s \in Sides,
         pc'[s] \in Positions, pc' = [pc EXCEPT ![s] = pc'[s]],
         co'[s] \in Coordinator, co' = [co EXCEPT ![s] = co'[s]],
         co'[s].peer = co[s].peer, co'[s].progress = co[s].progress, co'[s].mark = co[s].mark,
         co'[s].edgeSequence = co[s].edgeSequence, co'[s].edges = co[s].edges,
         serial'[s] \in SerialCore, serial' = [serial EXCEPT ![s] = serial'[s]],
         link'[s] \in Bookkeeping, link' = [link EXCEPT ![s] = link'[s]],
         link'[s].ingress = link[s].ingress, link'[s].delivery = link[s].delivery,
         link'[s].completed = link[s].completed, link'[s].out = link[s].out,
         link'[s].waiting = link[s].waiting, link'[s].scheduled = link[s].scheduled,
         link'[s].sentProgress = link[s].sentProgress, link'[s].sentMark = link[s].sentMark,
         fault'[s] \in Fault, fault' = [fault EXCEPT ![s] = fault'[s]],
         mode' = mode, fences' = fences, open' = open, wire' = wire,
         Position(s)', Core(s)', Bounded(s)'
  PROVE  IInv'
<1> DEFINE o == Other(s)
<1>1. /\ o \in Sides /\ o # s /\ Other(o) = s
      /\ Shape /\ Own(s) /\ Own(o) /\ Received(s) /\ Received(o) /\ Placed(s) /\ Placed(o)
      /\ Outstanding(fences[s].sent, fences[s].started)
  BY Peers, Sidewise
<1>2. /\ pc'[o] = pc[o] /\ co'[o] = co[o] /\ serial'[o] = serial[o] /\ link'[o] = link[o]
      /\ fault'[o] = fault[o]
  BY <1>1 DEF Shape
<1>3. Shape'
  BY <1>1 DEF Shape
<1>4. Own(s)'
  BY <1>1 DEF Own, Outstanding
<1>5. Own(o)'
  BY <1>1, <1>2, OwnSame
<1>6. Stream(o)' = Stream(o) /\ Stream(s)' = Stream(s)
  BY <1>1, <1>2 DEF Stream
<1>7. Received(s)'
  BY <1>1, <1>2, <1>6, ReceivedSame
<1>8. Received(o)'
  BY <1>1, <1>2, <1>6, ReceivedSame
<1>9. Placed(s)'
  BY <1>1, <1>2, <1>6, PlacedSame
<1>10. Placed(o)'
  BY <1>1, <1>2, <1>6, PlacedSame
<1> QED BY <1>3, <1>4, <1>5, <1>7, <1>8, <1>9, <1>10, BothSides

\* A permit is granted within every bound, or not at all.
LEMMA ReserveKeeps ==
  ASSUME IInv, NEW s \in Sides, Reserve(s)
  PROVE  IInv'
<1> DEFINE c == co[s]
<1>1. /\ Shape /\ Position(s) /\ Core(s) /\ Bounded(s) /\ pc[s] = "reserve"
      /\ mode' = mode /\ serial' = serial /\ link' = link /\ fences' = fences
  BY Sidewise DEF Reserve, FailWith
<1>2. /\ c \in Coordinator /\ c.local \in Nat /\ c.permit = 0 /\ c.peer \in Nat /\ c.mark \in Int
      /\ c.edges \subseteq Edge /\ c.held \subseteq Edge /\ serial[s] \in SerialCore
      /\ link[s] \in Bookkeeping /\ fault[s] = "none" /\ fault[s] \in Fault /\ link[s].waiting = 0
  BY <1>1, Typed, Numbers DEF Position
<1>3. \A e \in c.held : ~Late(e, c.local)
  BY <1>1, <1>2, Constants DEF Bounded, Late, Edge
<1>4. /\ open' = open /\ wire' = wire /\ fault' = fault
      /\ \/ Fits(c, Need) /\ co' = [co EXCEPT ![s].permit = Need] /\ pc' = [pc EXCEPT ![s] = "exec"]
         \/ co' = co /\ pc' = [pc EXCEPT ![s] = "starved"]
  BY <1>3 DEF Reserve, Goto
<1>5. CASE co' = co /\ pc' = [pc EXCEPT ![s] = "starved"]
  <2>1. pc'[s] = "starved" /\ "starved" \in Positions
    BY <1>1, <1>5 DEF Shape, Positions
  <2>2. Position(s)'
    BY <1>1, <1>2, <1>4, <1>5, <2>1 DEF Position
  <2>3. Core(s)'
    BY <1>1, <1>2, <1>4, <1>5, <2>1 DEF Core, Clocking, Settled
  <2>4. Bounded(s)'
    BY <1>1, <1>4, <1>5 DEF Bounded
  <2>5. /\ pc' = [pc EXCEPT ![s] = pc'[s]] /\ co' = [co EXCEPT ![s] = co'[s]]
        /\ serial' = [serial EXCEPT ![s] = serial'[s]] /\ link' = [link EXCEPT ![s] = link'[s]]
        /\ fault' = [fault EXCEPT ![s] = fault'[s]]
    BY <1>1, <1>4, <1>5, <2>1 DEF Shape
  <2> QED BY <1>1, <1>2, <1>4, <1>5, <2>1, <2>2, <2>3, <2>4, <2>5, LocalKeeps
<1>6. CASE Fits(c, Need) /\ co' = [co EXCEPT ![s].permit = Need] /\ pc' = [pc EXCEPT ![s] = "exec"]
  <2>1. pc'[s] = "exec" /\ "exec" \in Positions
    BY <1>1, <1>6 DEF Shape, Positions
  <2>2. /\ co'[s] \in Coordinator /\ co' = [co EXCEPT ![s] = co'[s]]
        /\ co'[s].permit = Need /\ co'[s].local = c.local /\ co'[s].peer = c.peer
        /\ co'[s].mark = c.mark /\ co'[s].edges = c.edges /\ co'[s].held = c.held
        /\ co'[s].episodeOpen = c.episodeOpen /\ co'[s].instructions = c.instructions
        /\ co'[s].progress = c.progress /\ co'[s].edgeSequence = c.edgeSequence
    <3>1. co'[s] = [c EXCEPT !.permit = Need] /\ c \in Coordinator
      BY <1>1, <1>2, <1>6 DEF Shape
    <3>2. co' = [co EXCEPT ![s] = co'[s]]
      BY <1>1, <1>6 DEF Shape
    <3> HIDE DEF c
    <3>3. /\ co'[s] \in Coordinator
          /\ co'[s].permit = Need /\ co'[s].local = c.local /\ co'[s].peer = c.peer
          /\ co'[s].mark = c.mark /\ co'[s].edges = c.edges /\ co'[s].held = c.held
          /\ co'[s].episodeOpen = c.episodeOpen /\ co'[s].instructions = c.instructions
          /\ co'[s].progress = c.progress /\ co'[s].edgeSequence = c.edgeSequence
      BY ONLY <3>1 DEF Coordinator
    <3> QED BY <3>2, <3>3
  <2>3. Position(s)'
    BY <1>1, <1>2, <1>4, <2>1, <2>2, Constants DEF Position
  <2>4. Core(s)'
    BY <1>1, <1>2, <1>4, <2>1, <2>2 DEF Core, Clocking, Settled
  <2>5. /\ c.local + Need <= c.peer + QuantumCycles + RearmBudget
        /\ c.local + Need <= c.mark + MaxEdgeLateness
        /\ \A e \in c.held \cup c.edges : c.local + Need <= e.at + MaxEdgeLateness
        /\ c.episodeOpen => c.instructions > 0
    BY <1>2, <1>6, Constants DEF Fits
  <2>6. Bounded(s)'
    BY <1>1, <2>2, <2>5 DEF Bounded
  <2>7. /\ pc' = [pc EXCEPT ![s] = pc'[s]]
        /\ serial' = [serial EXCEPT ![s] = serial'[s]] /\ link' = [link EXCEPT ![s] = link'[s]]
        /\ fault' = [fault EXCEPT ![s] = fault'[s]]
    BY <1>1, <1>4, <1>6, <2>1 DEF Shape
  <2> QED BY <1>1, <1>2, <1>4, <2>1, <2>2, <2>3, <2>4, <2>6, <2>7, LocalKeeps
<1> QED BY <1>4, <1>5, <1>6

\* A register access only catches the core up.
LEMMA AccessKeeps ==
  ASSUME IInv, NEW s \in Sides, NEW a \in co[s].local..(co[s].local + co[s].permit), Access(s, a)
  PROVE  IInv'
<1>1. /\ Shape /\ Position(s) /\ Core(s) /\ Bounded(s) /\ pc[s] = "exec"
      /\ mode' = mode /\ co' = co /\ link' = link /\ fences' = fences /\ open' = open
      /\ wire' = wire /\ fault' = fault /\ pc' = [pc EXCEPT ![s] = "access"]
      /\ serial' = [serial EXCEPT ![s].now = a] /\ serial[s].now <= a
  BY Sidewise DEF Access, Goto
<1>2. /\ co[s] \in Coordinator /\ serial[s] \in SerialCore /\ link[s] \in Bookkeeping
      /\ fault[s] \in Fault /\ co[s].local \in Nat /\ co[s].permit \in Nat
      /\ serial[s].now \in Nat /\ link[s].sentMark \in Int
  BY <1>1, Typed, Numbers
<1>3. a \in Nat /\ co[s].local <= a
  BY <1>2
<1>4. pc'[s] = "access" /\ "access" \in Positions
  BY <1>1 DEF Shape, Positions
<1>5. /\ serial'[s] \in SerialCore /\ serial'[s].now = a
      /\ serial'[s].enabled = serial[s].enabled /\ serial'[s].internal = serial[s].internal
      /\ serial'[s].bits = serial[s].bits /\ serial'[s].target = serial[s].target
  <2>1. serial'[s] = [serial[s] EXCEPT !.now = a]
    BY <1>1 DEF Shape
  <2> QED BY ONLY <1>2, <1>3, <2>1 DEF SerialCore
<1>6. Position(s)'
  BY <1>1, <1>4 DEF Position
<1>7. link[s].sentMark <= a
  BY <1>1, <1>2, <1>3 DEF Core
<1>8. Core(s)'
  BY <1>1, <1>3, <1>4, <1>5, <1>7 DEF Core, Clocking, Settled
<1>9. Bounded(s)'
  BY <1>1 DEF Bounded
<1>10. /\ pc' = [pc EXCEPT ![s] = pc'[s]] /\ co' = [co EXCEPT ![s] = co'[s]]
       /\ serial' = [serial EXCEPT ![s] = serial'[s]] /\ link' = [link EXCEPT ![s] = link'[s]]
       /\ fault' = [fault EXCEPT ![s] = fault'[s]]
  BY <1>1 DEF Shape
<1> QED BY <1>1, <1>2, <1>4, <1>5, <1>6, <1>8, <1>9, <1>10, LocalKeeps

\* What a write to SC leaves of the core.
LEMMA Rewritten ==
  ASSUME NEW core \in SerialCore, NEW w, core.enabled = (core.bits > 0)
  PROVE  /\ SetSC(core, w) \in SerialCore
         /\ SetSC(core, w).enabled = (SetSC(core, w).bits > 0)
         /\ SetSC(core, w).now = core.now
         /\ SetSC(core, w).enabled /\ SetSC(core, w).internal =>
              \/ core.enabled /\ core.internal /\ SetSC(core, w).target = core.target
              \/ SetSC(core, w).target > core.now
<1>1. core.now \in Nat /\ core.bits \in Nat
  BY DEF SerialCore
<1>2. /\ EdgePeriod \in Nat /\ EdgePeriod > 0 /\ ByteBits \in Nat /\ ByteBits > 0
  BY Constants
<1>3. core.now + EdgePeriod \in Nat /\ core.now + EdgePeriod > core.now
  BY <1>1, <1>2
<1>4. ByteBits \in 0..ByteBits /\ 0 \in 0..ByteBits
  BY <1>2
<1>5. CASE w = "off"
  <2>1. SetSC(core, w) = [core EXCEPT !.enabled = FALSE, !.internal = FALSE, !.bits = 0, !.target = 0]
    BY <1>5 DEF SetSC
  <2> DEFINE r == SetSC(core, w)
  <2>2. PICK no \in BOOLEAN, z \in Nat : no = FALSE /\ z = 0 /\ z \in 0..ByteBits /\ ~(z > 0)
    <3>1. ~(0 > 0)
      OBVIOUS
    <3> WITNESS FALSE \in BOOLEAN, 0 \in Nat
    <3> QED BY <1>4, <3>1
  <2>3. SetSC(core, w) = [core EXCEPT !.enabled = no, !.internal = no, !.bits = z, !.target = z]
    BY <2>1, <2>2
  <2>4. r \in SerialCore /\ r.enabled = no /\ r.bits = z /\ r.now = core.now
    BY <2>2, <2>3 DEF SerialCore
  <2> HIDE DEF r
  <2>5. ~r.enabled /\ ~(r.bits > 0)
    BY <2>2, <2>4
  <2>6. r.enabled = (r.bits > 0)
    BY <2>2, <2>4, <2>5
  <2> QED BY <2>4, <2>5, <2>6 DEF r
<1>6. CASE w # "off" /\ core.enabled /\ core.internal = (w = "internal")
  <2>1. SetSC(core, w) = core
    BY <1>6 DEF SetSC
  <2> QED BY <2>1
<1>7. CASE w # "off" /\ ~(core.enabled /\ core.internal = (w = "internal"))
  <2> DEFINE t == IF w = "internal" THEN core.now + EdgePeriod ELSE 0
  <2>1. SetSC(core, w) = [core EXCEPT !.enabled = TRUE, !.internal = (w = "internal"),
                                     !.bits = ByteBits, !.target = t]
    BY <1>7 DEF SetSC, Armed
  <2>2. t \in Nat /\ (w = "internal" => t > core.now)
    BY <1>3
  <2> HIDE DEF t
  <2>3. (w = "internal") \in BOOLEAN
    OBVIOUS
  <2> DEFINE r == SetSC(core, w)
  <2>4. /\ r \in SerialCore /\ r.enabled = TRUE /\ r.bits = ByteBits /\ r.now = core.now
        /\ r.internal = (w = "internal") /\ r.target = t
    BY <1>4, <2>1, <2>2, <2>3 DEF SerialCore
  <2> HIDE DEF r
  <2> QED BY <1>2, <2>2, <2>4 DEF r
<1> QED BY <1>5, <1>6, <1>7

\* A write to SC arms an edge beyond the present time, if any.
LEMMA TouchKeeps ==
  ASSUME IInv, NEW s \in Sides, NEW w, Touch(s, w)
  PROVE  IInv'
<1> DEFINE r == SetSC(serial[s], w)
<1>1. /\ Shape /\ Position(s) /\ Core(s) /\ Bounded(s) /\ pc[s] = "access"
      /\ mode' = mode /\ co' = co /\ link' = link /\ fences' = fences /\ open' = open
      /\ wire' = wire /\ fault' = fault /\ pc' = [pc EXCEPT ![s] = "commit"]
      /\ serial' = [serial EXCEPT ![s] = r]
  BY Sidewise DEF Touch, Goto
<1>2. /\ co[s] \in Coordinator /\ serial[s] \in SerialCore /\ link[s] \in Bookkeeping
      /\ fault[s] \in Fault /\ serial[s].now \in Nat /\ link[s].sentMark \in Int
      /\ serial[s].target \in Nat /\ link[s].waiting = 0
  BY <1>1, Typed, Numbers DEF Position
<1>3. pc'[s] = "commit" /\ "commit" \in Positions
  BY <1>1 DEF Shape, Positions
<1>4. serial[s].enabled = (serial[s].bits > 0) /\ link[s].sentMark <= serial[s].now
  BY <1>1 DEF Core
<1>5. /\ r \in SerialCore /\ r.enabled = (r.bits > 0) /\ r.now = serial[s].now
      /\ r.enabled /\ r.internal =>
           \/ serial[s].enabled /\ serial[s].internal /\ r.target = serial[s].target
           \/ r.target > serial[s].now
  BY <1>2, <1>4, Rewritten
<1>6. serial'[s] = r
  BY <1>1 DEF Shape
<1> HIDE DEF r
<1>7. r.enabled /\ r.internal => r.target > 0 /\ r.target > link[s].sentMark
  <2>1. r.target \in Nat
    BY <1>5 DEF SerialCore
  <2>2. serial[s].enabled /\ serial[s].internal =>
          serial[s].target > 0 /\ serial[s].target > link[s].sentMark
    BY <1>1, <1>2 DEF Core, Clocking
  <2> QED BY <1>2, <1>4, <1>5, <2>1, <2>2
<1>8. Position(s)'
  BY <1>1, <1>2, <1>3 DEF Position
<1>9. Core(s)'
  BY <1>1, <1>2, <1>3, <1>4, <1>5, <1>6, <1>7 DEF Core, Clocking, Settled
<1>10. Bounded(s)'
  BY <1>1 DEF Bounded
<1>11. /\ pc' = [pc EXCEPT ![s] = pc'[s]] /\ co' = [co EXCEPT ![s] = co'[s]]
       /\ serial' = [serial EXCEPT ![s] = serial'[s]] /\ link' = [link EXCEPT ![s] = link'[s]]
       /\ fault' = [fault EXCEPT ![s] = fault'[s]]
  BY <1>1 DEF Shape
<1> QED BY <1>1, <1>2, <1>3, <1>5, <1>6, <1>8, <1>9, <1>10, <1>11, LocalKeeps

\* What an instruction took is within its permit, so nothing is late.
LEMMA CommitKeeps ==
  ASSUME IInv, NEW s \in Sides, NEW elapsed \in 1..co[s].permit, NEW executed \in {0, 1},
         Commit(s, elapsed, executed)
  PROVE  IInv'
<1> DEFINE c == co[s]
           now == c.local + elapsed
           broken == IF fault[s] # "none" THEN fault[s]
                     ELSE IF c.ended # "none" THEN Seen(s, "closed") ELSE "none"
           left == IF c.episodeOpen THEN c.instructions - executed ELSE c.instructions
           retired == IF c.held = {} THEN 0 ELSE link[s].retired + executed
           kept == IF broken = "none" THEN now ELSE serial[s].now
           where == IF broken = "none" THEN "boundary" ELSE "broken"
<1>1. /\ Shape /\ Position(s) /\ Core(s) /\ Bounded(s) /\ pc[s] \in {"exec", "commit"}
      /\ mode' = mode /\ fences' = fences /\ open' = open /\ wire' = wire
      /\ serial[s].now <= now
  BY Sidewise DEF Commit
<1>2. /\ c \in Coordinator /\ serial[s] \in SerialCore /\ link[s] \in Bookkeeping
      /\ fault[s] \in Fault /\ c.local \in Nat /\ c.permit \in Nat /\ c.mark \in Int
      /\ c.peer \in Nat /\ c.held \subseteq Edge /\ c.edges \subseteq Edge /\ c.instructions \in Nat
      /\ serial[s].now \in Nat /\ link[s].sentMark \in Int /\ link[s].delivery \subseteq Edge
      /\ link[s].settled \in Nat /\ link[s].sentProgress \in Nat /\ link[s].retired \in Nat
      /\ c.ended \in Ending
  BY <1>1, Typed, Numbers DEF Bookkeeping
<1>3. now \in Nat /\ now <= c.local + c.permit /\ c.local < now /\ c.permit > 0 /\ executed \in Nat
  BY <1>2
<1>4. \A e \in c.held \cup c.edges : now <= e.at + MaxEdgeLateness
  <2>1. \A e \in c.held \cup c.edges : c.local + c.permit <= e.at + MaxEdgeLateness
    BY <1>1 DEF Bounded
  <2>2. \A e \in c.held \cup c.edges : e.at \in Nat
    BY <1>2 DEF Edge
  <2> HIDE DEF now
  <2> QED BY <1>2, <1>3, <2>1, <2>2, Constants
<1>5. (\A e \in c.held : ~Late(e, now)) /\ (\A e \in c.edges : ~Late(e, now))
  <2>1. \A e \in c.held \cup c.edges : e.at \in Nat
    BY <1>2 DEF Edge
  <2> HIDE DEF now
  <2> QED BY <1>3, <1>4, <2>1, Constants DEF Late
<1>6. /\ co' = [co EXCEPT ![s].local = now, ![s].permit = 0, ![s].instructions = left,
                          ![s].ended = @]
      /\ link' = [link EXCEPT ![s].retired = retired]
      /\ fault' = [fault EXCEPT ![s] = broken]
      /\ serial' = [serial EXCEPT ![s].now = kept]
      /\ pc' = [pc EXCEPT ![s] = where]
  <2> DEFINE late == IF \E e \in c.held : Late(e, now) THEN "commit.held_lateness"
                     ELSE IF \E e \in c.edges : Late(e, now) THEN "commit.edge_lateness"
                     ELSE "none"
             cut == IF fault[s] # "none" THEN fault[s]
                    ELSE IF c.ended # "none" THEN Seen(s, "closed")
                    ELSE IF late # "none" THEN "lateness"
                    ELSE "none"
  <2>1. late = "none"
    BY <1>5
  <2>2. cut = broken
    BY <2>1
  <2>3. /\ co' = [co EXCEPT ![s].local = now, ![s].permit = 0,
                            ![s].instructions = IF c.episodeOpen THEN @ - executed ELSE @,
                            ![s].ended = IF @ = "none" THEN late ELSE @]
        /\ link' = [link EXCEPT ![s].retired = IF c.held = {} THEN 0 ELSE @ + executed]
        /\ fault' = [fault EXCEPT ![s] = cut]
        /\ serial' = [serial EXCEPT ![s].now = IF cut = "none" THEN now ELSE @]
        /\ pc' = [pc EXCEPT ![s] = IF cut = "none" THEN "boundary" ELSE "broken"]
    BY DEF Commit, Goto
  <2>4. (IF c.ended = "none" THEN late ELSE c.ended) = c.ended
    BY <2>1
  <2> HIDE DEF late, cut
  <2>5. co' = [co EXCEPT ![s].local = now, ![s].permit = 0, ![s].instructions = left, ![s].ended = @]
    BY <2>3, <2>4
  <2> QED BY <2>2, <2>3, <2>5
<1>7. broken \in Fault \ {"protocol", "lateness"}
  BY <1>1, <1>2 DEF Position, Seen, Fault
<1>8. left \in Nat /\ retired \in Nat /\ kept \in Nat
  <2>1. c.episodeOpen => c.instructions > 0
    BY <1>1, <1>3 DEF Bounded
  <2>2. c.instructions > 0 => c.instructions - executed \in Nat
    BY <1>2
  <2> QED BY <1>2, <1>3, <2>1, <2>2
<1> HIDE DEF broken, left, retired, kept, where, now
<1>9. /\ co'[s] = [co[s] EXCEPT !.local = now, !.permit = 0, !.instructions = left, !.ended = @]
      /\ link'[s] = [link[s] EXCEPT !.retired = retired] /\ fault'[s] = broken
      /\ serial'[s] = [serial[s] EXCEPT !.now = kept] /\ pc'[s] = where
  BY <1>1, <1>6 DEF Shape
<1>10. /\ co'[s] \in Coordinator /\ co'[s].local = now /\ co'[s].permit = 0
       /\ co'[s].peer = c.peer /\ co'[s].progress = c.progress
       /\ co'[s].mark = c.mark /\ co'[s].edges = c.edges /\ co'[s].held = c.held
       /\ co'[s].edgeSequence = c.edgeSequence
  BY ONLY ZenonT(60), <1>2, <1>3, <1>8, <1>9 DEF Coordinator
<1>11. /\ link'[s] \in Bookkeeping
       /\ link'[s].ingress = link[s].ingress /\ link'[s].delivery = link[s].delivery
       /\ link'[s].completed = link[s].completed /\ link'[s].out = link[s].out
       /\ link'[s].waiting = link[s].waiting /\ link'[s].scheduled = link[s].scheduled
       /\ link'[s].sentProgress = link[s].sentProgress /\ link'[s].sentMark = link[s].sentMark
       /\ link'[s].settled = link[s].settled
  BY ONLY <1>2, <1>8, <1>9 DEF Bookkeeping
<1>12. /\ serial'[s] \in SerialCore /\ serial'[s].now = kept
       /\ serial'[s].enabled = serial[s].enabled /\ serial'[s].internal = serial[s].internal
       /\ serial'[s].bits = serial[s].bits /\ serial'[s].target = serial[s].target
  BY ONLY <1>2, <1>8, <1>9 DEF SerialCore
<1>13. where \in {"boundary", "broken"} /\ (where = "boundary" <=> broken = "none")
       /\ (where = "boundary" => kept = now) /\ serial[s].now <= kept
       /\ (broken = "none" => fault[s] = "none")
  BY <1>1, <1>2 DEF where, kept, broken
<1>14. Position(s)'
  <2>1. broken = "none" => link[s].waiting = 0
    BY <1>1, <1>13 DEF Position
  <2> QED BY <1>7, <1>9, <1>10, <1>11, <1>13, <2>1 DEF Position
<1>15. Core(s)'
  <2>1. link[s].sentMark <= kept
    BY <1>1, <1>2, <1>8, <1>13 DEF Core
  <2>2. serial[s].enabled = (serial[s].bits > 0)
    BY <1>1 DEF Core
  <2>3. Clocking(s) =>
          /\ serial[s].target > 0
          /\ IF link[s].waiting = 0 THEN serial[s].target > link[s].sentMark
                                    ELSE serial[s].target >= link[s].sentMark
    BY <1>1 DEF Core
  <2>4. link[s].scheduled <= link[s].sentMark \/ link[s].scheduled = 0
    BY <1>1 DEF Core
  <2>5. pc'[s] \in Settled \cup {"boundary", "exec"} => serial'[s].now = co'[s].local
    BY <1>9, <1>10, <1>12, <1>13 DEF Settled
  <2>6. pc'[s] \notin {"access", "reply"} \cup Settled
    BY <1>9, <1>13 DEF Settled
  <2> QED BY <1>11, <1>12, <2>1, <2>2, <2>3, <2>4, <2>5, <2>6 DEF Core, Clocking
<1>16. Bounded(s)'
  <2>1. /\ c.local + c.permit <= c.peer + QuantumCycles + RearmBudget
        /\ c.local + c.permit <= c.mark + MaxEdgeLateness
        /\ \A e, f \in c.held : e = f
        /\ \A e \in link[s].delivery : e \in c.held /\ e.at <= c.local
        /\ link[s].settled <= c.local /\ link[s].sentProgress <= c.local
    BY <1>1, <1>2, <1>3 DEF Bounded
  <2>2. \A e \in link[s].delivery : e.at \in Nat
    BY <1>2 DEF Edge
  <2>3. /\ now <= c.peer + QuantumCycles + RearmBudget
        /\ now <= c.mark + MaxEdgeLateness
        /\ \A e \in link[s].delivery : e.at <= now
        /\ link[s].settled <= now /\ link[s].sentProgress <= now
    BY <1>2, <1>3, <2>1, <2>2, Constants
  <2>4. now + 0 = now
    BY <1>3
  <2> QED BY <1>4, <1>10, <1>11, <2>1, <2>3, <2>4 DEF Bounded
<1>17. /\ pc' = [pc EXCEPT ![s] = pc'[s]] /\ co' = [co EXCEPT ![s] = co'[s]]
       /\ serial' = [serial EXCEPT ![s] = serial'[s]] /\ link' = [link EXCEPT ![s] = link'[s]]
       /\ fault' = [fault EXCEPT ![s] = fault'[s]]
  BY <1>1, <1>6, <1>9 DEF Shape
<1>18. pc'[s] \in Positions /\ fault'[s] \in Fault
  BY <1>7, <1>9, <1>13 DEF Positions
<1> QED BY <1>1, <1>10, <1>11, <1>12, <1>14, <1>15, <1>16, <1>17, <1>18, LocalKeeps

-----------------------------------------------------------------------------
(* An edge of the internal clock, and its answer *)

\* What a side sends comes last on its way.
LEMMA Sending ==
  ASSUME Shape, NEW s \in Sides, NEW u \in Seq(Message), Send(s, u),
         link'[s].ingress = link[s].ingress, link'[Other(s)].ingress = link[Other(s)].ingress
  PROVE  /\ wire' \in [Sides -> Seq(Message)]
         /\ wire'[s] = wire[s] \o u /\ wire'[Other(s)] = wire[Other(s)]
         /\ Stream(Other(s))' = Stream(Other(s)) \o u /\ Stream(s)' = Stream(s)
<1>1. Other(s) \in Sides /\ Other(s) # s /\ Other(Other(s)) = s
  BY Peers
<1>2. wire[s] \in Seq(Message) /\ link[Other(s)].ingress \in Seq(Message)
  BY <1>1, Typed
<1>3. wire'[s] = wire[s] \o u /\ wire'[Other(s)] = wire[Other(s)]
  BY <1>1 DEF Send, Shape
<1>4. wire' \in [Sides -> Seq(Message)]
  <2>1. wire[s] \o u \in Seq(Message)
    BY <1>2, Joined
  <2> QED BY <1>1, <2>1 DEF Send, Shape
<1>5. link[Other(s)].ingress \o (wire[s] \o u) = (link[Other(s)].ingress \o wire[s]) \o u
  <2>1. \A x, y, z \in Seq(Message) : (x \o y) \o z = x \o (y \o z)
    BY ConcatAssociative
  <2> QED BY <1>2, <2>1
<1>6. Stream(Other(s))' = Stream(Other(s)) \o u
  BY <1>1, <1>3, <1>5 DEF Stream
<1>7. Stream(s)' = Stream(s)
  BY <1>3 DEF Stream
<1> QED BY <1>3, <1>4, <1>6, <1>7

\* Other messages on the way back do not disturb the answers.
LEMMA AnswersMore ==
  ASSUME NEW s \in Sides, NEW o \in Sides, o = Other(s), Placed(s),
         wire[s] \in Seq(Message), NEW u \in Seq(Message), wire'[s] = wire[s] \o u,
         \A j \in DOMAIN u : ~Is(u, j, "EdgeResponse"),
         link'[o].waiting = link[o].waiting, link'[o].out = link[o].out,
         link'[o].scheduled = link[o].scheduled, co'[s].edges = co[s].edges,
         link'[s].delivery = link[s].delivery, link'[s].completed = link[s].completed
  PROVE  Answers(s)'
<1>1. Here(s)' = Here(s)
  BY DEF Here
<1>2. \A i \in DOMAIN wire'[s] : wire'[s][i].type = "EdgeResponse" =>
         i \in DOMAIN wire[s] /\ wire'[s][i] = wire[s][i]
  <2>1. \A i \in DOMAIN (wire[s] \o u) : (wire[s] \o u)[i].type = "EdgeResponse" =>
           i \in DOMAIN wire[s] /\ (wire[s] \o u)[i] = wire[s][i]
    <3> SUFFICES ASSUME NEW i \in DOMAIN (wire[s] \o u), (wire[s] \o u)[i].type = "EdgeResponse"
                 PROVE  i \in DOMAIN wire[s] /\ (wire[s] \o u)[i] = wire[s][i]
      OBVIOUS
    <3>1. CASE i \in DOMAIN wire[s]
      BY <3>1, Joined
    <3>2. CASE \E j \in DOMAIN u : i = Len(wire[s]) + j
      <4>1. PICK j \in DOMAIN u : i = Len(wire[s]) + j
        BY <3>2
      <4>2. (wire[s] \o u)[i] = u[j]
        BY <4>1, Joined
      <4> QED BY <4>1, <4>2 DEF Is
    <3> QED BY <3>1, <3>2, Joined
  <2> QED BY <2>1
<1>3. \A i \in DOMAIN wire[s] : wire[s][i].type = "EdgeResponse" =>
         /\ Answer(s, wire[s][i])
         /\ \A j \in DOMAIN wire[s] : wire[s][j].type = "EdgeResponse" => i = j
  BY DEF Placed, Is
<1>4. \A i \in DOMAIN wire[s] : Answer(s, wire[s][i]) => Answer(s, wire[s][i])'
           \/ wire'[s][i] # wire[s][i]
  BY <1>1 DEF Answer
<1>5. \A i \in DOMAIN wire'[s] : wire'[s][i].type = "EdgeResponse" => Answer(s, wire[s][i])'
  BY <1>2, <1>3, <1>4
<1>6. \A i, j \in DOMAIN wire'[s] :
         wire'[s][i].type = "EdgeResponse" /\ wire'[s][j].type = "EdgeResponse" => i = j
  BY <1>2, <1>3
<1> QED BY <1>5, <1>6 DEF Answers, Is

(* What an edge of the internal clock sends. *)
Volley(n, at, rest) == <<EdgeRequest(n, at), EmissionComplete(at, n)>> \o rest

\* The request comes first, and the other messages say the same.
LEMMA Fired ==
  ASSUME NEW n \in Nat, NEW at \in Nat, NEW p \in Nat, NEW rest,
         rest = <<>> \/ rest = <<Progress(p)>>
  PROVE  LET u == Volley(n, at, rest) IN
         /\ u \in Seq(Message) /\ 1 \in DOMAIN u /\ u[1] = EdgeRequest(n, at)
         /\ \A j \in DOMAIN u : \/ j = 1 \/ u[j] = EmissionComplete(at, n)
                                \/ rest # <<>> /\ u[j] = Progress(p)
<1> DEFINE a == <<EdgeRequest(n, at), EmissionComplete(at, n)>>
           u == Volley(n, at, rest)
<1>1. EdgeRequest(n, at) \in Message /\ EmissionComplete(at, n) \in Message /\ Progress(p) \in Message
  BY Messages
<1>2. /\ a \in Seq(Message) /\ Len(a) = 2 /\ a[1] = EdgeRequest(n, at)
      /\ a[2] = EmissionComplete(at, n) /\ DOMAIN a = 1..2
  <2>1. DOMAIN a = 1..Len(a)
    OBVIOUS
  <2> QED BY <1>1, <2>1
<1>3. /\ rest \in Seq(Message)
      /\ \A j \in DOMAIN rest : rest # <<>> /\ rest[j] = Progress(p)
  <2>1. CASE rest = <<>>
    BY <2>1, EmptySeq
  <2>2. CASE rest = <<Progress(p)>>
    <3>1. /\ <<Progress(p)>> \in Seq(Message) /\ DOMAIN <<Progress(p)>> = 1..1
          /\ <<Progress(p)>>[1] = Progress(p) /\ <<Progress(p)>> # <<>>
      BY <1>1
    <3> QED BY <2>2, <3>1
  <2> QED BY <2>1, <2>2
<1>7. u = a \o rest
  BY DEF Volley
<1> HIDE DEF a, u
<1>8. /\ a \o rest \in Seq(Message)
      /\ \A i \in DOMAIN a : i \in DOMAIN (a \o rest) /\ (a \o rest)[i] = a[i]
      /\ \A j \in DOMAIN rest : (a \o rest)[Len(a) + j] = rest[j]
      /\ \A i \in DOMAIN (a \o rest) : i \in DOMAIN a \/ \E j \in DOMAIN rest : i = Len(a) + j
  BY <1>2, <1>3, Joined
<1>4. /\ u \in Seq(Message)
      /\ \A i \in DOMAIN a : i \in DOMAIN u /\ u[i] = a[i]
      /\ \A j \in DOMAIN rest : u[Len(a) + j] = rest[j]
      /\ \A i \in DOMAIN u : i \in DOMAIN a \/ \E j \in DOMAIN rest : i = Len(a) + j
  BY <1>7, <1>8
<1>5. 1 \in DOMAIN u /\ u[1] = EdgeRequest(n, at)
  BY <1>2, <1>4
<1>6. ASSUME NEW j \in DOMAIN u
      PROVE  j = 1 \/ u[j] = EmissionComplete(at, n) \/ (rest # <<>> /\ u[j] = Progress(p))
  <2>1. CASE j \in DOMAIN a
    <3>1. j = 1 \/ j = 2
      BY <1>2, <2>1
    <3> QED BY <1>2, <1>4, <2>1, <3>1
  <2>2. CASE \E k \in DOMAIN rest : j = Len(a) + k
    BY <1>3, <1>4, <2>2
  <2> QED BY <1>4, <2>1, <2>2
<1> QED BY <1>4, <1>5, <1>6 DEF u

\* An edge that fires lies beyond what was declared complete, is the next one,
\* and is the only one that is not applied.
LEMMA FireEdgeKeeps ==
  ASSUME IInv, NEW s \in Sides, FireEdge(s)
  PROVE  IInv'
<1> DEFINE o == Other(s)
           l == link[s]
           n == l.out + 1
           at == serial[s].target
           rest == IF l.settled > l.sentProgress THEN <<Progress(l.settled)>> ELSE <<>>
           u == <<EdgeRequest(n, at), EmissionComplete(at, n)>> \o rest
           next == IF rest = <<>> THEN l.sentProgress ELSE l.settled
<1>1. /\ o \in Sides /\ o # s /\ Other(o) = s
      /\ Shape /\ Own(s) /\ Own(o) /\ Received(s) /\ Received(o) /\ Placed(s) /\ Placed(o)
      /\ Position(s) /\ Core(s) /\ Bounded(s) /\ Outstanding(fences[s].sent, fences[s].started)
      /\ pc[s] \in {"access", "boundary"} /\ EdgeDue(s)
  BY Peers, Sidewise DEF FireEdge
<1>2. /\ l.out \in Nat /\ l.settled \in Nat /\ l.sentProgress \in Nat /\ l.sentMark \in Int
      /\ at \in Nat /\ serial[s].now \in Nat /\ l \in Bookkeeping /\ wire[s] \in Seq(Message)
      /\ Stream(o) \in Seq(Message) /\ co[s].local \in Nat /\ co[s].permit \in Nat
      /\ fences[s].started \in Nat /\ fences[s].seen \in Nat /\ fences[o].seen \in Nat
      /\ fences[s].owed \in Seq([id : Nat, through : Nat]) /\ co[o].peer \in Nat
      /\ co[o].mark \in Int /\ link[o].out \in Nat
  BY <1>1, Typed, Numbers
<1>3. /\ l.waiting = 0 /\ fault[s] = "none" /\ Clocking(s) /\ at <= serial[s].now
      /\ at > l.sentMark /\ at > 0
  BY <1>1 DEF Position, Core, EdgeDue
<1>4. CASE ~Usable(s)
  <2>1. SerialFault(s, "closed") /\ "closed" \in Fault \ {"none", "protocol", "lateness"}
    BY <1>4 DEF FireEdge, Fault
  <2> QED BY <1>1, <2>1, SerialFaultKeeps
<1>5. CASE Usable(s)
  <2>1. /\ Send(s, u)
        /\ link' = [link EXCEPT ![s].out = n, ![s].waiting = n, ![s].scheduled = at,
                                ![s].sentMark = at, ![s].sentProgress = next]
        /\ pc' = [pc EXCEPT ![s] = "reply"]
        /\ mode' = mode /\ co' = co /\ serial' = serial /\ fences' = fences /\ open' = open
        /\ fault' = fault
    <3>1. ~(at <= l.sentMark)
      BY <1>2, <1>3
    <3> QED BY <1>5, <3>1 DEF FireEdge, Goto
  <2>2. n \in Nat /\ n > 0 /\ n - 1 = l.out /\ next \in Nat /\ l.sentProgress <= next /\ next <= co[s].local
        /\ (rest # <<>> => next = l.settled)
    <3>1. l.settled <= co[s].local /\ l.sentProgress <= co[s].local
      BY <1>1 DEF Bounded
    <3>2. <<Progress(l.settled)>> # <<>>
      OBVIOUS
    <3>3. rest # <<>> => l.settled > l.sentProgress
      OBVIOUS
    <3>4. \A k \in Nat : k + 1 \in Nat /\ k + 1 > 0 /\ (k + 1) - 1 = k
      OBVIOUS
    <3>5. n \in Nat /\ n > 0 /\ n - 1 = l.out
      BY ONLY <3>4, <1>2
    <3>6. l.sentProgress \in Nat /\ l.settled \in Nat /\ l.sentProgress <= l.sentProgress
      BY <1>2
    <3>7. (rest = <<>> /\ next = l.sentProgress) \/ (rest # <<>> /\ next = l.settled)
      OBVIOUS
    <3> HIDE DEF rest, next
    <3>8. rest # <<>> => l.sentProgress <= l.settled
      BY <3>3, <3>6
    <3>9. next \in Nat /\ l.sentProgress <= next /\ next <= co[s].local /\ (rest # <<>> => next = l.settled)
      BY <3>1, <3>6, <3>7, <3>8
    <3> QED BY <3>5, <3>9
  <2>3. rest \in {<<>>, <<Progress(l.settled)>>}
    OBVIOUS
  <2>4. /\ u \in Seq(Message) /\ 1 \in DOMAIN u /\ u[1] = EdgeRequest(n, at)
        /\ \A j \in DOMAIN u : \/ j = 1 \/ u[j] = EmissionComplete(at, n)
                               \/ rest # <<>> /\ u[j] = Progress(l.settled)
    <3> HIDE DEF rest, n, at
    <3>1. n \in Nat /\ at \in Nat /\ l.settled \in Nat
      BY <1>2, <2>2 DEF at
    <3>2. u = Volley(n, at, rest)
      BY DEF Volley
    <3>3. rest = <<>> \/ rest = <<Progress(l.settled)>>
      BY <2>3
    <3> HIDE DEF u
    <3> DEFINE p == l.settled
               y == Volley(n, at, rest)
    <3>4. /\ y \in Seq(Message) /\ 1 \in DOMAIN y /\ y[1] = EdgeRequest(n, at)
          /\ \A j \in DOMAIN y : \/ j = 1 \/ y[j] = EmissionComplete(at, n)
                                 \/ rest # <<>> /\ y[j] = Progress(p)
      <4>1. n \in Nat /\ at \in Nat /\ p \in Nat
        BY <3>1
      <4>2. rest = <<>> \/ rest = <<Progress(p)>>
        BY <3>3
      <4> HIDE DEF p
      <4>3. y \in Seq(Message)
        BY ONLY <4>1, <4>2, Fired
      <4>4. 1 \in DOMAIN y
        BY ONLY <4>1, <4>2, Fired
      <4>5. y[1] = EdgeRequest(n, at)
        BY ONLY <4>1, <4>2, Fired
      <4>6. \A j \in DOMAIN y : j = 1 \/ y[j] = EmissionComplete(at, n) \/ (rest # <<>> /\ y[j] = Progress(p))
        BY ONLY <4>1, <4>2, Fired
      <4> QED BY <4>3, <4>4, <4>5, <4>6
    <3> QED BY <3>2, <3>4
  <2> DEFINE v == Stream(o) \o u
  <2> HIDE DEF u, rest, n, next, v
  <2>5. /\ link'[s] = [l EXCEPT !.out = n, !.waiting = n, !.scheduled = at,
                                !.sentMark = at, !.sentProgress = next]
        /\ link'[o] = link[o] /\ pc'[s] = "reply" /\ pc'[o] = pc[o]
    BY <1>1, <2>1 DEF Shape
  <2>6. /\ link'[s] \in Bookkeeping /\ link'[s].out = n /\ link'[s].waiting = n
        /\ link'[s].scheduled = at /\ link'[s].sentMark = at /\ link'[s].sentProgress = next
        /\ link'[s].ingress = l.ingress /\ link'[s].delivery = l.delivery
        /\ link'[s].completed = l.completed /\ link'[s].settled = l.settled
    BY ONLY ZenonT(60), <1>2, <2>2, <2>5 DEF Bookkeeping
  <2>7. /\ wire' \in [Sides -> Seq(Message)]
        /\ wire'[s] = wire[s] \o u /\ wire'[o] = wire[o]
        /\ Stream(o)' = v /\ Stream(s)' = Stream(s)
    BY <1>1, <2>1, <2>4, <2>5, <2>6, Sending DEF v
  <2>8. Shape'
    <3>1. link' \in [Sides -> Bookkeeping]
      BY <1>1, <2>1, <2>5, <2>6 DEF Shape
    <3>2. pc' \in [Sides -> Positions]
      BY <1>1, <2>1 DEF Shape, Positions
    <3> QED BY <1>1, <2>1, <2>7, <3>1, <3>2 DEF Shape
  <2>9. Own(s)'
    <3>1. Position(s)'
      BY <1>1, <1>3, <2>1, <2>5, <2>6 DEF Position
    <3>2. Core(s)'
      <4>1. co[s].local <= serial[s].now /\ (co[s].permit = 0 => serial[s].now = co[s].local)
        <5>1. pc[s] = "access" => co[s].permit > 0
          BY <1>1 DEF Position
        <5> QED BY <1>1, <1>2, <5>1 DEF Core
      <4>2. at <= at /\ n # 0
        BY SMTT(30), <1>2, <2>2
      <4>3. serial[s].enabled = (serial[s].bits > 0)
        BY <1>1 DEF Core
      <4> QED BY <1>3, <2>1, <2>5, <2>6, <4>1, <4>2, <4>3 DEF Core, Clocking, Settled
    <3>3. Bounded(s)'
      BY <1>1, <2>1, <2>2, <2>6 DEF Bounded
    <3>4. Outstanding(fences[s].sent, fences[s].started)'
      BY <1>1, <2>1 DEF Outstanding
    <3> QED BY <3>1, <3>2, <3>3, <3>4 DEF Own
  <2>10. Own(o)'
    BY <1>1, <2>1, <2>5, OwnSame
  <2>11. Received(s)'
    BY <1>1, <2>1, <2>5, <2>7, ReceivedSame
  <2>12. Received(o)'
    <3>1. co[o].peer <= l.sentProgress /\ Owed(fences[s].owed, fences[s].seen, fences[o].sent)
      BY <1>1 DEF Received
    <3>2. (co[o].peer <= link[s].sentProgress)'
      <4>1. \A a, b, c \in Nat : a <= b /\ b <= c => a <= c
        OBVIOUS
      <4>2. co[o].peer <= next
        BY <1>2, <2>2, <3>1, <4>1
      <4> QED BY <2>1, <2>6, <4>2
    <3>3. Owed(fences[s].owed, fences[s].seen, fences[o].sent)'
      BY <2>1, <3>1 DEF Owed
    <3>4. ASSUME open[o]
          PROVE  /\ Announced(v, co[o].progress, co[o].peer, next)
                 /\ Numbered(v, co[o].edgeSequence, n, at)
                 /\ Declared(v, co[o].mark, at)
                 /\ Fenced(v, fences[o].seen, fences[s].started, fences[s].sent)
                 /\ Acked(v, fences[s].owed, fences[s].seen, fences[o].sent)
      <4>1. /\ Announced(Stream(o), co[o].progress, co[o].peer, l.sentProgress)
            /\ Numbered(Stream(o), co[o].edgeSequence, l.out, l.scheduled)
            /\ Declared(Stream(o), co[o].mark, l.sentMark)
            /\ Fenced(Stream(o), fences[o].seen, fences[s].started, fences[s].sent)
            /\ Acked(Stream(o), fences[s].owed, fences[s].seen, fences[o].sent)
        BY <1>1, <3>4 DEF Received
      <4>2. ~Asking(Stream(o))
        BY <1>1, <1>3, <3>4 DEF Placed
      <4> DEFINE w == Stream(o)
      <4> HIDE DEF w
      <4>3. /\ u[1].type = "EdgeRequest" /\ u[1].id = n /\ u[1].at = at
            /\ \A j \in DOMAIN u :
                 /\ u[j].type = "EdgeRequest" => j = 1 /\ u[j].at = at
                 /\ u[j].type = "EmissionComplete" => u[j].id = n /\ u[j].at = at
                 /\ u[j].type = "Progress" => u[j].at = next
                 /\ u[j].type \notin {"Fence", "FenceAck", "EdgeResponse"}
        <5>1. /\ EdgeRequest(n, at).type = "EdgeRequest" /\ EdgeRequest(n, at).id = n
              /\ EdgeRequest(n, at).at = at
              /\ EmissionComplete(at, n).type = "EmissionComplete"
              /\ EmissionComplete(at, n).id = n /\ EmissionComplete(at, n).at = at
              /\ Progress(l.settled).type = "Progress" /\ Progress(l.settled).at = l.settled
          BY DEF EdgeRequest, EmissionComplete, Progress
        <5> QED BY <2>2, <2>4, <5>1
      <4>4. Announced(w \o u, co[o].progress, co[o].peer, next)
        BY <1>2, <2>2, <2>4, <4>1, <4>3, AnnouncedMore DEF Is, w
      <4>5. Numbered(w \o u, co[o].edgeSequence, n, at)
        <5>1. Numbered(w \o u, co[o].edgeSequence, l.out + 1, at)
          BY <1>2, <2>2, <2>4, <4>1, <4>2, <4>3, NumberedNext DEF Is, w, n
        <5> QED BY <5>1 DEF n
      <4>6. Declared(w \o u, co[o].mark, at)
        <5>1. /\ w \in Seq(Message) /\ u \in Seq(Message) /\ co[o].mark \in Int /\ l.sentMark \in Int
              /\ at \in Int /\ Declared(w, co[o].mark, l.sentMark) /\ l.sentMark <= at
              /\ \A j \in DOMAIN u : /\ Is(u, j, "EmissionComplete") => u[j].at = at
                                     /\ Is(u, j, "EdgeRequest") => j = 1 /\ l.sentMark < u[j].at
          <6>1. l.sentMark <= at /\ l.sentMark < at /\ at \in Int
            BY SMTT(30), <1>2, <1>3
          <6> QED BY <1>2, <2>4, <4>1, <4>3, <6>1 DEF Is, w
        <5> QED BY ONLY <5>1, DeclaredMore
      <4>7. Fenced(w \o u, fences[o].seen, fences[s].started, fences[s].sent)
        <5>1. /\ w \in Seq(Message) /\ u \in Seq(Message) /\ fences[o].seen \in Nat
              /\ fences[s].started \in Nat
              /\ Fenced(w, fences[o].seen, fences[s].started, fences[s].sent)
              /\ \A j \in DOMAIN u : ~Is(u, j, "Fence")
          BY <1>2, <2>4, <4>1, <4>3 DEF Is, w
        <5>2. fences[s].started # fences[s].started + 1
          BY SMTT(30), <1>2
        <5> QED BY ONLY <5>1, <5>2, FencedMore
      <4>8. Acked(w \o u, fences[s].owed, fences[s].seen, fences[o].sent)
        <5>1. \A k \in DOMAIN fences[s].owed : 0 + k \in DOMAIN fences[s].owed /\ fences[s].owed[k] = fences[s].owed[0 + k]
          <6>1. DOMAIN fences[s].owed = 1..Len(fences[s].owed) /\ Len(fences[s].owed) \in Nat
            BY <1>2, LenProperties
          <6>2. \A k \in DOMAIN fences[s].owed : 0 + k = k
            BY <6>1
          <6> QED BY <6>2
        <5>2. /\ w \in Seq(Message) /\ u \in Seq(Message) /\ fences[s].seen \in Nat
              /\ fences[s].owed \in Seq([id : Nat, through : Nat]) /\ 0 \in Nat
              /\ Owed(fences[s].owed, fences[s].seen, fences[o].sent)
              /\ Acked(w, fences[s].owed, fences[s].seen, fences[o].sent)
              /\ \A j \in DOMAIN u : ~Is(u, j, "FenceAck")
          BY <1>2, <2>4, <3>1, <4>1, <4>3 DEF Is, w
        <5> QED BY ONLY <5>1, <5>2, AckedMore
      <4> QED BY <4>4, <4>5, <4>6, <4>7, <4>8 DEF w, v
    <3>5. open'[o] => Announced(Stream(o), co[o].progress, co[o].peer, link[s].sentProgress)'
      BY <2>1, <2>6, <2>7, <3>4 DEF Announced, Is
    <3>6. open'[o] => Numbered(Stream(o), co[o].edgeSequence, link[s].out, link[s].scheduled)'
      <4> SUFFICES ASSUME open[o]
                   PROVE  Numbered(Stream(o), co[o].edgeSequence, link[s].out, link[s].scheduled)'
        BY <2>1
      <4>1. Numbered(v, co[o].edgeSequence, n, at)
        BY <3>4
      <4>2. /\ Stream(o)' = v /\ co'[o].edgeSequence = co[o].edgeSequence /\ link'[s].out = n
            /\ link'[s].scheduled = at
        BY <2>1, <2>6, <2>7
      <4> HIDE DEF at
      <4> QED BY ONLY <4>1, <4>2 DEF Numbered, Is, Through, Asking
    <3>7. open'[o] => Declared(Stream(o), co[o].mark, link[s].sentMark)'
      BY <2>1, <2>6, <2>7, <3>4 DEF Declared, Is
    <3>8. open'[o] => Fenced(Stream(o), fences[o].seen, fences[s].started, fences[s].sent)'
      BY <2>1, <2>7, <3>4 DEF Fenced, Is
    <3>9. open'[o] => Acked(Stream(o), fences[s].owed, fences[s].seen, fences[o].sent)'
      BY <2>1, <2>7, <3>4 DEF Acked, Is
    <3> QED BY <1>1, <3>2, <3>3, <3>5, <3>6, <3>7, <3>8, <3>9 DEF Received
  <2>13. Placed(s)'
    <3>1. \A j \in DOMAIN u : u[j].type # "EdgeResponse"
      <4>1. /\ EdgeRequest(n, at).type = "EdgeRequest"
            /\ EmissionComplete(at, n).type = "EmissionComplete"
            /\ Progress(l.settled).type = "Progress"
        BY DEF EdgeRequest, EmissionComplete, Progress
      <4> QED BY <2>4, <4>1
    <3>2. Answers(s)'
      <4>1. \A j \in DOMAIN u : ~Is(u, j, "EdgeResponse")
        BY <3>1 DEF Is
      <4>2. /\ co'[s].edges = co[s].edges /\ link'[s].delivery = link[s].delivery
            /\ link'[s].completed = link[s].completed /\ wire'[s] = wire[s] \o u
            /\ wire[s] \in Seq(Message) /\ u \in Seq(Message) /\ link'[o] = link[o]
        BY <1>2, <2>1, <2>4, <2>5, <2>6, <2>7
      <4> QED BY <1>1, <4>1, <4>2, AnswersMore
    <3>3. Asking(Stream(s))' <=> Asking(Stream(s))
      BY <2>7 DEF Asking, Is
    <3> QED BY <1>1, <2>1, <2>5, <2>6, <2>7, <3>2, <3>3, PlacedStill
  <2>14. Placed(o)'
    <3>1. Here(o) = {} /\ link[o].completed = 1..l.out
      BY <1>1, <1>3 DEF Placed
    <3>2. \A i \in DOMAIN wire[o] : wire[o][i].type # "EdgeResponse"
      BY <1>1, <1>3 DEF Placed, Answer, Is
    <3>3. Here(o)' = {} /\ link'[o].completed = 1..(n - 1)
      BY <2>1, <2>2, <2>5, <3>1 DEF Here
    <3>4. co'[o].edges \cap link'[o].delivery = {}
      BY <1>1, <2>1, <2>5 DEF Placed
    <3>5. n # 0
      BY <2>2
    <3> QED BY <1>1, <2>2, <2>6, <2>7, <3>2, <3>3, <3>4, <3>5 DEF Placed, Is
  <2> QED BY <1>1, <2>8, <2>9, <2>10, <2>11, <2>12, <2>13, <2>14, BothSides
<1> QED BY <1>4, <1>5

\* What one more edge of a transfer leaves of the core.
LEMMA Shifted ==
  ASSUME NEW core \in SerialCore, core.enabled = (core.bits > 0)
  PROVE  /\ Shift(core) \in SerialCore
         /\ Shift(core).enabled = (Shift(core).bits > 0)
         /\ Shift(core).now = core.now
         /\ Shift(core).internal = core.internal
         /\ Shift(core).enabled /\ Shift(core).internal =>
              core.enabled /\ core.internal /\ Shift(core).target = core.target + EdgePeriod
<1> DEFINE r == Shift(core)
<1>1. /\ core.bits \in Nat /\ core.bits <= ByteBits /\ core.target \in Nat
      /\ EdgePeriod \in Nat /\ ByteBits \in Nat
  BY Constants DEF SerialCore
<1>2. CASE core.bits > 1
  <2> DEFINE b == core.bits - 1
             t == IF core.internal THEN core.target + EdgePeriod ELSE core.target
  <2>1. r = [core EXCEPT !.bits = b, !.target = t]
    BY <1>2 DEF Shift
  <2>2. b \in 0..ByteBits /\ b > 0 /\ t \in Nat /\ (core.internal => t = core.target + EdgePeriod)
    BY <1>1, <1>2
  <2>3. core.enabled
    <3>1. core.bits > 0
      BY <1>1, <1>2
    <3> QED BY <3>1
  <2> HIDE DEF b, t, r
  <2>4. /\ r \in SerialCore /\ r.bits = b /\ r.target = t /\ r.now = core.now
        /\ r.internal = core.internal /\ r.enabled = core.enabled
    BY ONLY <2>1, <2>2, core \in SerialCore DEF SerialCore
  <2>5. (core.bits > 0) <=> (b > 0)
    BY <1>1, <1>2, <2>2
  <2> QED BY <2>2, <2>3, <2>4, <2>5 DEF r
<1>3. CASE ~(core.bits > 1)
  <2>1. r = [core EXCEPT !.bits = 0, !.enabled = FALSE, !.target = 0]
    BY <1>3 DEF Shift
  <2>2. PICK no \in BOOLEAN, z \in Nat : no = FALSE /\ z = 0 /\ z \in 0..ByteBits /\ ~(z > 0)
    <3>1. ~(0 > 0) /\ 0 \in 0..ByteBits
      BY <1>1
    <3> WITNESS FALSE \in BOOLEAN, 0 \in Nat
    <3> QED BY <3>1
  <2>3. r = [core EXCEPT !.bits = z, !.enabled = no, !.target = z]
    BY <2>1, <2>2
  <2> HIDE DEF r
  <2>4. /\ r \in SerialCore /\ r.enabled = no /\ r.bits = z /\ r.now = core.now
        /\ r.internal = core.internal
    BY ONLY <2>2, <2>3, core \in SerialCore DEF SerialCore
  <2>5. ~r.enabled /\ ~(r.bits > 0)
    BY <2>2, <2>4
  <2>6. r.enabled = (r.bits > 0)
    BY <2>2, <2>4, <2>5
  <2> QED BY <2>4, <2>5, <2>6 DEF r
<1> QED BY <1>2, <1>3

\* The answer is that of the edge the side waits for, in time; the edge was
\* applied, and there is no other.
LEMMA TakeResponseKeeps ==
  ASSUME IInv, NEW s \in Sides, TakeResponse(s)
  PROVE  IInv'
<1> DEFINE o == Other(s)
           l == link[s]
           b == wire[o]
           m == Head(b)
           w == Stream(s)
           v == l.ingress \o Tail(b)
           d == Len(l.ingress) + 1
           r == Shift(serial[s])
           where == IF co[s].permit > 0 THEN "access" ELSE "boundary"
<1>1. /\ o \in Sides /\ o # s /\ Other(o) = s
      /\ Shape /\ Own(s) /\ Own(o) /\ Received(s) /\ Received(o) /\ Placed(s) /\ Placed(o)
      /\ Position(s) /\ Core(s) /\ Bounded(s) /\ Outstanding(fences[s].sent, fences[s].started)
      /\ pc[s] = "reply" /\ open[s] /\ b # <<>> /\ m.type = "EdgeResponse"
  BY Peers, Sidewise DEF TakeResponse, Replying, Usable, Incoming
<1>2. /\ l.out \in Nat /\ l.scheduled \in Nat /\ l \in Bookkeeping /\ b \in Seq(Message)
      /\ l.ingress \in Seq(Message) /\ serial[s] \in SerialCore /\ serial[s].target \in Nat
      /\ l.sentMark \in Int /\ l.sentProgress \in Nat
      /\ co[s].permit \in Nat /\ co[s].progress \in Nat /\ co[s].peer \in Nat /\ co[s].mark \in Int
      /\ link[o].sentProgress \in Nat /\ link[o].out \in Nat /\ link[o].sentMark \in Int
      /\ fences[s].seen \in Nat /\ fences[o].started \in Nat /\ fences[o].seen \in Nat
      /\ fences[o].owed \in Seq([id : Nat, through : Nat])
  BY <1>1, Typed, Numbers
<1>3. /\ 1 \in DOMAIN b /\ m = b[1] /\ m \in Message /\ m.at \in Nat
      /\ Tail(b) \in Seq(Message) /\ DOMAIN Tail(b) \subseteq Nat
      /\ \A i \in DOMAIN Tail(b) : i + 1 \in DOMAIN b /\ Tail(b)[i] = b[i + 1] /\ i + 1 # 1
  <2>1. 1 \in DOMAIN b /\ m = b[1] /\ m \in Message /\ DOMAIN b = 1..Len(b) /\ Len(b) \in Nat
    BY <1>1, <1>2, Elements
  <2>2. m.at \in Nat
    BY <1>1, <2>1, Fields
  <2>3. /\ Tail(b) \in Seq(Message) /\ Len(Tail(b)) = Len(b) - 1
        /\ \A i \in 1..Len(Tail(b)) : Tail(b)[i] = b[i + 1]
    BY <1>1, <1>2, HeadTailProperties
  <2>4. DOMAIN Tail(b) = 1..Len(Tail(b))
    BY <2>3, Elements
  <2>5. \A i \in 1..(Len(b) - 1) : i + 1 \in 1..Len(b) /\ i + 1 # 1 /\ i \in Nat
    BY <2>1
  <2> QED BY <2>1, <2>2, <2>3, <2>4, <2>5
<1>4. /\ Answer(o, m)
      /\ \A j \in DOMAIN b : b[j].type = "EdgeResponse" => j = 1
  BY <1>1, <1>3 DEF Placed, Is
<1>5. /\ l.waiting # 0 /\ m.id = l.waiting /\ l.scheduled <= m.at
      /\ m.at <= l.scheduled + MaxEdgeLateness
      /\ Here(o) = {} /\ link[o].completed = 1..l.out
  BY <1>1, <1>4 DEF Answer
<1>6. /\ Thinned(v, w, d) /\ w[d] = m
  BY <1>1, <1>2, Thinning DEF Stream
<1>7. /\ wire' = [wire EXCEPT ![o] = Tail(@)] /\ link' = [link EXCEPT ![s].waiting = 0]
      /\ serial' = [serial EXCEPT ![s] = r] /\ pc' = [pc EXCEPT ![s] = where]
      /\ mode' = mode /\ co' = co /\ fences' = fences /\ open' = open /\ fault' = fault
  <2>1. ~(m.id # l.waiting \/ m.at < l.scheduled \/ m.at > l.scheduled + MaxEdgeLateness)
    BY SMTT(30), <1>2, <1>3, <1>5, Constants
  <2> QED BY <2>1 DEF TakeResponse, Goto, Incoming
<1>8. /\ link'[s] = [l EXCEPT !.waiting = 0] /\ link'[o] = link[o] /\ pc'[s] = where
      /\ pc'[o] = pc[o] /\ serial'[s] = r /\ serial'[o] = serial[o]
      /\ wire'[o] = Tail(b) /\ wire'[s] = wire[s]
  BY <1>1, <1>7 DEF Shape
<1>9. /\ link'[s] \in Bookkeeping /\ link'[s].waiting = 0
      /\ link'[s].out = l.out /\ link'[s].scheduled = l.scheduled
      /\ link'[s].sentMark = l.sentMark /\ link'[s].sentProgress = l.sentProgress
      /\ link'[s].ingress = l.ingress /\ link'[s].delivery = l.delivery
      /\ link'[s].completed = l.completed /\ link'[s].settled = l.settled
  <2>1. link'[s] = [l EXCEPT !.waiting = 0] /\ 0 \in Nat /\ l \in Bookkeeping
    BY <1>2, <1>8
  <2> HIDE DEF l
  <2> QED BY ONLY <2>1 DEF Bookkeeping
<1>10. where \in Positions /\ where \in {"access", "boundary"}
       /\ (where = "access" <=> co[s].permit > 0)
  BY DEF Positions
<1>11. /\ r \in SerialCore /\ r.enabled = (r.bits > 0) /\ r.now = serial[s].now
       /\ r.enabled /\ r.internal =>
            serial[s].enabled /\ serial[s].internal /\ r.target = serial[s].target + EdgePeriod
  BY <1>1, <1>2, Shifted DEF Core
<1>12. Stream(s)' = v /\ Stream(o)' = Stream(o)
  BY <1>1, <1>8, <1>9 DEF Stream
<1> HIDE DEF v, w, d, m, b, r, where
<1>13. Shape'
  <2>1. pc' \in [Sides -> Positions]
    BY <1>1, <1>7, <1>10 DEF Shape
  <2>2. link' \in [Sides -> Bookkeeping]
    BY <1>1, <1>7, <1>9 DEF Shape
  <2>3. serial' \in [Sides -> SerialCore]
    BY <1>1, <1>7, <1>11 DEF Shape
  <2>4. wire' \in [Sides -> Seq(Message)]
    BY <1>1, <1>3, <1>7 DEF Shape, b
  <2> QED BY <1>1, <1>7, <2>1, <2>2, <2>3, <2>4 DEF Shape
<1>14. Own(s)'
  <2>1. Position(s)'
    BY <1>1, <1>2, <1>7, <1>8, <1>9, <1>10 DEF Position
  <2>2. Core(s)'
    <3>1. r.enabled /\ r.internal => r.target > 0 /\ r.target > l.sentMark
      <4>1. r.enabled /\ r.internal => serial[s].target > 0 /\ serial[s].target >= l.sentMark
        BY <1>1, <1>5, <1>11 DEF Core, Clocking
      <4>2. r.enabled /\ r.internal => r.target = serial[s].target + EdgePeriod
        BY ONLY <1>11
      <4>3. EdgePeriod \in Nat \ {0} /\ serial[s].target \in Nat /\ l.sentMark \in Int
        BY <1>2, Constants
      <4>4. \A t, u, p, a \in Int :
              t = u + p /\ p > 0 /\ u > 0 /\ u >= a => t > 0 /\ t > a
        OBVIOUS
      <4>5. EdgePeriod \in Int /\ EdgePeriod > 0 /\ serial[s].target \in Int
        BY ONLY <4>3
      <4>6. r.target \in Int \/ ~(r.enabled /\ r.internal)
        BY ONLY <4>2, <4>5
      <4> QED BY ONLY <4>1, <4>2, <4>3, <4>4, <4>5, <4>6
    <3>2. /\ where = "boundary" => r.now = co[s].local
          /\ where = "access" => co[s].local <= r.now
      <4>1. /\ co[s].permit = 0 => serial[s].now = co[s].local
            /\ co[s].local <= serial[s].now
        BY <1>1 DEF Core
      <4>2. where = "boundary" => co[s].permit = 0
        BY SMTT(30), <1>2, <1>10
      <4> QED BY <1>11, <4>1, <4>2
    <3>3. l.sentMark <= r.now /\ (l.scheduled <= l.sentMark \/ l.scheduled = 0)
      BY <1>1, <1>11 DEF Core
    <3> QED BY <1>7, <1>8, <1>9, <1>10, <1>11, <3>1, <3>2, <3>3 DEF Core, Clocking, Settled
  <2>3. Bounded(s)'
    BY <1>1, <1>7, <1>9 DEF Bounded
  <2>4. Outstanding(fences[s].sent, fences[s].started)'
    BY <1>1, <1>7 DEF Outstanding
  <2> QED BY <2>1, <2>2, <2>3, <2>4 DEF Own
<1>15. Own(o)'
  BY <1>1, <1>7, <1>8, OwnSame
<1>16. /\ Announced(w, co[s].progress, co[s].peer, link[o].sentProgress)
       /\ Numbered(w, co[s].edgeSequence, link[o].out, link[o].scheduled)
       /\ Declared(w, co[s].mark, link[o].sentMark)
       /\ Fenced(w, fences[s].seen, fences[o].started, fences[o].sent)
       /\ Acked(w, fences[o].owed, fences[o].seen, fences[s].sent)
  BY <1>1 DEF Received, w
<1>17. w[d].type = "EdgeResponse"
  BY <1>1, <1>6
<1>18. Numbered(v, co[s].edgeSequence, link[o].out, link[o].scheduled) /\ (Asking(v) <=> Asking(w))
  <2>1. /\ Thinned(v, w, d) /\ w[d].type # "EdgeRequest" /\ link[o].out \in Nat
        /\ Numbered(w, co[s].edgeSequence, link[o].out, link[o].scheduled)
    BY <1>2, <1>6, <1>16, <1>17
  <2> QED BY ONLY <2>1, NumberedLess
<1>19. Announced(v, co[s].progress, co[s].peer, link[o].sentProgress)
  <2>1. /\ Thinned(v, w, d) /\ w[d].type # "Progress" /\ co[s].progress \in Nat /\ co[s].peer \in Nat
        /\ link[o].sentProgress \in Nat
        /\ Announced(w, co[s].progress, co[s].peer, link[o].sentProgress)
    BY <1>2, <1>6, <1>16, <1>17
  <2> QED BY ONLY <2>1, AnnouncedLess
<1>20. Declared(v, co[s].mark, link[o].sentMark)
  <2>1. /\ Thinned(v, w, d) /\ co[s].mark \in Int /\ link[o].sentMark \in Int
        /\ Declared(w, co[s].mark, link[o].sentMark)
    BY <1>2, <1>6, <1>16
  <2> QED BY ONLY <2>1, DeclaredLess
<1>21. Fenced(v, fences[s].seen, fences[o].started, fences[o].sent)
  <2>1. /\ Thinned(v, w, d) /\ w[d].type # "Fence" /\ fences[s].seen \in Nat
        /\ fences[o].started \in Nat
        /\ Fenced(w, fences[s].seen, fences[o].started, fences[o].sent)
    BY <1>2, <1>6, <1>16, <1>17
  <2> QED BY ONLY <2>1, FencedLess
<1>22. Acked(v, fences[o].owed, fences[o].seen, fences[s].sent)
  <2>1. /\ Thinned(v, w, d) /\ fences[o].seen \in Nat
        /\ fences[o].owed \in Seq([id : Nat, through : Nat])
        /\ Acked(w, fences[o].owed, fences[o].seen, fences[s].sent)
    BY <1>2, <1>6, <1>16
  <2> QED BY ONLY <2>1, AckedLess
<1>23. Received(s)'
  <2>1. (co[s].peer <= link[o].sentProgress)'
    BY <1>1, <1>7, <1>8 DEF Received
  <2>2. Owed(fences[o].owed, fences[o].seen, fences[s].sent)'
    BY <1>1, <1>7 DEF Owed, Received
  <2>3. Announced(Stream(s), co[s].progress, co[s].peer, link[o].sentProgress)'
    BY <1>7, <1>8, <1>12, <1>19 DEF Announced, Is
  <2>4. Numbered(Stream(s), co[s].edgeSequence, link[o].out, link[o].scheduled)'
    BY <1>7, <1>8, <1>12, <1>18 DEF Numbered, Is, Through, Asking
  <2>5. Declared(Stream(s), co[s].mark, link[o].sentMark)'
    BY <1>7, <1>8, <1>12, <1>20 DEF Declared, Is
  <2>6. Fenced(Stream(s), fences[s].seen, fences[o].started, fences[o].sent)'
    BY <1>7, <1>8, <1>12, <1>21 DEF Fenced, Is
  <2>7. Acked(Stream(s), fences[o].owed, fences[o].seen, fences[s].sent)'
    BY <1>7, <1>8, <1>12, <1>22 DEF Acked, Is
  <2> QED BY <2>1, <2>2, <2>3, <2>4, <2>5, <2>6, <2>7 DEF Received
<1>24. Received(o)'
  BY <1>1, <1>7, <1>9, <1>12, ReceivedSame
<1>25. Placed(s)'
  <2>1. Answers(s)'
    BY <1>1, <1>7, <1>8, <1>9, AnswersSame
  <2>2. open'[s] => open[s] /\ (Asking(Stream(s))' => Asking(Stream(s)))
    BY <1>7, <1>12, <1>18 DEF w, Asking, Is
  <2> QED BY <1>1, <1>7, <1>8, <1>9, <2>1, <2>2, PlacedStill
<1>26. Placed(o)'
  <2>1. /\ l.waiting = l.out /\ l.out > 0
    BY <1>1, <1>5 DEF Placed
  <2>2. ~(open[o] /\ Asking(Stream(o)))
    <3>1. 1..l.out # 1..(l.out - 1)
      BY <1>2, <2>1, Upto
    <3> QED BY <1>1, <1>5, <3>1 DEF Placed
  <2>3. ~(open'[o] /\ Asking(Stream(o))')
    BY <1>7, <1>12, <2>2 DEF Asking, Is
  <2>4. \A i \in DOMAIN wire'[o] : wire'[o][i].type # "EdgeResponse"
    BY <1>3, <1>4, <1>8
  <2>5. Here(o)' = {} /\ link'[o].completed = 1..l.out
    BY <1>5, <1>7, <1>8 DEF Here
  <2>6. co'[o].edges \cap link'[o].delivery = {}
    BY <1>1, <1>7, <1>8 DEF Placed
  <2> QED BY <1>1, <1>9, <2>3, <2>4, <2>5, <2>6 DEF Placed, Is
<1> QED BY <1>1, <1>13, <1>14, <1>15, <1>23, <1>24, <1>25, <1>26, BothSides

-----------------------------------------------------------------------------
(* The delivery of an edge *)

\* What the delivery phase starts from.
LEMMA Deliverer ==
  ASSUME IInv, NEW s \in Sides, Delivering(s)
  PROVE  /\ pc[s] \in {"consume", "deliver"} /\ open[s] /\ co[s].ended = "none"
         /\ co[s].permit = 0 /\ fault[s] = "none" /\ link[s].waiting = 0
         /\ serial[s].now = co[s].local
         /\ link[s].delivery \subseteq co[s].held
         /\ Here(s) \subseteq {EdgeOf(link[Other(s)])}
<1>1. /\ pc[s] \in {"consume", "deliver"} /\ open[s] /\ co[s].ended = "none"
  BY DEF Delivering, Usable
<1>2. /\ Position(s) /\ Core(s) /\ Bounded(s) /\ Placed(s) /\ Shape /\ co[s].permit \in Nat
  BY Sidewise, Numbers
<1>3. co[s].permit = 0 /\ fault[s] = "none" /\ link[s].waiting = 0
  BY <1>1, <1>2 DEF Position
<1>4. serial[s].now = co[s].local
  BY <1>1, <1>2 DEF Core, Settled
<1>5. link[s].delivery \subseteq co[s].held /\ Here(s) \subseteq {EdgeOf(link[Other(s)])}
  BY <1>2 DEF Bounded, Placed
<1> QED BY <1>1, <1>3, <1>4, <1>5

\* A pending edge becomes the batch; that is still where it is.
LEMMA PopReadyEdgesKeeps ==
  ASSUME IInv, NEW s \in Sides, PopReadyEdges(s)
  PROVE  IInv'
<1> DEFINE o == Other(s)
           c == co[s]
           R == Ready(c)
           left == c.edges \ R
<1>1. /\ o \in Sides /\ o # s /\ Other(o) = s
      /\ Shape /\ Own(s) /\ Own(o) /\ Received(s) /\ Received(o) /\ Placed(s) /\ Placed(o)
      /\ Position(s) /\ Core(s) /\ Bounded(s) /\ Outstanding(fences[s].sent, fences[s].started)
      /\ Delivering(s)
  BY Peers, Sidewise DEF PopReadyEdges
<1>2. /\ pc[s] \in {"consume", "deliver"} /\ open[s] /\ c.permit = 0 /\ fault[s] = "none"
      /\ link[s].waiting = 0 /\ serial[s].now = c.local /\ link[s].delivery \subseteq c.held
      /\ Here(s) \subseteq {EdgeOf(link[o])}
  BY <1>1, Deliverer
<1>3. /\ c \in Coordinator /\ link[s] \in Bookkeeping /\ c.local \in Nat /\ c.edges \subseteq Edge
  BY <1>1, Typed, Numbers
<1>4. R \subseteq c.edges /\ \A e \in R : e.at <= c.local
  BY DEF Ready
<1>5. \A e \in R : ~Late(e, c.local)
  <2>1. \A e \in c.edges : c.local + c.permit <= e.at + MaxEdgeLateness
    BY <1>1 DEF Bounded
  <2>2. \A e \in c.edges : e.at \in Nat
    BY <1>3 DEF Edge
  <2> QED BY <1>2, <1>3, <1>4, <2>1, <2>2, Constants DEF Late
<1>6. /\ co' = [co EXCEPT ![s].held = R, ![s].edges = left]
      /\ link' = [link EXCEPT ![s].delivery = R, ![s].heldStart = c.local, ![s].retired = 0]
      /\ pc' = [pc EXCEPT ![s] = "deliver"] /\ c.held = {}
      /\ mode' = mode /\ serial' = serial /\ fences' = fences /\ open' = open /\ wire' = wire
      /\ fault' = fault
  BY <1>5 DEF PopReadyEdges, Goto
<1>7. left \subseteq Edge /\ R \subseteq Edge /\ left \cup R = c.edges /\ left \cap R = {}
  BY <1>3, <1>4
<1>8. \A e, f \in R : e = f
  BY <1>2, <1>4 DEF Here
<1> HIDE DEF R, left
<1>9. /\ co'[s] = [c EXCEPT !.held = R, !.edges = left] /\ co'[o] = co[o]
      /\ link'[s] = [link[s] EXCEPT !.delivery = R, !.heldStart = c.local, !.retired = 0]
      /\ link'[o] = link[o] /\ pc'[s] = "deliver" /\ pc'[o] = pc[o]
  BY <1>1, <1>6 DEF Shape
<1>10. /\ co'[s] \in Coordinator /\ co'[s].held = R /\ co'[s].edges = left
       /\ co'[s].local = c.local /\ co'[s].permit = c.permit /\ co'[s].peer = c.peer
       /\ co'[s].progress = c.progress /\ co'[s].mark = c.mark
       /\ co'[s].edgeSequence = c.edgeSequence
  <2>1. co'[s] = [c EXCEPT !.held = R, !.edges = left] /\ c \in Coordinator
        /\ R \subseteq Edge /\ left \subseteq Edge
    BY <1>3, <1>7, <1>9
  <2> HIDE DEF c
  <2> QED BY ONLY <2>1 DEF Coordinator
<1>11. /\ link'[s] \in Bookkeeping /\ link'[s].delivery = R
       /\ link'[s].ingress = link[s].ingress /\ link'[s].completed = link[s].completed
       /\ link'[s].out = link[s].out /\ link'[s].waiting = link[s].waiting
       /\ link'[s].scheduled = link[s].scheduled /\ link'[s].settled = link[s].settled
       /\ link'[s].sentProgress = link[s].sentProgress /\ link'[s].sentMark = link[s].sentMark
  <2> DEFINE l == link[s]  z == 0
  <2>1. link'[s] = [l EXCEPT !.delivery = R, !.heldStart = c.local, !.retired = z]
        /\ l \in Bookkeeping /\ R \subseteq Edge /\ c.local \in Nat /\ z \in Nat
    BY <1>3, <1>7, <1>9
  <2> HIDE DEF l, z
  <2>2. /\ link'[s] \in Bookkeeping /\ link'[s].delivery = R
        /\ link'[s].ingress = l.ingress /\ link'[s].completed = l.completed
        /\ link'[s].out = l.out /\ link'[s].waiting = l.waiting
        /\ link'[s].scheduled = l.scheduled /\ link'[s].settled = l.settled
        /\ link'[s].sentProgress = l.sentProgress /\ link'[s].sentMark = l.sentMark
    BY ONLY <2>1 DEF Bookkeeping
  <2> QED BY <2>2 DEF l
<1>12. Stream(s)' = Stream(s) /\ Stream(o)' = Stream(o)
  BY <1>1, <1>6, <1>9, <1>11 DEF Stream
<1>13. Shape'
  <2>1. co' \in [Sides -> Coordinator] /\ link' \in [Sides -> Bookkeeping]
    BY <1>1, <1>6, <1>10, <1>11 DEF Shape
  <2>2. pc' \in [Sides -> Positions]
    BY <1>1, <1>6 DEF Shape, Positions
  <2> QED BY <1>1, <1>6, <2>1, <2>2 DEF Shape
<1>14. Own(s)'
  <2>1. Position(s)'
    BY <1>1, <1>2, <1>6, <1>9, <1>10, <1>11 DEF Position
  <2>2. Core(s)'
    BY <1>1, <1>2, <1>6, <1>9, <1>10, <1>11 DEF Core, Clocking, Settled
  <2>3. Bounded(s)'
    <3>1. \A e \in R \cup left : c.local + c.permit <= e.at + MaxEdgeLateness
      BY <1>1, <1>7 DEF Bounded
    <3> QED BY <1>1, <1>2, <1>4, <1>8, <1>10, <1>11, <3>1 DEF Bounded
  <2>4. Outstanding(fences[s].sent, fences[s].started)'
    BY <1>1, <1>6 DEF Outstanding
  <2> QED BY <2>1, <2>2, <2>3, <2>4 DEF Own
<1>15. Own(o)'
  BY <1>1, <1>6, <1>9, OwnSame
<1>16. Received(s)'
  BY <1>1, <1>6, <1>9, <1>10, <1>12, ReceivedSame
<1>17. Received(o)'
  BY <1>1, <1>6, <1>9, <1>11, <1>12, ReceivedSame
<1>18. Placed(o)'
  BY <1>1, <1>6, <1>9, <1>11, <1>12, PlacedSame
<1>19. Placed(s)'
  <2>1. Here(s)' = Here(s)
    <3>1. Here(s) = c.edges
      BY <1>2, <1>6 DEF Here
    <3> QED BY <1>7, <1>10, <1>11, <3>1 DEF Here
  <2>2. co'[s].edges \cap link'[s].delivery = {}
    BY <1>7, <1>10, <1>11
  <2>3. \A i \in DOMAIN wire'[s] : wire'[s][i].type = "EdgeResponse" =>
           /\ Answer(s, wire[s][i])'
           /\ \A j \in DOMAIN wire'[s] : wire'[s][j].type = "EdgeResponse" => i = j
    BY SMTT(30), <1>1, <1>6, <1>9, <1>11, <2>1 DEF Placed, Answer, Is
  <2>4. Asking(Stream(s))' <=> Asking(Stream(s))
    BY <1>12 DEF Asking, Is
  <2>5. EdgeOf(link[o])' = EdgeOf(link[o])
    BY <1>9 DEF EdgeOf
  <2> QED BY <1>1, <1>6, <1>9, <1>10, <1>11, <2>1, <2>2, <2>3, <2>4, <2>5 DEF Placed, Is
<1> QED BY <1>1, <1>13, <1>14, <1>15, <1>16, <1>17, <1>18, <1>19, BothSides

\* A clash of clocks, and a rearm that outlived its allowance, end a session.
LEMMA GiveUpKeeps ==
  ASSUME IInv, NEW s \in Sides, ClockConflict(s) \/ AllowanceExhausted(s)
  PROVE  IInv'
<1>1. Delivering(s) /\ \E why \in {"conflict", "allowance"} : FailWith(s, why, "closed")
  BY DEF ClockConflict, AllowanceExhausted, Unarmed, Fail
<1>2. co[s].permit = 0
  BY <1>1, Deliverer
<1>3. {"conflict", "allowance"} \subseteq Fault \ {"none", "protocol", "lateness"} /\ "closed" \in Ending
  BY DEF Fault, Ending
<1> QED BY <1>1, <1>2, <1>3, FailKeeps

\* The least of at most one edge.
LEMMA LeastOne ==
  ASSUME NEW e, NEW D, D \subseteq {e}, D # {}
  PROVE  D = {e} /\ Least(D) = e
<1>1. D = {e}
  OBVIOUS
<1>2. \E x \in D : \A f \in D : x = f \/ Before(x, f)
  BY <1>1
<1>3. Least(D) \in D
  BY <1>2 DEF Least
<1> QED BY <1>1, <1>3

\* A message alone.
LEMMA Alone ==
  ASSUME NEW m \in Message
  PROVE  /\ <<m>> \in Seq(Message) /\ DOMAIN <<m>> = {1} /\ <<m>>[1] = m
         /\ \A j \in DOMAIN <<m>> : j = 1 /\ <<m>>[j] = m
<1>1. <<m>> \in Seq(Message) /\ DOMAIN <<m>> = 1..1 /\ <<m>>[1] = m
  OBVIOUS
<1>2. 1..1 = {1}
  OBVIOUS
<1> QED BY <1>1, <1>2

\* An answer does not disturb what its receiver is told otherwise.
LEMMA Answering ==
  ASSUME NEW w \in Seq(Message), NEW m \in Message, m.type = "EdgeResponse",
         NEW progress, NEW peer \in Nat, NEW last \in Nat, NEW sequence, NEW out, NEW at,
         NEW mark \in Int, NEW lastMark \in Int, NEW seen \in Nat, NEW started \in Nat, NEW sent,
         NEW owed \in Seq([id : Nat, through : Nat]), NEW owing \in Nat, NEW sents,
         Announced(w, progress, peer, last), Numbered(w, sequence, out, at),
         Declared(w, mark, lastMark), Fenced(w, seen, started, sent),
         Acked(w, owed, owing, sents), Owed(owed, owing, sents)
  PROVE  /\ Announced(w \o <<m>>, progress, peer, last) /\ Numbered(w \o <<m>>, sequence, out, at)
         /\ Declared(w \o <<m>>, mark, lastMark) /\ Fenced(w \o <<m>>, seen, started, sent)
         /\ Acked(w \o <<m>>, owed, owing, sents)
         /\ Asking(w \o <<m>>) <=> Asking(w)
<1> DEFINE u == <<m>>
<1>1. u \in Seq(Message) /\ \A j \in DOMAIN u : u[j].type = "EdgeResponse"
  BY Alone
<1> HIDE DEF u
<1>2. \A j \in DOMAIN u : /\ ~Is(u, j, "Progress") /\ ~Is(u, j, "EdgeRequest")
                          /\ ~Is(u, j, "EmissionComplete") /\ ~Is(u, j, "Fence")
                          /\ ~Is(u, j, "FenceAck")
  BY <1>1 DEF Is
<1>3. ~Asking(u)
  BY <1>2 DEF Asking
<1>4. last <= last /\ lastMark <= lastMark /\ started # started + 1 /\ 0 \in Nat
  OBVIOUS
<1>5. Announced(w \o u, progress, peer, last)
  BY <1>1, <1>2, <1>4, AnnouncedMore
<1>6. Numbered(w \o u, sequence, out, at)
  BY <1>1, <1>2, <1>3, NumberedMore
<1>7. Declared(w \o u, mark, lastMark)
  BY <1>1, <1>2, <1>4, DeclaredMore
<1>8. Fenced(w \o u, seen, started, sent)
  BY <1>1, <1>2, <1>4, FencedMore
<1>9. Acked(w \o u, owed, owing, sents)
  <2>1. \A k \in DOMAIN owed : 0 + k \in DOMAIN owed /\ owed[k] = owed[0 + k]
    <3>1. DOMAIN owed = 1..Len(owed) /\ Len(owed) \in Nat
      BY LenProperties
    <3>2. \A k \in DOMAIN owed : 0 + k = k
      BY <3>1
    <3> QED BY <3>2
  <2> QED BY <1>1, <1>2, <1>4, <2>1, AckedMore
<1>10. Asking(w \o u) <=> Asking(w)
  BY <1>1, <1>3, AskingMore
<1> QED BY <1>5, <1>6, <1>7, <1>8, <1>9, <1>10 DEF u

\* The edge is applied in time, once, and answered with its own number.
LEMMA ApplyEdgeKeeps ==
  ASSUME IInv, NEW s \in Sides, ApplyEdge(s)
  PROVE  IInv'
<1> DEFINE o == Other(s)
           l == link[s]
           k == link[o]
           e == Least(l.delivery)
           m == EdgeResponse(e.seq, co[s].local)
           u == <<m>>
           w == Stream(o)
           v == w \o u
           r == Shift(serial[s])
           left == l.delivery \ {e}
           done == l.completed \cup {e.seq}
<1>1. /\ o \in Sides /\ o # s /\ Other(o) = s
      /\ Shape /\ Own(s) /\ Own(o) /\ Received(s) /\ Received(o) /\ Placed(s) /\ Placed(o)
      /\ Position(s) /\ Core(s) /\ Bounded(s) /\ Outstanding(fences[s].sent, fences[s].started)
      /\ Delivering(s)
  BY Peers, Sidewise DEF ApplyEdge
<1>2. /\ pc[s] \in {"consume", "deliver"} /\ open[s] /\ co[s].permit = 0 /\ fault[s] = "none"
      /\ l.waiting = 0 /\ serial[s].now = co[s].local /\ l.delivery \subseteq co[s].held
      /\ Here(s) \subseteq {EdgeOf(k)}
  BY <1>1, Deliverer
<1>3. /\ Send(s, u) /\ serial' = [serial EXCEPT ![s] = r]
      /\ link' = [link EXCEPT ![s].delivery = left, ![s].completed = done]
      /\ pc' = [pc EXCEPT ![s] = "deliver"] /\ l.delivery # {}
      /\ ~serial[s].internal /\ serial[s].enabled
      /\ mode' = mode /\ co' = co /\ fences' = fences /\ open' = open /\ fault' = fault
  BY DEF ApplyEdge, Goto
<1>4. /\ l \in Bookkeeping /\ serial[s] \in SerialCore /\ wire[s] \in Seq(Message)
      /\ w \in Seq(Message) /\ co[s].local \in Nat /\ k.out \in Nat /\ k.scheduled \in Nat
      /\ l.delivery \subseteq Edge /\ l.completed \subseteq Nat
      /\ co[o].peer \in Nat /\ l.sentProgress \in Nat /\ co[o].mark \in Int /\ l.sentMark \in Int
      /\ fences[o].seen \in Nat /\ fences[s].started \in Nat /\ fences[s].seen \in Nat
      /\ fences[s].owed \in Seq([id : Nat, through : Nat])
  BY <1>1, Typed, Numbers
<1>5. l.delivery = {e} /\ e = EdgeOf(k) /\ co[s].edges = {} /\ left = {}
  <2>1. l.delivery \subseteq {EdgeOf(k)} /\ co[s].edges \subseteq {EdgeOf(k)}
    BY <1>2 DEF Here
  <2>2. l.delivery = {EdgeOf(k)} /\ e = EdgeOf(k)
    BY <1>3, <2>1, LeastOne
  <2>3. co[s].edges \cap l.delivery = {}
    BY <1>1 DEF Placed
  <2> QED BY <2>1, <2>2, <2>3
<1>6. e.seq = k.out /\ e.at = k.scheduled /\ e \in Here(s)
  BY <1>5 DEF EdgeOf, Here
<1>7. /\ k.waiting # 0 /\ k.waiting = k.out /\ k.out > 0 /\ co[s].edgeSequence = k.out
      /\ l.completed = 1..(k.out - 1)
  BY <1>1, <1>6 DEF Placed
<1>8. done = 1..k.out
  <2>1. \A n \in Nat : n > 0 => 1..(n - 1) \cup {n} = 1..n
    OBVIOUS
  <2> QED BY <1>4, <1>6, <1>7, <2>1
<1>9. k.scheduled <= co[s].local /\ co[s].local <= k.scheduled + MaxEdgeLateness
  <2>1. e \in l.delivery /\ e \in co[s].held
    BY <1>2, <1>5
  <2>2. e.at <= co[s].local /\ co[s].local + co[s].permit <= e.at + MaxEdgeLateness
    BY <1>1, <2>1 DEF Bounded
  <2> QED BY <1>2, <1>4, <1>6, <2>2
<1>10. /\ m \in Message /\ m.type = "EdgeResponse" /\ m.id = k.out /\ m.at = co[s].local
  <2>1. m = EdgeResponse(k.out, co[s].local)
    BY <1>6
  <2>2. k.out \in Nat /\ co[s].local \in Nat
    BY <1>4
  <2> HIDE DEF m, k
  <2> QED BY ONLY <2>1, <2>2, Messages
<1>11. u \in Seq(Message) /\ DOMAIN u = {1} /\ u[1] = m
  BY <1>10, Alone
<1>12. Asking(Stream(s)) => FALSE
  <2>1. Numbered(Stream(s), co[s].edgeSequence, k.out, k.scheduled)
    BY <1>1, <1>2 DEF Received
  <2>2. Asking(Stream(s)) => co[s].edgeSequence = k.out - 1
    BY <2>1 DEF Numbered
  <2>3. k.out # k.out - 1
    BY <1>4
  <2> QED BY <1>7, <2>2, <2>3
<1>13. /\ r \in SerialCore /\ r.enabled = (r.bits > 0) /\ r.now = serial[s].now
       /\ r.internal = serial[s].internal
  BY <1>1, <1>4, Shifted DEF Core
<1> HIDE DEF e, m, r, left, done, v
<1>14. /\ link'[s] = [l EXCEPT !.delivery = left, !.completed = done] /\ link'[o] = link[o]
       /\ pc'[s] = "deliver" /\ pc'[o] = pc[o] /\ serial'[s] = r /\ serial'[o] = serial[o]
  BY <1>1, <1>3 DEF Shape
<1>15. /\ link'[s] \in Bookkeeping /\ link'[s].delivery = {} /\ link'[s].completed = 1..k.out
       /\ link'[s].ingress = l.ingress /\ link'[s].out = l.out /\ link'[s].waiting = l.waiting
       /\ link'[s].scheduled = l.scheduled /\ link'[s].settled = l.settled
       /\ link'[s].sentProgress = l.sentProgress /\ link'[s].sentMark = l.sentMark
  <2>1. /\ link'[s] = [l EXCEPT !.delivery = left, !.completed = done] /\ l \in Bookkeeping
        /\ left \subseteq Edge /\ done \subseteq Nat
    <3>1. 1..k.out \subseteq Nat
      BY <1>4
    <3> QED BY <1>4, <1>5, <1>8, <1>14, <3>1
  <2> HIDE DEF l
  <2>2. /\ link'[s] \in Bookkeeping /\ link'[s].delivery = left /\ link'[s].completed = done
        /\ link'[s].ingress = l.ingress /\ link'[s].out = l.out /\ link'[s].waiting = l.waiting
        /\ link'[s].scheduled = l.scheduled /\ link'[s].settled = l.settled
        /\ link'[s].sentProgress = l.sentProgress /\ link'[s].sentMark = l.sentMark
    BY ONLY <2>1 DEF Bookkeeping
  <2> QED BY <1>5, <1>8, <2>2
<1> HIDE DEF u
<1>16. /\ wire' \in [Sides -> Seq(Message)]
       /\ wire'[s] = wire[s] \o u /\ wire'[o] = wire[o]
       /\ Stream(o)' = v /\ Stream(s)' = Stream(s)
  BY <1>1, <1>3, <1>11, <1>14, <1>15, Sending DEF v
<1>17. Shape'
  <2>1. link' \in [Sides -> Bookkeeping]
    BY <1>1, <1>3, <1>15 DEF Shape
  <2>2. pc' \in [Sides -> Positions]
    BY <1>1, <1>3 DEF Shape, Positions
  <2>3. serial' \in [Sides -> SerialCore]
    BY <1>1, <1>3, <1>13 DEF Shape
  <2> QED BY <1>1, <1>3, <1>16, <2>1, <2>2, <2>3 DEF Shape
<1>18. Own(s)'
  <2>1. Position(s)'
    BY <1>1, <1>2, <1>3, <1>14, <1>15 DEF Position
  <2>2. Core(s)'
    <3>1. /\ link[s].sentMark <= serial[s].now
          /\ link[s].scheduled <= link[s].sentMark \/ link[s].scheduled = 0
      BY <1>1 DEF Core
    <3>2. ~(r.enabled /\ r.internal)
      BY <1>3, <1>13
    <3> QED BY <1>2, <1>3, <1>13, <1>14, <1>15, <3>1, <3>2 DEF Core, Clocking, Settled
  <2>3. Bounded(s)'
    BY <1>1, <1>3, <1>15 DEF Bounded
  <2>4. Outstanding(fences[s].sent, fences[s].started)'
    BY <1>1, <1>3 DEF Outstanding
  <2> QED BY <2>1, <2>2, <2>3, <2>4 DEF Own
<1>19. Own(o)'
  BY <1>1, <1>3, <1>14, OwnSame
<1>20. Received(s)'
  BY <1>1, <1>3, <1>14, <1>16, ReceivedSame
<1>21. Asking(v) <=> Asking(w)
  BY <1>4, <1>10, <1>11, AskingMore DEF v, Asking, Is
<1>22. Received(o)'
  <2>1. co[o].peer <= l.sentProgress /\ Owed(fences[s].owed, fences[s].seen, fences[o].sent)
    BY <1>1 DEF Received
  <2>2. (co[o].peer <= link[s].sentProgress)'
    BY <1>3, <1>15, <2>1
  <2>3. Owed(fences[s].owed, fences[s].seen, fences[o].sent)'
    BY <1>3, <2>1 DEF Owed
  <2>4. ASSUME open[o]
        PROVE  /\ Announced(v, co[o].progress, co[o].peer, l.sentProgress)
               /\ Numbered(v, co[o].edgeSequence, l.out, l.scheduled)
               /\ Declared(v, co[o].mark, l.sentMark)
               /\ Fenced(v, fences[o].seen, fences[s].started, fences[s].sent)
               /\ Acked(v, fences[s].owed, fences[s].seen, fences[o].sent)
    <3>1. /\ Announced(w, co[o].progress, co[o].peer, l.sentProgress)
          /\ Numbered(w, co[o].edgeSequence, l.out, l.scheduled)
          /\ Declared(w, co[o].mark, l.sentMark)
          /\ Fenced(w, fences[o].seen, fences[s].started, fences[s].sent)
          /\ Acked(w, fences[s].owed, fences[s].seen, fences[o].sent)
      BY <1>1, <2>4 DEF Received
    <3>2. /\ w \in Seq(Message) /\ m \in Message /\ m.type = "EdgeResponse"
          /\ co[o].peer \in Nat /\ l.sentProgress \in Nat /\ co[o].mark \in Int /\ l.sentMark \in Int
          /\ fences[o].seen \in Nat /\ fences[s].started \in Nat /\ fences[s].seen \in Nat
          /\ fences[s].owed \in Seq([id : Nat, through : Nat]) /\ v = w \o <<m>>
      BY <1>4, <1>10 DEF v, u
    <3> HIDE DEF w
    <3> QED BY ONLY SMTT(30), <2>1, <3>1, <3>2, Answering
  <2>5. open'[o] => Announced(Stream(o), co[o].progress, co[o].peer, link[s].sentProgress)'
    BY <1>3, <1>15, <1>16, <2>4 DEF Announced, Is
  <2>6. open'[o] => Numbered(Stream(o), co[o].edgeSequence, link[s].out, link[s].scheduled)'
    <3> SUFFICES ASSUME open[o]
                 PROVE  Numbered(Stream(o), co[o].edgeSequence, link[s].out, link[s].scheduled)'
      BY <1>3
    <3>1. Numbered(v, co[o].edgeSequence, l.out, l.scheduled)
      BY <2>4
    <3>2. /\ Stream(o)' = v /\ co'[o].edgeSequence = co[o].edgeSequence /\ link'[s].out = l.out
          /\ link'[s].scheduled = l.scheduled
      BY <1>3, <1>15, <1>16
    <3> QED BY ONLY <3>1, <3>2 DEF Numbered, Is, Through, Asking
  <2>7. open'[o] => Declared(Stream(o), co[o].mark, link[s].sentMark)'
    BY <1>3, <1>15, <1>16, <2>4 DEF Declared, Is
  <2>8. open'[o] => Fenced(Stream(o), fences[o].seen, fences[s].started, fences[s].sent)'
    BY <1>3, <1>16, <2>4 DEF Fenced, Is
  <2>9. open'[o] => Acked(Stream(o), fences[s].owed, fences[s].seen, fences[o].sent)'
    BY <1>3, <1>16, <2>4 DEF Acked, Is
  <2> QED BY <1>1, <2>2, <2>3, <2>5, <2>6, <2>7, <2>8, <2>9 DEF Received
<1>23. Placed(o)'
  <2>1. Answers(o)'
    BY <1>1, <1>3, <1>14, <1>15, <1>16, AnswersSame
  <2>2. open'[o] => open[o] /\ (Asking(Stream(o))' => Asking(Stream(o)))
    BY <1>3, <1>16, <1>21 DEF Asking, Is
  <2> QED BY <1>1, <1>3, <1>14, <1>15, <2>1, <2>2, PlacedStill
<1>24. Placed(s)'
  <2>1. \A i \in DOMAIN wire[s] : wire[s][i].type # "EdgeResponse"
    BY <1>1, <1>6 DEF Placed, Answer, Is
  <2>2. Here(s)' = {}
    BY <1>3, <1>5, <1>15 DEF Here
  <2>3. \A i \in DOMAIN (wire[s] \o u) : (wire[s] \o u)[i].type = "EdgeResponse" =>
           i = Len(wire[s]) + 1 /\ (wire[s] \o u)[i] = m
    <3> SUFFICES ASSUME NEW i \in DOMAIN (wire[s] \o u), (wire[s] \o u)[i].type = "EdgeResponse"
                 PROVE  i = Len(wire[s]) + 1 /\ (wire[s] \o u)[i] = m
      OBVIOUS
    <3>1. CASE i \in DOMAIN wire[s]
      BY <1>4, <1>11, <2>1, <3>1, Joined
    <3>2. CASE \E j \in DOMAIN u : i = Len(wire[s]) + j
      BY <1>4, <1>11, <3>2, Joined
    <3>3. i \in DOMAIN wire[s] \/ \E j \in DOMAIN u : i = Len(wire[s]) + j
      BY SMTT(30), <1>4, <1>11, Joined
    <3> QED BY <3>1, <3>2, <3>3
  <2>4. \A i \in DOMAIN wire'[s] : wire'[s][i].type = "EdgeResponse" =>
           i = Len(wire[s]) + 1 /\ wire'[s][i] = m
    BY <1>16, <2>3
  <2>5. \A i \in DOMAIN wire'[s] : wire'[s][i].type = "EdgeResponse" =>
           /\ wire'[s][i].id = k.out /\ wire'[s][i].at = co[s].local
           /\ \A j \in DOMAIN wire'[s] : wire'[s][j].type = "EdgeResponse" => i = j
    BY <1>10, <2>4
  <2>6. ~Asking(Stream(s))'
    BY <1>12, <1>16 DEF Asking, Is
  <2>7. link'[o].out = k.out /\ link'[o].waiting = k.waiting /\ link'[o].scheduled = k.scheduled
    BY <1>14
  <2>8. \A i \in DOMAIN wire'[s] : wire'[s][i].type = "EdgeResponse" => Answer(s, wire[s][i])'
    BY <1>1, <1>7, <1>9, <1>15, <2>2, <2>5, <2>7 DEF Answer
  <2>9. co'[s].edges \cap link'[s].delivery = {}
    BY <1>15
  <2> QED BY <1>7, <1>15, <2>2, <2>5, <2>6, <2>7, <2>8, <2>9 DEF Placed, Is
<1> QED BY <1>1, <1>17, <1>18, <1>19, <1>20, <1>22, <1>23, <1>24, BothSides

-----------------------------------------------------------------------------
(* The end of a pump *)

\* Every set of natural numbers with a member has a least one.
LEMMA LeastNatural ==
  ASSUME NEW T \in SUBSET Nat, T # {}
  PROVE  \E m \in T : \A k \in T : m <= k
<1>1. PICK m \in T : \A k \in T : ~(<<k, m>> \in OpToRel(<, Nat))
  BY WFMin, NatLessThanWellFounded, Zenon
<1>2. \A k \in T : ~(k < m)
  BY <1>1, Zenon DEF OpToRel
<1>3. \A k \in T : m <= k
  BY <1>2
<1> QED BY <1>3

\* Numbers from one on that leave none out are all the numbers up to one.
LEMMA Prefix ==
  ASSUME NEW L \in Nat, NEW A, A \subseteq 1..L, \A i \in A : \A j \in 1..i : j \in A
  PROVE  \E n \in 0..L : A = 1..n /\ Cardinality(A) = n
<1>1. CASE A = 1..L
  BY <1>1, Counted
<1>2. CASE A # 1..L
  <2> DEFINE T == (1..L) \ A
  <2>1. T \in SUBSET Nat /\ T # {}
    <3>1. T \subseteq 1..L /\ 1..L \subseteq Nat
      OBVIOUS
    <3>2. T = {} => 1..L \subseteq A
      OBVIOUS
    <3>3. 1..L \subseteq A => A = 1..L
      BY Zenon
    <3> QED BY <1>2, <3>1, <3>2, <3>3
  <2> HIDE DEF T
  <2>2. PICK m \in T : \A k \in T : m <= k
    BY <2>1, LeastNatural
  <2>3. m \in 1..L /\ m \notin A
    BY <2>2 DEF T
  <2>4. m - 1 \in 0..L /\ m - 1 \in Nat
    BY <2>3
  <2>5. ASSUME NEW i \in 1..L PROVE i \in A <=> i <= m - 1
    <3>1. CASE i \in A
      <4>1. ~(m <= i)
        <5>1. m <= i => m \in 1..i
          BY <2>3
        <5> QED BY <2>3, <3>1, <5>1
      <4> QED BY <2>3, <3>1, <4>1
    <3>2. CASE i \notin A
      <4>1. i \in T
        BY <3>2 DEF T
      <4>2. m <= i
        BY <2>2, <4>1
      <4> QED BY <2>3, <3>2, <4>2
    <3> QED BY <3>1, <3>2
  <2>6. \A i : i \in 1..(m - 1) <=> (i \in 1..L /\ i <= m - 1)
    BY <2>3
  <2>7. A = 1..(m - 1)
    BY <2>5, <2>6
  <2>8. Cardinality(1..(m - 1)) = m - 1
    BY <2>4, Counted
  <2> QED BY <2>4, <2>7, <2>8
<1> QED BY <1>1, <1>2

\* Three sequences, one after the other.
LEMMA Threefold ==
  ASSUME NEW a \in Seq(Message), NEW p \in Seq(Message), NEW f \in Seq(Message),
         NEW u, u = (a \o p) \o f
  PROVE  /\ u \in Seq(Message)
         /\ \A i \in DOMAIN u : \/ i \in DOMAIN a /\ u[i] = a[i]
                                \/ \E j \in DOMAIN p : u[i] = p[j]
                                \/ \E j \in DOMAIN f : i = Len(a \o p) + j /\ u[i] = f[j]
         /\ \A j \in DOMAIN f : Len(a \o p) + j \in DOMAIN u /\ u[Len(a \o p) + j] = f[j]
<1>1. /\ a \o p \in Seq(Message)
      /\ \A i \in DOMAIN a : (a \o p)[i] = a[i]
      /\ \A j \in DOMAIN p : (a \o p)[Len(a) + j] = p[j]
      /\ \A i \in DOMAIN (a \o p) : i \in DOMAIN a \/ \E j \in DOMAIN p : i = Len(a) + j
  BY Joined
<1> DEFINE q == a \o p
<1>2. q \in Seq(Message) /\ u = q \o f
  BY <1>1
<1>3. \A i \in DOMAIN q : (i \in DOMAIN a /\ q[i] = a[i]) \/ \E j \in DOMAIN p : q[i] = p[j]
  BY <1>1
<1> HIDE DEF q
<1>4. /\ q \o f \in Seq(Message)
      /\ \A i \in DOMAIN q : (q \o f)[i] = q[i]
      /\ \A j \in DOMAIN f : Len(q) + j \in DOMAIN (q \o f) /\ (q \o f)[Len(q) + j] = f[j]
      /\ \A i \in DOMAIN (q \o f) : i \in DOMAIN q \/ \E j \in DOMAIN f : i = Len(q) + j
  BY <1>2, Joined
<1>5. /\ u \in Seq(Message)
      /\ \A i \in DOMAIN q : u[i] = q[i]
      /\ \A j \in DOMAIN f : Len(q) + j \in DOMAIN u /\ u[Len(q) + j] = f[j]
      /\ \A i \in DOMAIN u : i \in DOMAIN q \/ \E j \in DOMAIN f : i = Len(q) + j
  BY <1>2, <1>4
<1>6. ASSUME NEW i \in DOMAIN u
      PROVE  \/ i \in DOMAIN a /\ u[i] = a[i]
             \/ \E j \in DOMAIN p : u[i] = p[j]
             \/ \E j \in DOMAIN f : i = Len(q) + j /\ u[i] = f[j]
  <2>1. CASE i \in DOMAIN q
    BY <1>3, <1>5, <2>1
  <2>2. CASE \E j \in DOMAIN f : i = Len(q) + j
    BY <1>5, <2>2
  <2> QED BY <1>5, <2>1, <2>2
<1> QED BY <1>5, <1>6 DEF q

\* What a pump publishes: the present time, as the mark and as the progress,
\* and nothing that goes back.
LEMMA Publishes ==
  ASSUME NEW s \in Sides, co[s].local \in Nat, link[s].out \in Nat
  PROVE  /\ Publication(s) \in Seq(Message)
         /\ \A j \in DOMAIN Publication(s) :
              \/ Publication(s)[j] = EmissionComplete(co[s].local, link[s].out) /\ Publication(s) # <<>>
              \/ Publication(s)[j] = Progress(co[s].local) /\ Due(s, link[s].sentProgress)
<1> DEFINE e == EmissionComplete(co[s].local, link[s].out)
           g == Progress(co[s].local)
<1>1. e \in Message /\ g \in Message
  BY Messages
<1>2. Publication(s) = IF Due(s, link[s].sentProgress) THEN <<e, g>>
                       ELSE IF Due(s, link[s].sentMark) THEN <<e>> ELSE <<>>
  BY DEF Publication
<1> HIDE DEF e, g
<1>3. CASE Due(s, link[s].sentProgress)
  <2>1. Publication(s) = <<e, g>>
    BY <1>2, <1>3
  <2>2. /\ <<e, g>> \in Seq(Message) /\ DOMAIN <<e, g>> = 1..2 /\ <<e, g>>[1] = e /\ <<e, g>>[2] = g
        /\ <<e, g>> # <<>>
    BY <1>1
  <2>3. \A j \in 1..2 : j = 1 \/ j = 2
    OBVIOUS
  <2> QED BY <1>3, <2>1, <2>2, <2>3 DEF e, g
<1>4. CASE ~Due(s, link[s].sentProgress) /\ Due(s, link[s].sentMark)
  <2>1. Publication(s) = <<e>>
    BY <1>2, <1>4
  <2>2. <<e>> \in Seq(Message) /\ (\A j \in DOMAIN <<e>> : <<e>>[j] = e) /\ <<e>> # <<>>
    BY <1>1, Alone
  <2> QED BY <2>1, <2>2 DEF e
<1>5. CASE ~Due(s, link[s].sentProgress) /\ ~Due(s, link[s].sentMark)
  <2>1. Publication(s) = <<>>
    BY <1>2, <1>5
  <2> QED BY <2>1, EmptySeq
<1> QED BY <1>3, <1>4, <1>5

(* What the end of a pump sends: answers to the first n fences it owes,    *)
(* the present time if that is news, and perhaps a fence of its own.       *)
Bulletin(u, owed, n, out, mark, next, started, id) ==
  /\ \A j \in DOMAIN u :
       /\ ~Is(u, j, "EdgeRequest") /\ ~Is(u, j, "EdgeResponse")
       /\ Is(u, j, "FenceAck") =>
            j <= n /\ j \in DOMAIN owed /\ u[j].id = owed[j].id /\ u[j].through = owed[j].through
       /\ Is(u, j, "EmissionComplete") => u[j].id = out /\ u[j].at = mark
       /\ Is(u, j, "Progress") => u[j].at = next
       /\ Is(u, j, "Fence") => u[j].id = id /\ u[j].through = out /\ id # started
  /\ \A i, j \in DOMAIN u : Is(u, i, "Fence") /\ Is(u, j, "Fence") => i = j
  /\ id # started => \E j \in DOMAIN u : Is(u, j, "Fence")

Debt == [id : Nat, through : Nat]

Acks(owed, n) == [i \in 1..n |-> FenceAck(owed[i].id, owed[i].through)]

\* What is left of a sequence without its first elements.
LEMMA Remainder ==
  ASSUME NEW S, NEW q \in Seq(S), NEW n \in 0..Len(q)
  PROVE  /\ SubSeq(q, n + 1, Len(q)) \in Seq(S)
         /\ \A k \in DOMAIN SubSeq(q, n + 1, Len(q)) :
              n + k \in DOMAIN q /\ SubSeq(q, n + 1, Len(q))[k] = q[n + k]
<1> DEFINE r == SubSeq(q, n + 1, Len(q))
<1>1. Len(q) \in Nat /\ n \in Nat /\ n <= Len(q) /\ DOMAIN q = 1..Len(q) /\ \A i \in DOMAIN q : q[i] \in S
  BY LenProperties, ElementOfSeq
<1>2. \A i \in (n + 1)..Len(q) : q[i] \in S
  BY <1>1
<1>3. /\ r \in Seq(S) /\ Len(r) = (IF n + 1 <= Len(q) THEN Len(q) - (n + 1) + 1 ELSE 0)
      /\ \A i \in 1 .. Len(q) - (n + 1) + 1 : r[i] = q[n + 1 + i - 1]
  BY <1>1, <1>2, SubSeqProperties
<1> HIDE DEF r
<1>4. Len(r) = Len(q) - n
  <2>1. \A a, b \in Nat : b <= a => (IF b + 1 <= a THEN a - (b + 1) + 1 ELSE 0) = a - b
    OBVIOUS
  <2> QED BY <1>1, <1>3, <2>1
<1>5. DOMAIN r = 1..(Len(q) - n)
  BY <1>3, <1>4, LenProperties
<1>6. \A k \in 1..(Len(q) - n) : k \in 1 .. Len(q) - (n + 1) + 1 /\ n + 1 + k - 1 = n + k /\ n + k \in 1..Len(q)
  BY <1>1
<1>7. \A k \in DOMAIN r : n + k \in DOMAIN q /\ r[k] = q[n + k]
  BY <1>1, <1>3, <1>5, <1>6
<1> QED BY <1>3, <1>7 DEF r

\* The answers to the fences owed first.
LEMMA Debts ==
  ASSUME NEW owed \in Seq(Debt), NEW n \in 0..Len(owed), NEW acks,
         acks = Acks(owed, n)
  PROVE  /\ acks \in Seq(Message) /\ DOMAIN acks = 1..n
         /\ \A i \in 1..n : /\ i \in DOMAIN owed /\ acks[i].type = "FenceAck"
                            /\ acks[i].id = owed[i].id /\ acks[i].through = owed[i].through
<1>1. n \in Nat /\ DOMAIN owed = 1..Len(owed) /\ Len(owed) \in Nat /\ n <= Len(owed)
  BY LenProperties
<1>2. ASSUME NEW i \in 1..n
      PROVE  /\ i \in DOMAIN owed /\ acks[i] \in Message /\ acks[i].type = "FenceAck"
             /\ acks[i].id = owed[i].id /\ acks[i].through = owed[i].through
  <2>1. i \in DOMAIN owed
    BY <1>1
  <2>2. owed[i] \in Debt
    BY <1>1, <2>1, ElementOfSeq
  <2>3. owed[i].id \in Nat /\ owed[i].through \in Nat
    BY <2>2 DEF Debt
  <2>4. acks[i] = FenceAck(owed[i].id, owed[i].through)
    BY DEF Acks
  <2> QED BY <2>1, <2>3, <2>4, Messages
<1>3. DOMAIN acks = 1..n
  BY DEF Acks
<1>4. acks \in [1..n -> Message]
  <2>1. acks = [i \in 1..n |-> acks[i]]
    BY DEF Acks
  <2>2. \A i \in 1..n : acks[i] \in Message
    BY <1>2
  <2> QED BY ONLY <2>1, <2>2
<1>5. acks \in Seq(Message)
  BY <1>1, <1>4, SeqDef
<1> QED BY <1>2, <1>3, <1>5

\* The messages of the end of a pump, whatever of them is left out.
LEMMA Bulletins ==
  ASSUME NEW owed \in Seq(Debt), NEW n \in 0..Len(owed), NEW acks,
         acks = Acks(owed, n),
         NEW p \in Seq(Message), NEW out \in Nat, NEW mark \in Nat \cup {-1},
         NEW next \in Nat, NEW started \in Nat, NEW id \in Nat,
         \A j \in DOMAIN p : \/ p[j] = EmissionComplete(mark, out)
                             \/ p[j] = Progress(next),
         NEW f, f = IF id = started THEN <<>> ELSE <<Fence(id, out)>>
  PROVE  /\ (acks \o p) \o f \in Seq(Message)
         /\ Bulletin((acks \o p) \o f, owed, n, out, mark, next, started, id)
<1> DEFINE u == (acks \o p) \o f
           x == Len(acks \o p)
           m == Fence(id, out)
           e == EmissionComplete(mark, out)
           g == Progress(next)
<1>1. /\ acks \in Seq(Message) /\ DOMAIN acks = 1..n
      /\ \A i \in 1..n : /\ i \in DOMAIN owed /\ acks[i].type = "FenceAck"
                         /\ acks[i].id = owed[i].id /\ acks[i].through = owed[i].through
  BY Debts
<1>2. /\ m \in Message /\ m.type = "Fence" /\ m.id = id /\ m.through = out
      /\ e.type = "EmissionComplete" /\ e.id = out /\ e.at = mark
      /\ g.type = "Progress" /\ g.at = next
  BY Messages DEF EmissionComplete
<1>3. f = IF id = started THEN <<>> ELSE <<m>>
  OBVIOUS
<1>4. \A j \in DOMAIN p : p[j] = e \/ p[j] = g
  OBVIOUS
<1> HIDE DEF m, e, g, x
<1>5. /\ f \in Seq(Message) /\ \A j \in DOMAIN f : j = 1 /\ f[j] = m /\ id # started
      /\ id # started => 1 \in DOMAIN f
  <2>1. CASE id # started
    BY <1>2, <1>3, <2>1, Alone
  <2>2. CASE id = started
    <3>1. f = <<>>
      BY <1>3, <2>2
    <3>2. <<>> \in Seq(Message) /\ DOMAIN <<>> = {}
      OBVIOUS
    <3> QED BY <2>2, <3>1, <3>2
  <2> QED BY <2>1, <2>2
<1>6. /\ u \in Seq(Message)
      /\ \A i \in DOMAIN u : \/ i \in DOMAIN acks /\ u[i] = acks[i]
                             \/ \E j \in DOMAIN p : u[i] = p[j]
                             \/ \E j \in DOMAIN f : i = x + j /\ u[i] = f[j]
      /\ \A j \in DOMAIN f : x + j \in DOMAIN u /\ u[x + j] = f[j]
  BY <1>1, <1>5, Threefold DEF x
<1> HIDE DEF u
<1>7. n \in Nat
  BY LenProperties
<1>8. ASSUME NEW j \in DOMAIN u
      PROVE  \/ /\ u[j].type = "FenceAck" /\ j <= n /\ j \in DOMAIN owed
                /\ u[j].id = owed[j].id /\ u[j].through = owed[j].through
             \/ u[j].type = "EmissionComplete" /\ u[j].id = out /\ u[j].at = mark
             \/ u[j].type = "Progress" /\ u[j].at = next
             \/ u[j].type = "Fence" /\ u[j].id = id /\ u[j].through = out /\ id # started /\ j = x + 1
  <2>1. CASE j \in DOMAIN acks /\ u[j] = acks[j]
    BY <1>1, <1>7, <2>1
  <2>2. CASE \E i \in DOMAIN p : u[j] = p[i]
    BY <1>2, <1>4, <2>2
  <2>3. CASE \E i \in DOMAIN f : j = x + i /\ u[j] = f[i]
    BY <1>2, <1>5, <2>3
  <2> QED BY <1>6, <2>1, <2>2, <2>3
<1>9. id # started => \E j \in DOMAIN u : u[j].type = "Fence"
  <2> SUFFICES ASSUME id # started PROVE \E j \in DOMAIN u : u[j].type = "Fence"
    OBVIOUS
  <2>1. 1 \in DOMAIN f /\ f[1] = m
    BY <1>5
  <2>2. x + 1 \in DOMAIN u /\ u[x + 1].type = "Fence"
    BY <1>2, <1>6, <2>1
  <2> QED BY <2>2
<1>10. Bulletin(u, owed, n, out, mark, next, started, id)
  <2>1. \A j \in DOMAIN u :
          /\ u[j].type # "EdgeRequest" /\ u[j].type # "EdgeResponse"
          /\ u[j].type = "FenceAck" =>
               j <= n /\ j \in DOMAIN owed /\ u[j].id = owed[j].id /\ u[j].through = owed[j].through
          /\ u[j].type = "EmissionComplete" => u[j].id = out /\ u[j].at = mark
          /\ u[j].type = "Progress" => u[j].at = next
          /\ u[j].type = "Fence" => u[j].id = id /\ u[j].through = out /\ id # started
    BY <1>8
  <2>2. \A i, j \in DOMAIN u : u[i].type = "Fence" /\ u[j].type = "Fence" => i = j
    BY <1>8
  <2> QED BY <1>9, <2>1, <2>2 DEF Bulletin, Is
<1> QED BY <1>6, <1>10 DEF u

\* There is room for one fence more.
LEMMA OneMoreFence ==
  ASSUME NEW sent, NEW started \in Nat, NEW f, Outstanding(sent, started),
         \A g \in sent : g.id \in Nat, Cardinality(sent) < Capacity, f.id = started + 1
  PROVE  Outstanding(sent \cup {f}, started + 1)
<1>1. IsFiniteSet(sent) /\ \A g \in sent : g.id <= started
  BY DEF Outstanding
<1>2. \A g \in sent : g.id # started + 1
  <2>1. \A g \in sent : g.id = started + 1 => started + 1 <= started
    BY <1>1
  <2>2. ~(started + 1 <= started)
    OBVIOUS
  <2> QED BY <2>1, <2>2
<1>3. f \notin sent
  BY <1>2
<1>4. IsFiniteSet(sent \cup {f}) /\ Cardinality(sent \cup {f}) = Cardinality(sent) + 1
  BY <1>1, <1>3, FS_AddElement
<1>5. Cardinality(sent) \in Nat
  BY <1>1, FS_CardinalityType
<1>6. Cardinality(sent \cup {f}) <= Capacity
  BY <1>4, <1>5, Constants
<1>7. \A g \in sent \cup {f} : g.id <= started + 1
  <2>1. \A a, b \in Nat : a <= b => a <= b + 1
    OBVIOUS
  <2>2. \A g \in sent : g.id <= started + 1
    BY <1>1, <2>1
  <2> QED BY <2>2
<1> QED BY <1>2, <1>4, <1>6, <1>7 DEF Outstanding

\* The end of a pump: what is answered was applied, what is published is the
\* present time, and the next edge to be clocked lies beyond it.
LEMMA EndPumpKeeps ==
  ASSUME IInv, NEW s \in Sides, Delivering(s), NEW rest \in Bookkeeping, EndPump(s, rest),
         rest.ingress = link[s].ingress, rest.delivery = link[s].delivery,
         rest.completed = link[s].completed, rest.out = link[s].out,
         rest.waiting = link[s].waiting, rest.scheduled = link[s].scheduled,
         rest.sentProgress = link[s].sentProgress, rest.sentMark = link[s].sentMark,
         co' = [co EXCEPT ![s] = co'[s]], co'[s] \in Coordinator,
         co'[s].local = co[s].local, co'[s].peer = co[s].peer, co'[s].progress = co[s].progress,
         co'[s].permit = co[s].permit, co'[s].mark = co[s].mark,
         co'[s].edgeSequence = co[s].edgeSequence, co'[s].edges = co[s].edges,
         co'[s].held \subseteq co[s].held, link[s].delivery \subseteq co'[s].held
  PROVE  IInv'
<1> DEFINE o == Other(s)
           l == link[s]
           k == fences[s]
           now == co[s].local
           exhausted == mode[s] = "fence" /\ Cardinality(k.sent) >= Capacity
           fencing == mode[s] = "fence" /\ ~exhausted
           f == IF fencing THEN <<Fence(k.started + 1, l.out)>> ELSE <<>>
           p == Publication(s)
           due == Due(s, l.sentProgress)
           new == p # <<>>
           next == IF due THEN now ELSE l.sentProgress
           nextMark == IF new THEN now ELSE l.sentMark
           id == IF fencing THEN k.started + 1 ELSE k.started
           asked == [id |-> k.started + 1, through |-> l.out, acked |-> FALSE]
           sents == IF fencing THEN k.sent \cup {asked} ELSE k.sent
           where == CASE mode[s] \in {"before", "wait"} -> "reserve"
                      [] exhausted -> "broken"
                      [] OTHER -> "boundary"
           why == IF exhausted THEN "exhausted" ELSE fault[s]
           w == Stream(o)
<1>1. /\ o \in Sides /\ o # s /\ Other(o) = s
      /\ Shape /\ Own(s) /\ Own(o) /\ Received(s) /\ Received(o) /\ Placed(s) /\ Placed(o)
      /\ Position(s) /\ Core(s) /\ Bounded(s) /\ Outstanding(fences[s].sent, fences[s].started)
  BY Peers, Sidewise
<1>2. /\ pc[s] \in {"consume", "deliver"} /\ open[s] /\ co[s].permit = 0 /\ fault[s] = "none"
      /\ l.waiting = 0 /\ serial[s].now = now
  BY <1>1, Deliverer
<1>3. /\ l \in Bookkeeping /\ k \in Fencing /\ wire[s] \in Seq(Message) /\ w \in Seq(Message)
      /\ now \in Nat /\ l.out \in Nat /\ l.scheduled \in Nat /\ l.sentProgress \in Nat
      /\ l.sentMark \in Int /\ l.sentMark \in Nat \cup {-1}
      /\ k.started \in Nat /\ k.seen \in Nat /\ k.sent \subseteq FenceSent /\ k.owed \in Seq(Debt)
      /\ fences[o].seen \in Nat /\ co[o].peer \in Nat /\ co[o].mark \in Int
  BY <1>1, Typed, Numbers DEF Debt
<1>4. PICK n \in 0..Len(k.owed) : Acknowledged(s) = 1..n /\ Cardinality(Acknowledged(s)) = n
  <2>1. Len(k.owed) \in Nat
    BY <1>3, LenProperties
  <2>2. Acknowledged(s) \subseteq 1..Len(k.owed)
    BY DEF Acknowledged
  <2>3. \A i \in Acknowledged(s) : \A j \in 1..i : j \in Acknowledged(s)
    <3> SUFFICES ASSUME NEW i \in Acknowledged(s), NEW j \in 1..i PROVE j \in Acknowledged(s)
      OBVIOUS
    <3>1. i \in 1..Len(k.owed) /\ \A x \in 1..i : Applied(l, k.owed[x].through)
      BY DEF Acknowledged
    <3>2. j \in 1..Len(k.owed) /\ \A x \in 1..j : x \in 1..i
      BY <2>1, <3>1
    <3> QED BY <3>1, <3>2 DEF Acknowledged
  <2> QED BY <2>1, <2>2, <2>3, Prefix
<1> DEFINE left == SubSeq(k.owed, n + 1, Len(k.owed))
           u == (Acks(k.owed, n) \o p) \o f
           v == w \o u
<1>5. Acks(k.owed, n) = [i \in Acknowledged(s) |-> FenceAck(k.owed[i].id, k.owed[i].through)]
  BY <1>4 DEF Acks
<1>6. /\ Len(f) = (IF fencing THEN 1 ELSE 0)
      /\ {[id |-> f[i].id, through |-> f[i].through, acked |-> FALSE] : i \in DOMAIN f}
           = (IF fencing THEN {asked} ELSE {})
  <2>1. CASE fencing
    <3> DEFINE m == Fence(k.started + 1, l.out)
    <3>1. f = <<m>> /\ Len(<<m>>) = 1 /\ DOMAIN <<m>> = {1} /\ <<m>>[1] = m
      BY <2>1
    <3>2. m.id = k.started + 1 /\ m.through = l.out
      BY DEF Fence
    <3> HIDE DEF m, f
    <3>3. f[1].id = k.started + 1 /\ f[1].through = l.out /\ DOMAIN f = {1} /\ Len(f) = 1
      BY <3>1, <3>2
    <3> QED BY <2>1, <3>3
  <2>2. CASE ~fencing
    <3>1. f = <<>> /\ Len(<<>>) = 0 /\ DOMAIN <<>> = {}
      BY <2>2
    <3> QED BY <2>2, <3>1
  <2> QED BY <2>1, <2>2
<1> HIDE DEF f
<1>7. /\ Send(s, u)
      /\ link' = [link EXCEPT ![s] = [rest EXCEPT !.settled = now, !.sentProgress = next,
                                                  !.sentMark = nextMark]]
      /\ fences' = [fences EXCEPT ![s].owed = left, ![s].started = id, ![s].sent = sents]
      /\ pc' = [pc EXCEPT ![s] = where] /\ mode' = [mode EXCEPT ![s] = "none"]
      /\ fault' = [fault EXCEPT ![s] = why] /\ serial' = serial /\ open' = open
  <2> DEFINE acks == [i \in Acknowledged(s) |-> FenceAck(k.owed[i].id, k.owed[i].through)]
             g == IF mode[s] = "fence" /\ ~exhausted THEN <<Fence(fences[s].started + 1, link[s].out)>> ELSE <<>>
  <2>1. f = g
    BY DEF f
  <2>2. Send(s, acks \o Publication(s) \o f)
    BY <2>1 DEF EndPump
  <2>3. Send(s, u)
    BY <1>5, <2>2
  <2>4. link' = [link EXCEPT ![s] = [rest EXCEPT !.settled = now,
                    !.sentProgress = IF Due(s, rest.sentProgress) THEN now ELSE rest.sentProgress,
                    !.sentMark = IF Publication(s) # <<>> THEN now ELSE rest.sentMark]]
    BY DEF EndPump
  <2>5. link' = [link EXCEPT ![s] = [rest EXCEPT !.settled = now, !.sentProgress = next,
                                                  !.sentMark = nextMark]]
    <3>1. /\ next = IF Due(s, rest.sentProgress) THEN now ELSE rest.sentProgress
          /\ nextMark = IF Publication(s) # <<>> THEN now ELSE rest.sentMark
      OBVIOUS
    <3> HIDE DEF next, nextMark
    <3> QED BY <2>4, <3>1
  <2>6. fences' = [fences EXCEPT
          ![s].owed = SubSeq(k.owed, Cardinality(Acknowledged(s)) + 1, Len(k.owed)),
          ![s].started = k.started + Len(f),
          ![s].sent = k.sent \cup {[id |-> f[i].id, through |-> f[i].through, acked |-> FALSE] :
                                      i \in DOMAIN f}]
    BY SMTT(30), <1>1, <2>1 DEF EndPump, Shape, Fencing
  <2>7. left = SubSeq(k.owed, Cardinality(Acknowledged(s)) + 1, Len(k.owed))
    BY <1>4
  <2>8. k.started + Len(f) = id
    BY <1>3, <1>6
  <2>9. k.sent \cup {[id |-> f[i].id, through |-> f[i].through, acked |-> FALSE] : i \in DOMAIN f} = sents
    BY <1>6
  <2>10. fences' = [fences EXCEPT ![s].owed = left, ![s].started = id, ![s].sent = sents]
    <3> HIDE DEF left, id, sents
    <3> QED BY <2>6, <2>7, <2>8, <2>9
  <2>11. /\ pc' = [pc EXCEPT ![s] = where] /\ mode' = [mode EXCEPT ![s] = "none"]
         /\ fault' = [fault EXCEPT ![s] = why] /\ serial' = serial /\ open' = open
    BY DEF EndPump, Goto
  <2> QED BY <2>3, <2>5, <2>10, <2>11
<1>8. l.sentMark <= now /\ l.sentProgress <= now /\ (l.scheduled <= l.sentMark \/ l.scheduled = 0)
  BY <1>1, <1>2 DEF Core, Bounded
<1>9. /\ next \in Nat /\ l.sentProgress <= next /\ next <= now /\ (due => next = now)
      /\ nextMark \in Nat \cup {-1} /\ nextMark \in Int /\ l.sentMark <= nextMark /\ nextMark <= now
      /\ (new => nextMark = now)
  <2>1. (next = now /\ due) \/ (next = l.sentProgress /\ ~due)
    OBVIOUS
  <2>2. (nextMark = now /\ new) \/ (nextMark = l.sentMark /\ ~new)
    OBVIOUS
  <2> HIDE DEF next, nextMark, due, new
  <2> QED BY <1>3, <1>8, <2>1, <2>2
<1>10. /\ id \in Nat /\ id = (IF fencing THEN k.started + 1 ELSE k.started)
       /\ sents \subseteq FenceSent /\ k.sent \subseteq sents /\ (fencing => asked \in sents)
  <2>1. asked \in FenceSent
    <3>1. \A a, b \in Nat : \A c \in BOOLEAN : [id |-> a, through |-> b, acked |-> c] \in FenceSent
      BY DEF FenceSent
    <3>2. k.started + 1 \in Nat /\ l.out \in Nat
      BY SMTT(30), <1>3
    <3> HIDE DEF k, l
    <3> QED BY ONLY <3>1, <3>2, Zenon
  <2>2. k.started + 1 \in Nat
    BY SMTT(30), <1>3
  <2> HIDE DEF asked
  <2> QED BY <1>3, <2>1, <2>2
<1>11. /\ where \in {"reserve", "boundary", "broken"} /\ why \in {"none", "exhausted"}
       /\ where = "broken" <=> why # "none"
  BY <1>1, <1>2
<1>12. Outstanding(sents, id)
  <2>1. CASE fencing
    <3>1. ~(Cardinality(k.sent) >= Capacity) /\ sents = k.sent \cup {asked} /\ id = k.started + 1
      BY <2>1
    <3>2. Cardinality(k.sent) < Capacity
      <4>1. IsFiniteSet(k.sent)
        BY <1>1 DEF Outstanding
      <4>2. Cardinality(k.sent) \in Nat
        BY <4>1, FS_CardinalityType
      <4> QED BY <3>1, <4>2, Constants
    <3>3. \A x \in k.sent : x.id \in Nat
      BY <1>3 DEF FenceSent
    <3>4. asked.id = k.started + 1
      OBVIOUS
    <3> HIDE DEF asked
    <3>5. Outstanding(k.sent \cup {asked}, k.started + 1)
      BY <1>1, <1>3, <3>2, <3>3, <3>4, OneMoreFence
    <3> QED BY <3>1, <3>5
  <2>2. CASE ~fencing
    BY <1>1, <2>2
  <2> QED BY <2>1, <2>2
<1>13. /\ left \in Seq(Debt)
       /\ \A x \in DOMAIN left : n + x \in DOMAIN k.owed /\ left[x] = k.owed[n + x]
  <2>1. k.owed \in Seq(Debt) /\ n \in 0..Len(k.owed)
    BY <1>3
  <2> DEFINE q == k.owed
  <2>2. q \in Seq(Debt) /\ n \in 0..Len(q)
    BY <2>1
  <2>3. left = SubSeq(q, n + 1, Len(q))
    OBVIOUS
  <2> HIDE DEF q, left
  <2>4. SubSeq(q, n + 1, Len(q)) \in Seq(Debt)
    BY ONLY <2>2, Remainder
  <2>5. \A x \in DOMAIN SubSeq(q, n + 1, Len(q)) :
          n + x \in DOMAIN q /\ SubSeq(q, n + 1, Len(q))[x] = q[n + x]
    BY ONLY <2>2, Remainder
  <2>6. left \in Seq(Debt) /\ \A x \in DOMAIN left : n + x \in DOMAIN q /\ left[x] = q[n + x]
    BY ONLY <2>3, <2>4, <2>5
  <2> QED BY <2>6 DEF q
<1>14. u \in Seq(Message) /\ Bulletin(u, k.owed, n, l.out, nextMark, next, k.started, id)
  <2>1. /\ p \in Seq(Message)
        /\ \A j \in DOMAIN p : \/ p[j] = EmissionComplete(now, l.out) /\ new
                               \/ p[j] = Progress(now) /\ due
    BY <1>3, Publishes
  <2> DEFINE owed == k.owed
             acks == Acks(owed, n)
             out == l.out
             started == k.started
  <2>2. /\ owed \in Seq(Debt) /\ n \in 0..Len(owed) /\ acks = Acks(owed, n)
        /\ out \in Nat /\ nextMark \in Nat \cup {-1} /\ next \in Nat /\ started \in Nat /\ id \in Nat
        /\ p \in Seq(Message)
    BY <1>3, <1>9, <1>10, <2>1
  <2>3. \A j \in DOMAIN p : p[j] = EmissionComplete(nextMark, out) \/ p[j] = Progress(next)
    <3> HIDE DEF nextMark, next, p, due, new
    <3> QED BY <1>9, <2>1
  <2>4. f = IF id = started THEN <<>> ELSE <<Fence(id, out)>>
    <3>1. k.started + 1 # k.started
      BY <1>3
    <3> QED BY <3>1 DEF f
  <2>5. u = (acks \o p) \o f
    OBVIOUS
  <2> HIDE DEF owed, acks, out, started, id, p, next, nextMark, u
  <2>6. (acks \o p) \o f \in Seq(Message)
    <3>1. acks \in Seq(Message)
      BY ONLY <2>2, Debts
    <3>2. f \in Seq(Message)
      <4>1. Fence(id, out) \in Message
        BY <2>2, Messages
      <4>2. <<Fence(id, out)>> \in Seq(Message)
        BY <4>1, Alone
      <4>3. <<>> \in Seq(Message)
        OBVIOUS
      <4> QED BY <2>4, <4>2, <4>3
    <3> QED BY <2>2, <3>1, <3>2, Threefold
  <2>7. Bulletin((acks \o p) \o f, owed, n, out, nextMark, next, started, id)
    BY ONLY <2>2, <2>3, <2>4, Bulletins
  <2>8. u \in Seq(Message) /\ Bulletin(u, owed, n, out, nextMark, next, started, id)
    BY ONLY <2>5, <2>6, <2>7
  <2> QED BY <2>8 DEF owed, out, started
<1> HIDE DEF u, id, sents, left, where, why, next, nextMark, v
<1>15. /\ link'[s] = [rest EXCEPT !.settled = now, !.sentProgress = next, !.sentMark = nextMark]
       /\ link'[o] = link[o]
       /\ fences'[s] = [k EXCEPT !.owed = left, !.started = id, !.sent = sents]
       /\ fences'[o] = fences[o] /\ pc'[s] = where /\ pc'[o] = pc[o] /\ fault'[s] = why
       /\ fault'[o] = fault[o] /\ co'[o] = co[o]
  BY <1>1, <1>7 DEF Shape
<1>16. /\ link'[s] \in Bookkeeping /\ link'[s].settled = now /\ link'[s].sentProgress = next
       /\ link'[s].sentMark = nextMark /\ link'[s].ingress = l.ingress
       /\ link'[s].delivery = l.delivery /\ link'[s].completed = l.completed
       /\ link'[s].out = l.out /\ link'[s].waiting = l.waiting /\ link'[s].scheduled = l.scheduled
  <2>1. /\ link'[s] \in Bookkeeping /\ link'[s].settled = now /\ link'[s].sentProgress = next
        /\ link'[s].sentMark = nextMark /\ link'[s].ingress = rest.ingress
        /\ link'[s].delivery = rest.delivery /\ link'[s].completed = rest.completed
        /\ link'[s].out = rest.out /\ link'[s].waiting = rest.waiting
        /\ link'[s].scheduled = rest.scheduled
    <3>1. rest \in Bookkeeping /\ now \in Nat /\ next \in Nat /\ nextMark \in Nat \cup {-1}
      BY <1>3, <1>9
    <3> HIDE DEF now
    <3> QED BY ONLY ZenonT(60), <1>15, <3>1 DEF Bookkeeping
  <2> QED BY <2>1
<1>17. /\ fences'[s] \in Fencing /\ fences'[s].owed = left /\ fences'[s].started = id
       /\ fences'[s].sent = sents /\ fences'[s].seen = k.seen
  <2>1. /\ k \in Fencing /\ left \in Seq([id : Nat, through : Nat]) /\ id \in Nat
        /\ sents \subseteq FenceSent
    BY <1>3, <1>10, <1>13 DEF Debt
  <2> HIDE DEF k
  <2> QED BY ONLY <1>15, <2>1 DEF Fencing
<1>18. /\ wire' \in [Sides -> Seq(Message)]
       /\ wire'[s] = wire[s] \o u /\ wire'[o] = wire[o]
       /\ Stream(o)' = v /\ Stream(s)' = Stream(s)
  BY <1>1, <1>7, <1>14, <1>15, <1>16, Sending DEF v
<1>19. Shape'
  <2>1. link' \in [Sides -> Bookkeeping]
    BY <1>1, <1>7, <1>15, <1>16 DEF Shape
  <2>2. fences' \in [Sides -> Fencing]
    BY <1>1, <1>7, <1>15, <1>17 DEF Shape
  <2>3. co' \in [Sides -> Coordinator]
    BY <1>1 DEF Shape
  <2>4. pc' \in [Sides -> Positions]
    BY <1>1, <1>7, <1>11 DEF Shape, Positions
  <2>5. fault' \in [Sides -> Fault]
    BY <1>1, <1>7, <1>11 DEF Shape, Fault
  <2>6. mode' \in [Sides -> {"none", "before", "wait", "end", "fence"}]
    BY <1>1, <1>7 DEF Shape
  <2> QED BY <1>1, <1>7, <1>18, <2>1, <2>2, <2>3, <2>4, <2>5, <2>6 DEF Shape
<1>20. Own(s)'
  <2>1. Position(s)'
    BY <1>2, <1>11, <1>15, <1>16 DEF Position
  <2>2. Core(s)'
    <3>1. /\ serial[s].enabled = (serial[s].bits > 0)
          /\ Clocking(s) => serial[s].target > serial[s].now /\ serial[s].target > 0
      BY <1>1, <1>2 DEF Core, Settled
    <3>2. Clocking(s) => serial[s].target > nextMark
      <4>1. serial[s].target \in Nat
        BY <1>1, Numbers
      <4> QED BY <1>2, <1>3, <1>9, <3>1, <4>1
    <3>3. l.scheduled <= nextMark \/ l.scheduled = 0
      BY SMTT(30), <1>3, <1>8, <1>9
    <3> QED BY <1>2, <1>3, <1>7, <1>9, <1>11, <1>15, <1>16, <3>1, <3>2, <3>3 DEF Core, Clocking, Settled
  <2>3. Bounded(s)'
    <3>1. now <= now
      BY <1>3
    <3> QED BY <1>1, <1>2, <1>9, <1>16, <3>1 DEF Bounded
  <2>4. Outstanding(fences[s].sent, fences[s].started)'
    BY <1>12, <1>17 DEF Outstanding
  <2> QED BY <2>1, <2>2, <2>3, <2>4 DEF Own
<1>21. Own(o)'
  BY <1>1, <1>7, <1>15, OwnSame
<1>22. Received(s)'
  <2>1. /\ co[s].peer <= link[o].sentProgress
        /\ Owed(fences[o].owed, fences[o].seen, k.sent)
        /\ Announced(Stream(s), co[s].progress, co[s].peer, link[o].sentProgress)
        /\ Numbered(Stream(s), co[s].edgeSequence, link[o].out, link[o].scheduled)
        /\ Declared(Stream(s), co[s].mark, link[o].sentMark)
        /\ Fenced(Stream(s), k.seen, fences[o].started, fences[o].sent)
        /\ Acked(Stream(s), fences[o].owed, fences[o].seen, k.sent)
    BY <1>1, <1>2 DEF Received
  <2>2. Owed(fences[o].owed, fences[o].seen, fences[s].sent)'
    BY <1>10, <1>15, <1>17, <2>1 DEF Owed
  <2>3. Acked(Stream(s), fences[o].owed, fences[o].seen, fences[s].sent)'
    BY SMTT(30), <1>10, <1>15, <1>17, <1>18, <2>1 DEF Acked, Is
  <2>4. Fenced(Stream(s), fences[s].seen, fences[o].started, fences[o].sent)'
    BY SMTT(30), <1>15, <1>17, <1>18, <2>1 DEF Fenced, Is
  <2>5. Announced(Stream(s), co[s].progress, co[s].peer, link[o].sentProgress)'
    BY <1>15, <1>18, <2>1 DEF Announced, Is
  <2>6. Declared(Stream(s), co[s].mark, link[o].sentMark)'
    BY <1>15, <1>18, <2>1 DEF Declared, Is
  <2>7. Numbered(Stream(s), co[s].edgeSequence, link[o].out, link[o].scheduled)'
    <3>1. /\ Stream(s)' = Stream(s) /\ co'[s].edgeSequence = co[s].edgeSequence
          /\ link'[o].out = link[o].out /\ link'[o].scheduled = link[o].scheduled
      BY <1>15, <1>18
    <3> QED BY ONLY <2>1, <3>1 DEF Numbered, Is, Through, Asking
  <2>8. (co[s].peer <= link[o].sentProgress)'
    BY <1>15, <2>1
  <2> QED BY <1>1, <2>2, <2>3, <2>4, <2>5, <2>6, <2>7, <2>8 DEF Received
<1>23. Asking(v) <=> Asking(w)
  <2>1. ~Asking(u)
    BY <1>14 DEF Bulletin, Asking
  <2> QED BY <1>3, <1>14, <2>1, AskingMore DEF v
<1>24. Received(o)'
  <2>1. co[o].peer <= l.sentProgress /\ Owed(k.owed, k.seen, fences[o].sent)
    BY <1>1 DEF Received
  <2>2. (co[o].peer <= link[s].sentProgress)'
    <3>1. \A a, b, c \in Nat : a <= b /\ b <= c => a <= c
      OBVIOUS
    <3>2. co[o].peer <= next
      BY <1>3, <1>9, <2>1, <3>1
    <3> QED BY <1>15, <1>16, <3>2
  <2>3. Owed(left, k.seen, fences[o].sent)
    <3>1. \A x \in DOMAIN left : x \in Nat
      BY <1>13, LenProperties
    <3>2. \A x, y \in DOMAIN left : x < y => n + x < n + y
      BY <3>1
    <3> QED BY <1>13, <2>1, <3>2 DEF Owed
  <2>4. ASSUME open[o]
        PROVE  /\ Announced(v, co[o].progress, co[o].peer, next)
               /\ Numbered(v, co[o].edgeSequence, l.out, l.scheduled)
               /\ Declared(v, co[o].mark, nextMark)
               /\ Fenced(v, fences[o].seen, id, sents)
               /\ Acked(v, left, k.seen, fences[o].sent)
    <3>1. /\ Announced(w, co[o].progress, co[o].peer, l.sentProgress)
          /\ Numbered(w, co[o].edgeSequence, l.out, l.scheduled)
          /\ Declared(w, co[o].mark, l.sentMark)
          /\ Fenced(w, fences[o].seen, k.started, k.sent)
          /\ Acked(w, k.owed, k.seen, fences[o].sent)
      BY <1>1, <2>4 DEF Received
    <3> DEFINE progress == co[o].progress
               peer == co[o].peer
               last == l.sentProgress
               sequence == co[o].edgeSequence
               out == l.out
               at == l.scheduled
               mark == co[o].mark
               lastMark == l.sentMark
               seen == fences[o].seen
               started == k.started
               sent == k.sent
               owed == k.owed
               owing == k.seen
               others == fences[o].sent
               told == w \o u
    <3>2. /\ w \in Seq(Message) /\ u \in Seq(Message) /\ peer \in Nat /\ last \in Nat /\ next \in Nat
          /\ out \in Nat /\ mark \in Int /\ lastMark \in Int /\ nextMark \in Int /\ seen \in Nat
          /\ started \in Nat /\ id \in Nat /\ owed \in Seq(Debt) /\ left \in Seq(Debt)
          /\ n \in Nat /\ owing \in Nat
          /\ Announced(w, progress, peer, last) /\ Numbered(w, sequence, out, at)
          /\ Declared(w, mark, lastMark) /\ Fenced(w, seen, started, sent)
          /\ Acked(w, owed, owing, others) /\ Owed(owed, owing, others)
          /\ Bulletin(u, owed, n, out, nextMark, next, started, id)
          /\ last <= next /\ lastMark <= nextMark
      BY <1>3, <1>9, <1>10, <1>13, <1>14, <2>1, <3>1, LenProperties
    <3>3. /\ \A m \in Message : Sent(m) \in sent => Sent(m) \in sents
          /\ id \in {started, started + 1}
          /\ id # started => [id |-> id, through |-> out, acked |-> FALSE] \in sents
          /\ \A x \in DOMAIN left : n + x \in DOMAIN owed /\ left[x] = owed[n + x]
      <4>1. \A m \in Message : Sent(m) \in sent => Sent(m) \in sents
        BY <1>10
      <4>2. (fencing /\ id = started + 1) \/ (~fencing /\ id = started)
        BY <1>10
      <4>3. id # started => asked = [id |-> id, through |-> out, acked |-> FALSE]
        BY <4>2
      <4> QED BY <1>10, <1>13, <4>1, <4>2, <4>3
    <3> HIDE DEF progress, peer, last, sequence, out, at, mark, lastMark, seen, started, sent, owed,
                 owing, others, w
    <3>4. /\ \A j \in DOMAIN u :
               /\ ~Is(u, j, "EdgeRequest")
               /\ Is(u, j, "FenceAck") =>
                    j <= n /\ j \in DOMAIN owed /\ u[j].id = owed[j].id /\ u[j].through = owed[j].through
               /\ Is(u, j, "EmissionComplete") => u[j].id = out /\ u[j].at = nextMark
               /\ Is(u, j, "Progress") => u[j].at = next
               /\ Is(u, j, "Fence") => u[j].id = id /\ u[j].through = out /\ id # started
          /\ \A i, j \in DOMAIN u : Is(u, i, "Fence") /\ Is(u, j, "Fence") => i = j
          /\ id # started => \E j \in DOMAIN u : Is(u, j, "Fence")
      BY <3>2 DEF Bulletin
    <3>5. Announced(told, progress, peer, next)
      BY ONLY <3>2, <3>4, AnnouncedMore
    <3>6. Numbered(told, sequence, out, at)
      <4>1. ~Asking(u)
        BY <3>4 DEF Asking
      <4>2. \A j \in DOMAIN u : /\ Is(u, j, "EmissionComplete") => u[j].id = out
                                /\ Is(u, j, "Fence") => u[j].through = out
        BY <3>4
      <4> QED BY ONLY <3>2, <4>1, <4>2, NumberedMore
    <3>7. Declared(told, mark, nextMark)
      <4>1. \A j \in DOMAIN u : /\ Is(u, j, "EmissionComplete") => u[j].at = nextMark
                                /\ Is(u, j, "EdgeRequest") => j = 1 /\ lastMark < u[j].at
        BY <3>4
      <4>2. w \in Seq(Message) /\ u \in Seq(Message) /\ mark \in Int /\ lastMark \in Int /\ nextMark \in Int
            /\ Declared(w, mark, lastMark) /\ lastMark <= nextMark
        BY <3>2
      <4> QED BY ONLY <4>1, <4>2, DeclaredMore
    <3>8. Fenced(told, seen, id, sents)
      <4>1. \A j \in DOMAIN u : Is(u, j, "Fence") => u[j].id = id /\ Sent(u[j]) \in sents
        BY <3>3, <3>4 DEF Sent
      <4>2. /\ id = started \/ id = started + 1
            /\ started # started + 1
            /\ id = started + 1 => \E j \in DOMAIN u : Is(u, j, "Fence")
            /\ id = started => \A j \in DOMAIN u : ~Is(u, j, "Fence")
            /\ \A i, j \in DOMAIN u : Is(u, i, "Fence") /\ Is(u, j, "Fence") => i = j
        BY SMTT(30), <3>2, <3>3, <3>4
      <4>3. /\ w \in Seq(Message) /\ u \in Seq(Message) /\ seen \in Nat /\ started \in Nat /\ id \in Nat
            /\ Fenced(w, seen, started, sent)
            /\ \A m \in Message : Sent(m) \in sent => Sent(m) \in sents
        BY <3>2, <3>3
      <4> QED BY ONLY <4>1, <4>2, <4>3, FencedMore
    <3>9. Acked(told, left, owing, others)
      <4>1. \A j \in DOMAIN u : Is(u, j, "FenceAck") =>
               j <= n /\ j \in DOMAIN owed /\ u[j].id = owed[j].id /\ u[j].through = owed[j].through
        BY <3>4
      <4>2. /\ w \in Seq(Message) /\ u \in Seq(Message) /\ owing \in Nat /\ n \in Nat
            /\ owed \in Seq([id : Nat, through : Nat]) /\ left \in Seq([id : Nat, through : Nat])
            /\ Owed(owed, owing, others) /\ Acked(w, owed, owing, others)
            /\ \A x \in DOMAIN left : n + x \in DOMAIN owed /\ left[x] = owed[n + x]
        BY <3>2, <3>3 DEF Debt
      <4> QED BY ONLY <4>1, <4>2, AckedMore
    <3>10. v = told
      BY DEF v
    <3> QED BY <3>5, <3>6, <3>7, <3>8, <3>9, <3>10 DEF progress, peer, last, sequence, out, at, mark,
               lastMark, seen, started, sent, owed, owing, others
  <2>5. open'[o] => Announced(Stream(o), co[o].progress, co[o].peer, link[s].sentProgress)'
    BY <1>7, <1>15, <1>16, <1>18, <2>4 DEF Announced, Is
  <2>6. open'[o] => Numbered(Stream(o), co[o].edgeSequence, link[s].out, link[s].scheduled)'
    <3> SUFFICES ASSUME open[o]
                 PROVE  Numbered(Stream(o), co[o].edgeSequence, link[s].out, link[s].scheduled)'
      BY <1>7
    <3>1. Numbered(v, co[o].edgeSequence, l.out, l.scheduled)
      BY <2>4
    <3>2. /\ Stream(o)' = v /\ co'[o].edgeSequence = co[o].edgeSequence /\ link'[s].out = l.out
          /\ link'[s].scheduled = l.scheduled
      BY <1>15, <1>16, <1>18
    <3> QED BY ONLY <3>1, <3>2 DEF Numbered, Is, Through, Asking
  <2>7. open'[o] => Declared(Stream(o), co[o].mark, link[s].sentMark)'
    BY <1>7, <1>15, <1>16, <1>18, <2>4 DEF Declared, Is
  <2>8. open'[o] => Fenced(Stream(o), fences[o].seen, fences[s].started, fences[s].sent)'
    <3> SUFFICES ASSUME open[o]
                 PROVE  Fenced(Stream(o), fences[o].seen, fences[s].started, fences[s].sent)'
      BY <1>7
    <3>1. Fenced(v, fences[o].seen, id, sents)
      BY <2>4
    <3>2. /\ Stream(o)' = v /\ fences'[o].seen = fences[o].seen /\ fences'[s].started = id
          /\ fences'[s].sent = sents
      BY <1>15, <1>17, <1>18
    <3> QED BY ONLY <3>1, <3>2 DEF Fenced, Is
  <2>9. open'[o] => Acked(Stream(o), fences[s].owed, fences[s].seen, fences[o].sent)'
    BY <1>7, <1>15, <1>17, <1>18, <2>4 DEF Acked, Is
  <2>10. Owed(fences[s].owed, fences[s].seen, fences[o].sent)'
    BY <1>15, <1>17, <2>3 DEF Owed
  <2> QED BY <1>1, <2>2, <2>5, <2>6, <2>7, <2>8, <2>9, <2>10 DEF Received
<1>25. Placed(s)'
  <2>1. \A j \in DOMAIN u : ~Is(u, j, "EdgeResponse")
    BY <1>14 DEF Bulletin
  <2>2. Answers(s)'
    <3>1. /\ co'[s].edges = co[s].edges /\ link'[s].delivery = link[s].delivery
          /\ link'[s].completed = link[s].completed /\ wire'[s] = wire[s] \o u
          /\ wire[s] \in Seq(Message) /\ u \in Seq(Message) /\ link'[o] = link[o]
      BY <1>3, <1>14, <1>15, <1>16, <1>18
    <3> QED BY <1>1, <2>1, <3>1, AnswersMore
  <2>3. Asking(Stream(s))' <=> Asking(Stream(s))
    BY <1>18 DEF Asking, Is
  <2> QED BY <1>1, <1>7, <1>15, <1>16, <2>2, <2>3, PlacedStill
<1>26. Placed(o)'
  <2>1. Answers(o)'
    BY <1>1, <1>15, <1>16, <1>18, AnswersSame
  <2>2. open'[o] => open[o] /\ (Asking(Stream(o))' => Asking(Stream(o)))
    BY <1>7, <1>18, <1>23 DEF Asking, Is
  <2> QED BY <1>1, <1>15, <1>16, <2>1, <2>2, PlacedStill
<1> QED BY <1>1, <1>19, <1>20, <1>21, <1>22, <1>24, <1>25, <1>26, BothSides

\* Nothing is delivered, or it is kept back: the coordinator is not touched.
LEMMA NothingDelivered ==
  ASSUME IInv, NEW s \in Sides, NothingToDeliver(s) \/ HoldUnarmed(s)
  PROVE  IInv'
<1>1. Delivering(s) /\ EndPump(s, link[s]) /\ co' = co
  BY DEF NothingToDeliver, HoldUnarmed, Unarmed
<1>2. Shape /\ link[s] \in Bookkeeping /\ co[s] \in Coordinator
  BY Sidewise, Typed
<1>3. co' = [co EXCEPT ![s] = co'[s]] /\ co'[s] = co[s]
  BY <1>1, <1>2 DEF Shape
<1>4. link[s].delivery \subseteq co[s].held
  BY <1>1, Deliverer
<1> QED BY <1>1, <1>2, <1>3, <1>4, EndPumpKeeps

\* The batch is acknowledged: its edges have all been applied.
LEMMA AcknowledgeDeliveryKeeps ==
  ASSUME IInv, NEW s \in Sides, AcknowledgeDelivery(s)
  PROVE  IInv'
<1> DEFINE c == co[s]
           d == IF c.deliveryEpisode = NoEpisode THEN [c EXCEPT !.held = {}]
                ELSE [c EXCEPT !.held = {}, !.deliveryEpisode = NoEpisode, !.episodeOpen = FALSE,
                               !.instructions = 0]
<1>1. Delivering(s) /\ EndPump(s, link[s]) /\ link[s].delivery = {}
  BY DEF AcknowledgeDelivery
<1>2. co' = [co EXCEPT ![s] = d]
  BY DEF AcknowledgeDelivery
<1>3. Shape /\ link[s] \in Bookkeeping /\ c \in Coordinator
  BY Sidewise, Typed
<1>4. /\ d \in Coordinator /\ d.held = {} /\ d.local = c.local /\ d.peer = c.peer
      /\ d.progress = c.progress /\ d.permit = c.permit /\ d.mark = c.mark
      /\ d.edgeSequence = c.edgeSequence /\ d.edges = c.edges
  <2>1. PICK no \in BOOLEAN, z \in Nat : no = FALSE /\ z = 0
    OBVIOUS
  <2>2. PICK h \in SUBSET Edge : h = {}
    OBVIOUS
  <2>3. PICK x \in Episode : x = NoEpisode
    <3>1. NoEpisode \in Episode
      BY DEF NoEpisode, Episode
    <3> QED BY <3>1
  <2>4. \/ d = [c EXCEPT !.held = h]
        \/ d = [c EXCEPT !.held = h, !.deliveryEpisode = x, !.episodeOpen = no, !.instructions = z]
    BY <2>1, <2>2, <2>3
  <2> HIDE DEF c, d
  <2>5. CASE d = [c EXCEPT !.held = h]
    BY ONLY <1>3, <2>2, <2>5 DEF Coordinator
  <2>6. CASE d = [c EXCEPT !.held = h, !.deliveryEpisode = x, !.episodeOpen = no, !.instructions = z]
    BY ONLY <1>3, <2>2, <2>6 DEF Coordinator
  <2> QED BY <2>4, <2>5, <2>6
<1> HIDE DEF d
<1>5. co'[s] = d /\ co' = [co EXCEPT ![s] = co'[s]]
  BY <1>2, <1>3 DEF Shape
<1> QED BY <1>1, <1>3, <1>4, <1>5, EndPumpKeeps

\* An episode begins: credit for the game to arm a transfer.
LEMMA BeginRearmKeeps ==
  ASSUME IInv, NEW s \in Sides, BeginRearm(s)
  PROVE  IInv'
<1> DEFINE c == co[s]
           l == link[s]
           e == [id |-> l.episodes + 1, cycles |-> RearmCycles(s), cap |-> RearmInstructions(s)]
           d == [c EXCEPT !.episode = e, !.deliveryEpisode = e, !.episodeOpen = TRUE,
                          !.episodeEnd = c.local + e.cycles, !.instructions = e.cap]
           rest == [l EXCEPT !.episodes = e.id]
<1>1. /\ Delivering(s) /\ EndPump(s, rest) /\ l.delivery # {} /\ e.cap > 0
      /\ co' = [co EXCEPT ![s].episode = e, ![s].deliveryEpisode = e, ![s].episodeOpen = TRUE,
                          ![s].episodeEnd = co[s].local + e.cycles, ![s].instructions = e.cap]
  BY DEF BeginRearm, Unarmed
<1>2. Shape /\ Bounded(s) /\ l \in Bookkeeping /\ c \in Coordinator /\ c.local \in Nat /\ c.held \subseteq Edge
  BY Sidewise, Typed, Numbers
<1>3. l.delivery \subseteq c.held /\ \A x, y \in c.held : x = y
  BY <1>2 DEF Bounded
<1>4. Least(c.held).at \in Nat
  <2>1. PICK x \in c.held : TRUE
    BY <1>1, <1>3
  <2>2. c.held \subseteq {x} /\ c.held # {}
    BY <1>3, <2>1
  <2>3. Least(c.held) = x
    BY <2>2, LeastOne
  <2>4. x \in Edge
    BY <1>2
  <2> QED BY <2>3, <2>4 DEF Edge
<1>5. RearmCycles(s) \in Int
  <2>1. l.heldStart \in Nat
    BY <1>2 DEF Bookkeeping
  <2>2. /\ RearmBudget - (c.local - l.heldStart) \in Int
        /\ Least(c.held).at + MaxEdgeLateness - c.local \in Int
    BY <1>2, <1>4, <2>1, Constants
  <2> QED BY <2>2 DEF RearmCycles
<1>6. RearmInstructions(s) \in Int
  <2>1. l.retired \in Nat
    BY <1>2 DEF Bookkeeping
  <2> QED BY <2>1, Constants DEF RearmInstructions
<1>7. l.episodes \in Nat
  BY <1>2 DEF Bookkeeping
<1>8. e \in Episode /\ e.cap \in Nat /\ e.id \in Nat /\ c.local + e.cycles \in Int
  <2>1. l.episodes + 1 \in Nat
    BY <1>7
  <2> QED BY <1>1, <1>2, <1>5, <1>6, <2>1 DEF Episode
<1> DEFINE cap == e.cap
           ending == c.local + e.cycles
           ident == e.id
<1>9. e \in Episode /\ cap \in Nat /\ ident \in Nat /\ ending \in Int
  BY <1>8
<1>10. co'[s] = d /\ co' = [co EXCEPT ![s] = co'[s]]
  BY <1>1, <1>2 DEF Shape
<1>11. PICK yes \in BOOLEAN : yes = TRUE
  OBVIOUS
<1>12. d = [c EXCEPT !.episode = e, !.deliveryEpisode = e, !.episodeOpen = yes,
                     !.episodeEnd = ending, !.instructions = cap]
  BY <1>11
<1>13. rest = [l EXCEPT !.episodes = ident]
  OBVIOUS
<1> HIDE DEF e, d, rest, cap, ending, ident, c, l
<1>14. /\ d \in Coordinator /\ d.held = c.held /\ d.local = c.local /\ d.peer = c.peer
       /\ d.progress = c.progress /\ d.permit = c.permit /\ d.mark = c.mark
       /\ d.edgeSequence = c.edgeSequence /\ d.edges = c.edges
  BY ONLY <1>2, <1>9, <1>12 DEF Coordinator
<1>15. /\ rest \in Bookkeeping /\ rest.ingress = l.ingress /\ rest.delivery = l.delivery
       /\ rest.completed = l.completed /\ rest.out = l.out /\ rest.waiting = l.waiting
       /\ rest.scheduled = l.scheduled /\ rest.sentProgress = l.sentProgress
       /\ rest.sentMark = l.sentMark
  BY ONLY <1>2, <1>9, <1>13 DEF Bookkeeping
<1> QED BY <1>1, <1>3, <1>10, <1>14, <1>15, EndPumpKeeps DEF c, l

\* Every step of the delivery phase preserves the invariant.
LEMMA DeliverKeeps ==
  ASSUME IInv, NEW s \in Sides, Deliver(s)
  PROVE  IInv'
BY NothingDelivered, PopReadyEdgesKeeps, GiveUpKeeps, ApplyEdgeKeeps, AcknowledgeDeliveryKeeps,
   BeginRearmKeeps DEF Deliver

-----------------------------------------------------------------------------
(* The invariant *)

\* The first message of each side is its progress of zero.
LEMMA InitEstablishes ==
  ASSUME Init
  PROVE  IInv
<1> DEFINE x == IdleSerial
           a == Armed(x, TRUE)
           b == Armed(x, FALSE)
<1>1. /\ x \in SerialCore /\ x.enabled = (x.bits > 0) /\ x.now = 0 /\ ~x.enabled
  <2>1. PICK no \in BOOLEAN, z \in Nat : no = FALSE /\ z = 0
    OBVIOUS
  <2>2. x = [enabled |-> no, internal |-> no, bits |-> z, target |-> z, now |-> z]
    BY <2>1, Zenon DEF IdleSerial
  <2>3. z \in 0..ByteBits
    BY <2>1, Constants
  <2> HIDE DEF x
  <2>4. x \in SerialCore
    BY ONLY <2>1, <2>2, <2>3 DEF SerialCore
  <2>5. x.bits = z /\ x.now = z /\ x.enabled = no
    BY <2>2
  <2>6. x.bits = 0 /\ x.now = 0 /\ ~x.enabled
    BY <2>1, <2>5
  <2>7. x.enabled \in BOOLEAN /\ ~(x.bits > 0)
    BY <2>1, <2>5, <2>6
  <2>8. x.enabled = (x.bits > 0)
    BY <2>6, <2>7
  <2> QED BY <2>4, <2>6, <2>8
<1>2. /\ a \in SerialCore /\ a.enabled = (a.bits > 0) /\ a.now = 0 /\ a.enabled /\ a.target > 0
      /\ b \in SerialCore /\ b.enabled = (b.bits > 0) /\ b.now = 0 /\ b.enabled /\ ~b.internal
  <2>1. PICK no \in BOOLEAN, yes \in BOOLEAN, z \in Nat : no = FALSE /\ yes = TRUE /\ z = 0
    OBVIOUS
  <2>2. /\ a = [enabled |-> yes, internal |-> yes, bits |-> ByteBits, target |-> EdgePeriod, now |-> z]
        /\ b = [enabled |-> yes, internal |-> no, bits |-> ByteBits, target |-> z, now |-> z]
    <3>1. 0 + EdgePeriod = EdgePeriod
      BY Constants
    <3>2. /\ a = [enabled |-> TRUE, internal |-> TRUE, bits |-> ByteBits, target |-> 0 + EdgePeriod, now |-> 0]
          /\ b = [enabled |-> TRUE, internal |-> FALSE, bits |-> ByteBits, target |-> 0, now |-> 0]
      <4>1. IdleSerial.now = 0
        BY DEF IdleSerial
      <4>2. /\ a = [IdleSerial EXCEPT !.enabled = TRUE, !.internal = TRUE, !.bits = ByteBits,
                                      !.target = 0 + EdgePeriod]
            /\ b = [IdleSerial EXCEPT !.enabled = TRUE, !.internal = FALSE, !.bits = ByteBits,
                                      !.target = 0]
        BY <4>1 DEF Armed
      <4> HIDE DEF a, b
      <4>3. a = [enabled |-> TRUE, internal |-> TRUE, bits |-> ByteBits, target |-> 0 + EdgePeriod, now |-> 0]
        BY ONLY <4>2 DEF IdleSerial
      <4>4. b = [enabled |-> TRUE, internal |-> FALSE, bits |-> ByteBits, target |-> 0, now |-> 0]
        BY ONLY <4>2 DEF IdleSerial
      <4> QED BY <4>3, <4>4
    <3> HIDE DEF a, b
    <3> QED BY <2>1, <3>1, <3>2, Zenon
  <2>3. ByteBits \in 0..ByteBits /\ EdgePeriod \in Nat
    BY Constants
  <2> HIDE DEF a, b
  <2>4. a \in SerialCore /\ b \in SerialCore
    BY ONLY <2>1, <2>2, <2>3 DEF SerialCore
  <2>5. a.bits > 0 /\ a.now = 0 /\ a.enabled /\ a.target > 0 /\ b.bits > 0 /\ b.now = 0 /\ b.enabled /\ ~b.internal
    BY <2>1, <2>2, Constants
  <2>6. a.enabled = (a.bits > 0) /\ b.enabled = (b.bits > 0)
    BY <2>1, <2>2, <2>5
  <2> QED BY <2>4, <2>5, <2>6
<1>3. FreshCoordinator \in Coordinator
  <2>1. PICK no \in BOOLEAN, z \in Nat : no = FALSE /\ z = 0
    OBVIOUS
  <2>2. NoEpisode \in Episode
    BY DEF NoEpisode, Episode
  <2> DEFINE m == -1
  <2>3. m \in Nat \cup {-1} /\ "none" \in Ending /\ z \in {0, Need} /\ z \in Int /\ {} \subseteq Edge
    BY <2>1 DEF Ending
  <2>4. FreshCoordinator =
          [ended |-> "none", local |-> z, peer |-> z, progress |-> z, permit |-> z,
           episode |-> NoEpisode, episodeOpen |-> no, episodeEnd |-> z, instructions |-> z,
           edgeSequence |-> z, lastEdgeAt |-> z, edges |-> {}, mark |-> m, markSequence |-> z,
           held |-> {}, deliveryEpisode |-> NoEpisode]
    BY <2>1 DEF FreshCoordinator
  <2> HIDE DEF m
  <2> QED BY ONLY <2>1, <2>2, <2>3, <2>4 DEF Coordinator
<1>4. FreshLink \in Bookkeeping
  <2>1. PICK z \in Nat : z = 0
    OBVIOUS
  <2> DEFINE m == -1
  <2>2. m \in Nat \cup {-1} /\ <<>> \in Seq(Message) /\ {} \subseteq Edge /\ {} \subseteq Nat
    BY EmptySeq
  <2>3. FreshLink =
          [ingress |-> <<>>, delivery |-> {}, completed |-> {}, out |-> z, waiting |-> z,
           scheduled |-> z, settled |-> z, sentProgress |-> z, sentMark |-> m,
           episodes |-> z, heldStart |-> z, retired |-> z]
    BY <2>1 DEF FreshLink
  <2> HIDE DEF m
  <2> QED BY ONLY <2>1, <2>2, <2>3 DEF Bookkeeping
<1> DEFINE y == [sent |-> {}, started |-> 0, seen |-> 0, owed |-> <<>>]
           g == <<Progress(0)>>
<1>5. y \in Fencing
  <2>1. {} \subseteq FenceSent /\ 0 \in Nat /\ <<>> \in Seq([id : Nat, through : Nat])
    OBVIOUS
  <2> QED BY <2>1 DEF Fencing
<1>6. /\ g \in Seq(Message) /\ DOMAIN g = {1} /\ g[1] = Progress(0) /\ g # <<>>
      /\ Progress(0).type = "Progress" /\ Progress(0).at = 0 /\ <<>> \o g = g
  <2>1. Progress(0) \in Message /\ Progress(0).type = "Progress" /\ Progress(0).at = 0
    BY Messages
  <2>2. g \in Seq(Message) /\ DOMAIN g = {1} /\ g[1] = Progress(0)
    BY <2>1, Alone
  <2>3. <<>> \o g = g
    BY <2>2, ConcatEmptySeq
  <2> QED BY <2>1, <2>2, <2>3
<1> HIDE DEF x, a, b, g
<1>7. /\ pc = [s \in Sides |-> "boundary"] /\ mode = [s \in Sides |-> "none"]
      /\ co = [s \in Sides |-> FreshCoordinator] /\ serial \in [Sides -> {x, a, b}]
      /\ link = [s \in Sides |-> FreshLink] /\ fences = [s \in Sides |-> y]
      /\ open = [s \in Sides |-> TRUE] /\ wire = [s \in Sides |-> g]
      /\ fault = [s \in Sides |-> "none"]
  BY DEF Init, x, a, b, g
<1>8. Shape
  <2>1. pc \in [Sides -> Positions] /\ fault \in [Sides -> Fault] /\ open \in [Sides -> BOOLEAN]
        /\ mode \in [Sides -> {"none", "before", "wait", "end", "fence"}]
    BY <1>7 DEF Positions, Fault
  <2>2. serial \in [Sides -> SerialCore]
    BY <1>1, <1>2, <1>7
  <2>3. co \in [Sides -> Coordinator] /\ link \in [Sides -> Bookkeeping]
    BY <1>3, <1>4, <1>7
  <2>4. fences \in [Sides -> Fencing] /\ wire \in [Sides -> Seq(Message)]
    BY <1>5, <1>6, <1>7
  <2> QED BY <2>1, <2>2, <2>3, <2>4 DEF Shape
<1>9. ASSUME NEW s \in Sides PROVE Own(s) /\ Received(s) /\ Placed(s)
  <2> DEFINE o == Other(s)
  <2>1. o \in Sides
    BY Peers
  <2>2. /\ pc[s] = "boundary" /\ fault[s] = "none" /\ serial[s] \in {x, a, b} /\ open[s]
        /\ co[s] = FreshCoordinator /\ link[s] = FreshLink /\ link[o] = FreshLink
        /\ fences[s] = y /\ fences[o] = y /\ wire[o] = g /\ wire[s] = g
    BY <1>7, <2>1
  <2>3. /\ co[s].local = 0 /\ co[s].peer = 0 /\ co[s].progress = 0 /\ co[s].permit = 0
        /\ co[s].mark = -1 /\ co[s].edgeSequence = 0 /\ co[s].edges = {} /\ co[s].held = {}
    BY <2>2 DEF FreshCoordinator
  <2>4. /\ link[s].ingress = <<>> /\ link[s].delivery = {} /\ link[s].completed = {}
        /\ link[s].waiting = 0 /\ link[s].scheduled = 0 /\ link[s].settled = 0
        /\ link[s].sentProgress = 0 /\ link[s].sentMark = -1
        /\ link[o].out = 0 /\ link[o].waiting = 0 /\ link[o].scheduled = 0
        /\ link[o].sentProgress = 0 /\ link[o].sentMark = -1
    BY <2>2 DEF FreshLink
  <2>5. /\ serial[s].enabled = (serial[s].bits > 0) /\ serial[s].now = 0
        /\ Clocking(s) => serial[s].target > 0
    BY <1>1, <1>2, <2>2 DEF Clocking
  <2>6. Stream(s) = g
    BY <1>6, <2>2, <2>4 DEF Stream
  <2>7. /\ fences[s].sent = {} /\ fences[s].started = 0 /\ fences[s].seen = 0
        /\ fences[o].sent = {} /\ fences[o].started = 0 /\ fences[o].seen = 0
        /\ fences[o].owed = <<>>
    BY <2>2
  <2>8. Position(s)
    BY <2>2, <2>3, <2>4 DEF Position
  <2>9. Core(s)
    <3>1. Clocking(s) => serial[s].target \in Nat
      BY <1>8, Numbers
    <3>2. Clocking(s) => serial[s].target > -1
      BY <2>5, <3>1
    <3> QED BY <2>2, <2>3, <2>4, <2>5, <3>2 DEF Core, Settled
  <2>10. Bounded(s)
    <3>1. 0 <= 0 + QuantumCycles + RearmBudget
      BY Constants
    <3> QED BY <2>3, <2>4, <3>1 DEF Bounded
  <2>11. Outstanding(fences[s].sent, fences[s].started)
    <3>1. IsFiniteSet({}) /\ Cardinality({}) = 0
      BY FS_EmptySet
    <3> QED BY <2>7, <3>1, Constants DEF Outstanding
  <2>12. Announced(g, 0, 0, 0)
    BY <1>6 DEF Announced, Is
  <2>13. \A i \in DOMAIN g : /\ ~Is(g, i, "EdgeRequest") /\ ~Is(g, i, "EmissionComplete")
                             /\ ~Is(g, i, "Fence") /\ ~Is(g, i, "FenceAck") /\ ~Is(g, i, "EdgeResponse")
    BY <1>6 DEF Is
  <2>14. ~Asking(g)
    BY <2>13 DEF Asking
  <2>15. Numbered(g, 0, 0, 0)
    BY <2>13, <2>14 DEF Numbered
  <2>16. Declared(g, -1, -1)
    BY <2>13 DEF Declared
  <2>17. Fenced(g, 0, 0, {})
    BY <2>13 DEF Fenced
  <2>18. Acked(g, <<>>, 0, {}) /\ Owed(<<>>, 0, {})
    BY <2>13 DEF Acked, Owed
  <2>19. Received(s)
    BY <2>3, <2>4, <2>6, <2>7, <2>12, <2>15, <2>16, <2>17, <2>18 DEF Received
  <2>20. Placed(s)
    <3>1. 1..0 = {}
      OBVIOUS
    <3> QED BY <2>2, <2>3, <2>4, <2>6, <2>13, <2>14, <3>1 DEF Placed, Here
  <2> QED BY <2>8, <2>9, <2>10, <2>11, <2>19, <2>20 DEF Own
<1> QED BY <1>8, <1>9 DEF IInv

\* Every step preserves the invariant.
LEMMA NextKeeps ==
  ASSUME IInv, Next
  PROVE  IInv'
<1>1. ASSUME NEW s \in Sides, Consume(s) PROVE IInv'
  BY <1>1, ConsumeProgressKeeps, ConsumeEdgeRequestKeeps, ConsumeEmissionCompleteKeeps,
     ConsumeFenceKeeps, ConsumeFenceAckKeeps DEF Consume
<1>2. ASSUME NEW s \in Sides, Execute(s) PROVE IInv'
  <2>1. CASE Reserve(s)
    BY <2>1, ReserveKeeps
  <2>2. CASE \E a \in co[s].local..(co[s].local + co[s].permit) : Access(s, a)
    BY <2>2, AccessKeeps
  <2>3. CASE \E w \in Writes[s] : Touch(s, w)
    BY <2>3, TouchKeeps
  <2>4. CASE \E elapsed \in 1..co[s].permit, executed \in {0, 1} : Commit(s, elapsed, executed)
    BY <2>4, CommitKeeps
  <2>5. CASE FireEdge(s) \/ StageWhileWaiting(s) \/ TakeResponse(s)
    BY <2>5, FireEdgeKeeps, StageWhileWaitingKeeps, TakeResponseKeeps
  <2> QED BY <1>2, <2>1, <2>2, <2>3, <2>4, <2>5 DEF Execute
<1>3. ASSUME NEW s \in Sides, Owner(s) PROVE IInv'
  <2>1. CASE \E n \in Polled(s) : PumpBefore(s, n) \/ PumpEnd(s, n) \/ PumpFence(s, n) \/ PumpWait(s, n)
    BY <2>1, PumpKeeps
  <2>2. CASE PollFence(s)
    BY <2>2, PollFenceKeeps
  <2>3. CASE Deliver(s)
    BY <2>3, DeliverKeeps
  <2>4. CASE Notice(s) \/ Break(s)
    BY <2>4, StopKeeps
  <2> QED BY <1>1, <1>2, <1>3, <2>1, <2>2, <2>3, <2>4 DEF Owner
<1>4. ASSUME NEW s \in Sides, Eof(s) \/ Expire(s) \/ Cancel(s) PROVE IInv'
  BY <1>4, EofKeeps, StopKeeps, CancelKeeps
<1>5. Impatient \subseteq Sides /\ Cancellable \subseteq Sides
  BY CableAssumption
<1> QED BY <1>3, <1>4, <1>5 DEF Next

\* A step that changes nothing preserves it.
LEMMA StutterKeeps ==
  ASSUME IInv, UNCHANGED vars
  PROVE  IInv'
<1>1. /\ pc' = pc /\ mode' = mode /\ co' = co /\ serial' = serial /\ link' = link
      /\ fences' = fences /\ open' = open /\ wire' = wire /\ fault' = fault
  BY DEF vars
<1>2. ASSUME NEW s \in Sides PROVE Own(s)' /\ Received(s)' /\ Placed(s)'
  <2> DEFINE o == Other(s)
  <2>1. o \in Sides /\ Own(s) /\ Received(s) /\ Placed(s)
    BY Peers, Sidewise
  <2>2. Stream(s)' = Stream(s)
    BY <1>1 DEF Stream
  <2>3. Own(s)'
    BY <1>1, <2>1, OwnSame
  <2>4. Received(s)'
    BY <1>1, <2>1, <2>2, ReceivedSame
  <2>5. Placed(s)'
    BY <1>1, <2>1, <2>2, PlacedSame
  <2> QED BY <2>3, <2>4, <2>5
<1>3. Shape'
  BY <1>1 DEF IInv, Shape
<1> QED BY <1>2, <1>3 DEF IInv

\* Whatever the two sides do, however they fail, the invariant holds: two TimedLinkSessions
\* with their adapters and cores keep their coordinators, their bookkeeping and the messages
\* under way in agreement.
THEOREM CableInvariant == Spec => []IInv
<1>1. Init => IInv
  BY InitEstablishes
<1>2. IInv /\ [Next]_vars => IInv'
  BY NextKeeps, StutterKeeps
<1> QED BY <1>1, <1>2, PTL DEF Spec

-----------------------------------------------------------------------------
(* What follows from the invariant *)

\* The states have the shape the actions assume.
THEOREM SidesAreTyped == Spec => []TypeOK
<1>1. IInv => TypeOK
  <2> SUFFICES ASSUME IInv PROVE TypeOK
    OBVIOUS
  <2>1. Shape
    BY DEF IInv
  <2>2. ASSUME NEW s \in Sides
        PROVE  /\ serial[s].enabled \in BOOLEAN /\ serial[s].internal \in BOOLEAN
               /\ serial[s].bits \in 0..ByteBits /\ serial[s].enabled = (serial[s].bits > 0)
               /\ serial[s].target \in Nat /\ serial[s].now \in Nat
               /\ co[s].local \in Nat /\ co[s].peer \in Nat /\ co[s].permit \in {0, Need}
               /\ co[s].instructions \in Nat /\ co[s].mark \in Nat \cup {-1}
               /\ link[s].out \in Nat /\ link[s].waiting \in {0, link[s].out}
               /\ link[s].delivery \subseteq co[s].held
               /\ \A i \in DOMAIN wire[s] : wire[s][i].type \in
                    {"Progress", "EdgeRequest", "EmissionComplete", "EdgeResponse", "Fence", "FenceAck"}
    <3>1. Other(s) \in Sides /\ Other(Other(s)) = s
      BY Peers
    <3>2. Core(s) /\ Bounded(s) /\ Placed(Other(s))
      BY Sidewise
    <3>3. link[s].waiting \in {0, link[s].out}
      BY <3>1, <3>2 DEF Placed
    <3>4. link[s].delivery \subseteq co[s].held
      BY <3>2 DEF Bounded
    <3>5. serial[s].enabled = (serial[s].bits > 0)
      BY <3>2 DEF Core
    <3>6. wire[s] \in Seq(Message)
      BY <2>1, Typed
    <3>7. \A i \in DOMAIN wire[s] : wire[s][i].type \in
            {"Progress", "EdgeRequest", "EmissionComplete", "EdgeResponse", "Fence", "FenceAck"}
      BY <3>6, Elements, Fields
    <3> QED BY <2>1, <3>3, <3>4, <3>5, <3>7, Numbers
  <2> QED BY <2>1, <2>2 DEF TypeOK, Shape, Positions
<1> QED BY <1>1, CableInvariant, PTL

\* reserve() grants no permit by which one emulator would run further ahead of the other than
\* the quantum and the rearm budget, however old the progress it goes by.
THEOREM SkewIsBounded == Spec => []BoundedSkew
<1>1. IInv => BoundedSkew
  <2> SUFFICES ASSUME IInv, NEW s \in Sides
               PROVE  co[s].local <= co[Other(s)].local + QuantumCycles + RearmBudget
    BY DEF BoundedSkew
  <2> DEFINE o == Other(s)
  <2>1. Shape /\ Bounded(s) /\ Bounded(o) /\ Received(s) /\ o \in Sides
    BY Peers, Sidewise
  <2>2. /\ co[s].local \in Nat /\ co[s].permit \in Nat /\ co[s].peer \in Nat
        /\ link[o].sentProgress \in Nat /\ co[o].local \in Nat
    BY <2>1, Numbers
  <2>3. co[s].local + co[s].permit <= co[s].peer + QuantumCycles + RearmBudget
    BY <2>1 DEF Bounded
  <2>4. co[s].peer <= link[o].sentProgress /\ link[o].sentProgress <= co[o].local
    BY <2>1 DEF Received, Bounded
  <2>5. \A a, b, c, d, e, q, r \in Nat :
           a + b <= c + q + r /\ c <= d /\ d <= e => a <= e + q + r
    OBVIOUS
  <2> HIDE DEF o
  <2>6. co[s].local <= co[o].local + QuantumCycles + RearmBudget
    BY <2>2, <2>3, <2>4, <2>5, Constants
  <2> QED BY <2>6 DEF o
<1> QED BY <1>1, CableInvariant, PTL

\* Two sessions never fail with a protocol violation or a late edge: what one publishes is in
\* order and complete, and what it is asked it answers in time.
THEOREM NobodyIsAccused == Spec => []NoViolation
<1>1. IInv => NoViolation
  BY DEF IInv, Own, Position, NoViolation
<1> QED BY <1>1, CableInvariant, PTL

\* Wherever a failure finds the owner, between reserve() and commit() too, _recover settles the
\* permit: none is left when the session is down.
THEOREM PermitsAreSettled == Spec => []PermitsSettled
<1>1. IInv => PermitsSettled
  <2> SUFFICES ASSUME IInv, NEW s \in Sides, pc[s] = "down" PROVE co[s].permit = 0
    BY DEF PermitsSettled
  <2>1. Position(s) /\ co[s].permit \in Nat
    BY Sidewise, Numbers
  <2>2. ~(co[s].permit > 0)
    BY <2>1 DEF Position
  <2> QED BY <2>1, <2>2
<1> QED BY <1>1, CableInvariant, PTL

-----------------------------------------------------------------------------
(* The end of a side is final *)

Lasting ==
  \A s \in Sides :
    /\ fault[s] \notin {"none", "closed", "deadline"} => fault'[s] = fault[s]
    /\ ~open[s] => Len(wire'[s]) <= Len(wire[s])

\* A side that still runs has no fault to lose, and only an open side sends.
LEMMA RunningLasts ==
  ASSUME IInv, NEW t \in Sides, fault[t] = "none", fault' = [fault EXCEPT ![t] = fault'[t]],
         \/ wire' = wire
         \/ open[t] /\ wire' = [wire EXCEPT ![t] = wire'[t]]
         \/ wire' = [wire EXCEPT ![Other(t)] = wire'[Other(t)]]
            /\ Len(wire'[Other(t)]) <= Len(wire[Other(t)])
  PROVE  Lasting
<1>1. Shape /\ Other(t) \in Sides
  BY Peers DEF IInv
<1>2. ASSUME NEW s \in Sides PROVE fault[s] # "none" => fault'[s] = fault[s]
  BY <1>1 DEF Shape
<1>3. ASSUME NEW s \in Sides, ~open[s] PROVE Len(wire'[s]) <= Len(wire[s])
  <2>1. Len(wire[s]) \in Nat
    BY <1>1, Typed, Elements
  <2>2. CASE wire' = wire
    BY <2>1, <2>2
  <2>3. CASE open[t] /\ wire' = [wire EXCEPT ![t] = wire'[t]]
    <3>1. wire'[s] = wire[s]
      BY <1>1, <1>3, <2>3 DEF Shape
    <3> QED BY <2>1, <3>1
  <2>4. CASE wire' = [wire EXCEPT ![Other(t)] = wire'[Other(t)]]
             /\ Len(wire'[Other(t)]) <= Len(wire[Other(t)])
    <3>1. wire'[s] = wire[s] \/ s = Other(t)
      BY <1>1, <2>4 DEF Shape
    <3> QED BY <2>1, <2>4, <3>1
  <2> QED BY <2>2, <2>3, <2>4
<1> QED BY <1>2, <1>3 DEF Lasting

\* Where the owner is, no fault has been met yet.
LEMMA Running ==
  ASSUME IInv, NEW t \in Sides, pc[t] \notin {"commit", "broken", "down"}
  PROVE  fault[t] = "none"
BY Sidewise DEF Position

\* Failing while a side runs.
LEMMA FailingLasts ==
  ASSUME IInv, NEW t \in Sides, pc[t] \notin {"commit", "broken", "down"}, NEW why,
         (\E ended : FailWith(t, why, ended)) \/ SerialFault(t, why)
  PROVE  Lasting
<1>1. fault[t] = "none" /\ Shape
  BY Running DEF IInv
<1>2. wire' = wire /\ fault' = [fault EXCEPT ![t] = Seen(t, why)]
  BY DEF FailWith, SerialFault
<1>3. fault' = [fault EXCEPT ![t] = fault'[t]]
  BY <1>1, <1>2 DEF Shape
<1> QED BY <1>1, <1>2, <1>3, RunningLasts

\* The messages left on the wire are not more than before.
LEMMA Shorter ==
  ASSUME NEW w \in Seq(Message), NEW n \in 0..Len(w)
  PROVE  Len(SubSeq(w, n + 1, Len(w))) <= Len(w) /\ (w # <<>> => Len(Tail(w)) <= Len(w))
<1>1. Len(w) \in Nat /\ n \in Nat /\ n <= Len(w)
  BY Elements
<1>2. /\ SubSeq(w, n + 1, Len(w)) \in Seq(Message)
      /\ DOMAIN SubSeq(w, n + 1, Len(w)) = 1..(Len(w) - n)
  BY Divided
<1>3. Len(SubSeq(w, n + 1, Len(w))) = Len(w) - n
  BY <1>1, <1>2, LenProperties
<1>4. w # <<>> => Len(Tail(w)) = Len(w) - 1
  BY HeadTailProperties
<1> QED BY <1>1, <1>3, <1>4

\* Pumping takes from the wire.
LEMMA PumpLasts ==
  ASSUME IInv, NEW t \in Sides, NEW n \in Polled(t),
         PumpBefore(t, n) \/ PumpEnd(t, n) \/ PumpFence(t, n) \/ PumpWait(t, n)
  PROVE  Lasting
<1> DEFINE o == Other(t)
           w == wire[o]
<1>1. pc[t] \in {"boundary", "starved"} /\ \E m : Pump(t, m, n)
  BY DEF PumpBefore, PumpEnd, PumpFence, PumpWait, AtBoundary
<1>2. Shape /\ o \in Sides /\ w \in Seq(Message) /\ fault[t] = "none" /\ Len(w) \in Nat
  BY <1>1, Running, Typed, Peers, Elements DEF IInv
<1>3. \/ Fail(t, "protocol") \/ Fail(t, "capacity")
      \/ wire' = [wire EXCEPT ![o] = SubSeq(w, n + 1, Len(w))] /\ fault' = fault
  BY <1>1, <1>2 DEF Pump, Shape
<1>4. CASE Fail(t, "protocol") \/ Fail(t, "capacity")
  BY <1>1, <1>4, FailingLasts DEF Fail
<1>5. CASE wire' = [wire EXCEPT ![o] = SubSeq(w, n + 1, Len(w))] /\ fault' = fault
  <2>1. n \in 0..Len(w)
    BY <1>2, Constants DEF Polled, Incoming
  <2>2. Len(SubSeq(w, n + 1, Len(w))) <= Len(w)
    BY <1>2, <2>1, Shorter
  <2>3. wire'[o] = SubSeq(w, n + 1, Len(w)) /\ fault' = [fault EXCEPT ![t] = fault'[t]]
    BY <1>2, <1>5 DEF Shape
  <2>4. wire' = [wire EXCEPT ![o] = wire'[o]] /\ Len(wire'[o]) <= Len(wire[o])
    BY <1>5, <2>2, <2>3
  <2> HIDE DEF w
  <2> QED BY <1>2, <2>3, <2>4, RunningLasts
<1> QED BY <1>3, <1>4, <1>5

\* Applying a message sends nothing.
LEMMA ConsumeLasts ==
  ASSUME IInv, NEW t \in Sides, Consume(t)
  PROVE  Lasting
<1>1. pc[t] = "consume"
  BY DEF Consume, ConsumeProgress, ConsumeEdgeRequest, ConsumeEmissionComplete, ConsumeFence,
         ConsumeFenceAck, Consuming
<1>2. Shape /\ fault[t] = "none"
  BY <1>1, Running DEF IInv
<1>3. \/ FailWith(t, "protocol", "validation") \/ Fail(t, "protocol")
      \/ FailWith(t, "lateness", "receive_edge.lateness")
      \/ wire' = wire /\ fault' = fault
  BY DEF Consume, ConsumeProgress, ConsumeEdgeRequest, ConsumeEmissionComplete, ConsumeFence,
         ConsumeFenceAck
<1>4. CASE wire' = wire /\ fault' = fault
  <2>1. fault' = [fault EXCEPT ![t] = fault'[t]]
    BY <1>2, <1>4 DEF Shape
  <2> QED BY <1>2, <1>4, <2>1, RunningLasts
<1> QED BY <1>1, <1>3, <1>4, FailingLasts DEF Fail

\* Only a side that can use its channel ends a pump, and so does it send.
LEMMA DeliverLasts ==
  ASSUME IInv, NEW t \in Sides, Deliver(t)
  PROVE  Lasting
<1>1. Delivering(t)
  BY DEF Deliver, NothingToDeliver, PopReadyEdges, ClockConflict, ApplyEdge, AcknowledgeDelivery,
         HoldUnarmed, AllowanceExhausted, BeginRearm, Unarmed
<1>2. Shape /\ fault[t] = "none" /\ open[t] /\ pc[t] \in {"consume", "deliver"}
  BY <1>1, Deliverer DEF IInv
<1>3. CASE \E rest : EndPump(t, rest)
  <2>1. \E u : wire' = [wire EXCEPT ![t] = @ \o u]
    BY <1>3 DEF EndPump, Send
  <2>2. \E why : fault' = [fault EXCEPT ![t] = why]
    BY <1>3 DEF EndPump
  <2>3. wire' = [wire EXCEPT ![t] = wire'[t]] /\ fault' = [fault EXCEPT ![t] = fault'[t]]
    BY <1>2, <2>1, <2>2 DEF Shape
  <2> QED BY <1>2, <2>3, RunningLasts
<1>4. CASE PopReadyEdges(t) \/ ClockConflict(t) \/ AllowanceExhausted(t)
  <2>1. \/ \E why, ended : FailWith(t, why, ended)
        \/ wire' = wire /\ fault' = fault
    BY <1>4 DEF PopReadyEdges, ClockConflict, AllowanceExhausted, Fail
  <2>2. CASE wire' = wire /\ fault' = fault
    <3>1. fault' = [fault EXCEPT ![t] = fault'[t]]
      BY <1>2, <2>2 DEF Shape
    <3> QED BY <1>2, <2>2, <3>1, RunningLasts
  <2>3. CASE \E why, ended : FailWith(t, why, ended)
    BY <1>2, <2>3, FailingLasts
  <2> QED BY <2>1, <2>2, <2>3
<1>5. CASE ApplyEdge(t)
  <2>1. (\E u : wire' = [wire EXCEPT ![t] = @ \o u]) /\ fault' = fault
    BY <1>5 DEF ApplyEdge, Send
  <2>2. wire' = [wire EXCEPT ![t] = wire'[t]] /\ fault' = [fault EXCEPT ![t] = fault'[t]]
    BY <1>2, <2>1 DEF Shape
  <2> QED BY <1>2, <2>2, RunningLasts
<1> QED BY <1>3, <1>4, <1>5 DEF Deliver, NothingToDeliver, AcknowledgeDelivery, HoldUnarmed, BeginRearm

\* An instruction: a fault met before keeps, whatever commit finds.
LEMMA ExecuteLasts ==
  ASSUME IInv, NEW t \in Sides, Execute(t)
  PROVE  Lasting
<1> DEFINE o == Other(t)
<1>1. Shape /\ o \in Sides /\ o # t /\ wire[o] \in Seq(Message)
  BY Peers, Typed DEF IInv
<1>2. ASSUME fault[t] = "none", fault' = fault, wire' = wire PROVE Lasting
  <2>1. fault' = [fault EXCEPT ![t] = fault'[t]]
    BY <1>1, <1>2 DEF Shape
  <2> QED BY <1>2, <2>1, RunningLasts
<1>3. CASE Reserve(t)
  <2>1. pc[t] = "reserve" /\ ((\E why, ended : FailWith(t, why, ended)) \/ (wire' = wire /\ fault' = fault))
    BY <1>3 DEF Reserve
  <2>2. CASE wire' = wire /\ fault' = fault
    BY <1>2, <2>1, <2>2, Running
  <2>3. CASE \E why, ended : FailWith(t, why, ended)
    BY <2>1, <2>3, FailingLasts
  <2> QED BY <2>1, <2>2, <2>3
<1>4. CASE \E a \in co[t].local..(co[t].local + co[t].permit) : Access(t, a)
  <2>1. pc[t] = "exec" /\ wire' = wire /\ fault' = fault
    BY <1>4 DEF Access
  <2> QED BY <1>2, <2>1, Running
<1>5. CASE \E w \in Writes[t] : Touch(t, w)
  <2>1. pc[t] = "access" /\ wire' = wire /\ fault' = fault
    BY <1>5 DEF Touch
  <2> QED BY <1>2, <2>1, Running
<1>6. CASE \E elapsed \in 1..co[t].permit, executed \in {0, 1} : Commit(t, elapsed, executed)
  <2>1. /\ \E broken : /\ fault' = [fault EXCEPT ![t] = broken]
                       /\ fault[t] # "none" => broken = fault[t]
        /\ wire' = wire
    BY <1>6 DEF Commit
  <2>2. \A s \in Sides : fault[s] # "none" => fault'[s] = fault[s]
    BY <1>1, <2>1 DEF Shape
  <2>3. \A s \in Sides : Len(wire[s]) <= Len(wire[s])
    BY <1>1, Typed, Elements
  <2> QED BY <2>1, <2>2, <2>3 DEF Lasting
<1>7. CASE FireEdge(t)
  <2>1. pc[t] \in {"access", "boundary"}
    BY <1>7 DEF FireEdge
  <2>2. \/ \E why : SerialFault(t, why)
        \/ open[t] /\ (\E u : wire' = [wire EXCEPT ![t] = @ \o u]) /\ fault' = fault
    BY <1>7 DEF FireEdge, Send, Usable
  <2>3. CASE \E why : SerialFault(t, why)
    BY <2>1, <2>3, FailingLasts
  <2>4. CASE open[t] /\ (\E u : wire' = [wire EXCEPT ![t] = @ \o u]) /\ fault' = fault
    <3>1. wire' = [wire EXCEPT ![t] = wire'[t]] /\ fault' = [fault EXCEPT ![t] = fault'[t]]
      BY <1>1, <2>4 DEF Shape
    <3> QED BY <2>1, <2>4, <3>1, Running, RunningLasts
  <2> QED BY <2>2, <2>3, <2>4
<1>8. CASE StageWhileWaiting(t) \/ TakeResponse(t)
  <2>1. pc[t] = "reply" /\ wire[o] # <<>>
    BY <1>8 DEF StageWhileWaiting, TakeResponse, Replying, Incoming
  <2>2. \/ \E why : SerialFault(t, why)
        \/ wire' = [wire EXCEPT ![o] = Tail(@)] /\ fault' = fault
    BY <1>8 DEF StageWhileWaiting, TakeResponse
  <2>3. CASE \E why : SerialFault(t, why)
    BY <2>1, <2>3, FailingLasts
  <2>4. CASE wire' = [wire EXCEPT ![o] = Tail(@)] /\ fault' = fault
    <3>1. 0 \in 0..Len(wire[o])
      BY <1>1, Elements
    <3>2. Len(Tail(wire[o])) <= Len(wire[o])
      BY <1>1, <2>1, <3>1, Shorter
    <3>3. wire'[o] = Tail(wire[o]) /\ fault' = [fault EXCEPT ![t] = fault'[t]]
      BY <1>1, <2>4 DEF Shape
    <3>4. wire' = [wire EXCEPT ![o] = wire'[o]] /\ Len(wire'[o]) <= Len(wire[o])
      BY <2>4, <3>2, <3>3
    <3> QED BY <2>1, <3>3, <3>4, Running, RunningLasts
  <2> QED BY <2>2, <2>3, <2>4
<1> QED BY <1>3, <1>4, <1>5, <1>6, <1>7, <1>8 DEF Execute

\* The end of a session, from inside or outside.
LEMMA EndingLasts ==
  ASSUME IInv, NEW t \in Sides, Notice(t) \/ Break(t) \/ Expire(t) \/ Cancel(t) \/ Eof(t) \/ PollFence(t)
  PROVE  Lasting
<1> DEFINE o == Other(t)
<1>1. Shape /\ o \in Sides /\ o # t /\ \A s \in Sides : Len(wire[s]) \in Nat /\ Len(wire[s]) <= Len(wire[s])
  BY Peers, Typed, Elements DEF IInv
<1>2. CASE Notice(t) \/ Expire(t)
  <2>1. /\ pc[t] \notin {"commit", "broken", "down"}
        /\ \E why : (\E ended : FailWith(t, why, ended)) \/ SerialFault(t, why)
    BY <1>2 DEF Notice, Expire, Fail
  <2> QED BY <2>1, FailingLasts
<1>3. CASE Break(t)
  <2>1. wire' = wire /\ fault' = [fault EXCEPT ![t] = Seen(t, fault[t])]
    BY <1>3 DEF Break, Fail, FailWith
  <2>2. fault[t] \notin {"closed", "deadline"} => Seen(t, fault[t]) = fault[t]
    BY DEF Seen
  <2>3. \A s \in Sides : fault[s] \notin {"none", "closed", "deadline"} => fault'[s] = fault[s]
    BY <1>1, <2>1, <2>2 DEF Shape
  <2> QED BY <1>1, <2>1, <2>3 DEF Lasting
<1>4. CASE Cancel(t) \/ PollFence(t)
  BY <1>1, <1>4 DEF Cancel, PollFence, Lasting
<1>5. CASE Eof(t)
  <2>1. wire' = [wire EXCEPT ![o] = <<>>] /\ fault' = fault
    BY <1>5 DEF Eof
  <2>2. \A s \in Sides : Len(wire'[s]) <= Len(wire[s])
    <3>1. Len(<<>>) = 0
      OBVIOUS
    <3>2. wire'[o] = <<>> /\ \A s \in Sides : s # o => wire'[s] = wire[s]
      BY <1>1, <2>1 DEF Shape
    <3>3. Len(wire'[o]) <= Len(wire[o])
      BY <1>1, <3>1, <3>2
    <3> QED BY <1>1, <3>2, <3>3
  <2> QED BY <2>1, <2>2 DEF Lasting
<1> QED BY <1>2, <1>3, <1>4, <1>5

\* The reason for which a session has failed is kept (_fail records the first one), and a side
\* that has closed its channel stays closed and sends no more.
THEOREM EndsAreFinal == Spec => EndIsFinal
<1>1. ASSUME IInv, NEW t \in Sides, Owner(t) PROVE Lasting
  BY <1>1, PumpLasts, ConsumeLasts, DeliverLasts, ExecuteLasts, EndingLasts DEF Owner
<1>2. ASSUME IInv, Next PROVE Lasting
  <2>1. Impatient \subseteq Sides /\ Cancellable \subseteq Sides
    BY CableAssumption
  <2> QED BY <1>1, <1>2, <2>1, EndingLasts DEF Next
<1>3. IInv /\ [Next]_vars => [\A s \in Sides :
                                /\ fault[s] \notin {"none", "closed", "deadline"} => fault'[s] = fault[s]
                                /\ ~open[s] => Len(wire'[s]) <= Len(wire[s])]_vars
  BY <1>2 DEF Lasting
<1> QED BY <1>3, CableInvariant, PTL DEF Spec, EndIsFinal

-----------------------------------------------------------------------------
(* Two sessions are a cable *)

\* What the cable sees of a side.
Likewise ==
  \A t \in Sides :
    /\ co'[t].local = co[t].local
    /\ link'[t].out = link[t].out /\ link'[t].scheduled = link[t].scheduled
    /\ link'[t].completed = link[t].completed /\ link'[t].waiting = link[t].waiting

\* Of a step that changes none of it the cable takes no notice.
LEMMA Unnoticed ==
  ASSUME Likewise
  PROVE  UNCHANGED Cable!vars
<1>1. [t \in Sides |-> co[t].local]' = [t \in Sides |-> co[t].local]
  BY DEF Likewise
<1>2. [t \in Sides |-> link[t].out]' = [t \in Sides |-> link[t].out]
  BY DEF Likewise
<1>3. [t \in Sides |-> link[t].scheduled]' = [t \in Sides |-> link[t].scheduled]
  BY DEF Likewise
<1>4. [t \in Sides |-> Cardinality(link[Other(t)].completed)]' = [t \in Sides |-> Cardinality(link[Other(t)].completed)]
  <2>1. \A t \in Sides : link'[Other(t)].completed = link[Other(t)].completed
    BY Peers DEF Likewise
  <2> QED BY <2>1
<1>5. [t \in Sides |-> IF link[t].waiting = 0 THEN link[t].out ELSE link[t].out - 1]'
        = [t \in Sides |-> IF link[t].waiting = 0 THEN link[t].out ELSE link[t].out - 1]
  BY DEF Likewise
<1> QED BY <1>1, <1>2, <1>3, <1>4, <1>5 DEF Cable!vars

\* A side changes, and nothing the cable sees of it.
LEMMA SideLikewise ==
  ASSUME Shape, NEW s \in Sides, co' = [co EXCEPT ![s] = co'[s]], link' = [link EXCEPT ![s] = link'[s]],
         co'[s].local = co[s].local, link'[s].out = link[s].out,
         link'[s].scheduled = link[s].scheduled, link'[s].completed = link[s].completed,
         link'[s].waiting = link[s].waiting
  PROVE  Likewise
<1>1. \A t \in Sides : t # s => co'[t] = co[t] /\ link'[t] = link[t]
  BY DEF Shape
<1> QED BY <1>1 DEF Likewise

\* Failing concerns no cable.
LEMMA FailingUnnoticed ==
  ASSUME Shape, NEW s \in Sides, NEW why, (\E ended : FailWith(s, why, ended)) \/ SerialFault(s, why)
  PROVE  Likewise
<1>1. link' = link /\ (co' = co \/ \E ended : co' = [co EXCEPT ![s].ended = IF @ = "none" THEN ended ELSE @])
  BY DEF FailWith, SerialFault
<1>2. co'[s].local = co[s].local /\ co' = [co EXCEPT ![s] = co'[s]]
  <2>1. CASE co' = co
    BY <2>1 DEF Shape
  <2>2. CASE \E ended : co' = [co EXCEPT ![s].ended = IF @ = "none" THEN ended ELSE @]
    <3>1. PICK ended : co' = [co EXCEPT ![s].ended = IF @ = "none" THEN ended ELSE @]
      BY <2>2
    <3>2. PICK x : x = IF co[s].ended = "none" THEN ended ELSE co[s].ended
      OBVIOUS
    <3>3. co' = [co EXCEPT ![s].ended = x] /\ co \in [Sides -> Coordinator]
      BY <3>1, <3>2 DEF Shape
    <3> QED BY ONLY <3>3, s \in Sides DEF Coordinator
  <2> QED BY <1>1, <2>1, <2>2
<1>3. link' = [link EXCEPT ![s] = link'[s]]
  BY <1>1 DEF Shape
<1> QED BY <1>1, <1>2, <1>3, SideLikewise

\* Pumping moves messages.
LEMMA PumpUnnoticed ==
  ASSUME Shape, NEW s \in Sides, NEW m, NEW n, Pump(s, m, n)
  PROVE  Likewise
<1>1. \/ Fail(s, "protocol") \/ Fail(s, "capacity")
      \/ co' = co /\ link' = [link EXCEPT ![s].ingress = @ \o SubSeq(Incoming(s), 1, n)]
  BY DEF Pump
<1>2. CASE co' = co /\ link' = [link EXCEPT ![s].ingress = @ \o SubSeq(Incoming(s), 1, n)]
  <2>1. PICK x : link' = [link EXCEPT ![s].ingress = x]
    BY <1>2 DEF Shape
  <2>2. link \in [Sides -> Bookkeeping]
    BY DEF Shape
  <2>3. /\ link' = [link EXCEPT ![s] = link'[s]] /\ link'[s].out = link[s].out
        /\ link'[s].scheduled = link[s].scheduled /\ link'[s].completed = link[s].completed
        /\ link'[s].waiting = link[s].waiting
    BY ONLY <2>1, <2>2, s \in Sides DEF Bookkeeping
  <2>4. co' = [co EXCEPT ![s] = co'[s]] /\ co'[s].local = co[s].local
    BY <1>2 DEF Shape
  <2> QED BY <2>3, <2>4, SideLikewise
<1> QED BY <1>1, <1>2, FailingUnnoticed DEF Fail

\* Applying a message tells the coordinator, and no game.
LEMMA ConsumeUnnoticed ==
  ASSUME Shape, NEW s \in Sides, Consume(s)
  PROVE  Likewise
<1>1. co \in [Sides -> Coordinator] /\ link \in [Sides -> Bookkeeping]
  BY DEF Shape
<1>2. ASSUME Drop(s), co' = [co EXCEPT ![s] = co'[s]], co'[s].local = co[s].local PROVE Likewise
  <2>1. link' = [link EXCEPT ![s].ingress = Tail(@)]
    BY <1>2 DEF Drop
  <2>2. PICK x : link' = [link EXCEPT ![s].ingress = x]
    BY <2>1
  <2>3. /\ link' = [link EXCEPT ![s] = link'[s]] /\ link'[s].out = link[s].out
        /\ link'[s].scheduled = link[s].scheduled /\ link'[s].completed = link[s].completed
        /\ link'[s].waiting = link[s].waiting
    BY ONLY <1>1, <2>2, s \in Sides DEF Bookkeeping
  <2> QED BY <1>2, <2>3, SideLikewise
<1>3. CASE \E why, ended : FailWith(s, why, ended)
  BY <1>3, FailingUnnoticed
<1>4. CASE ConsumeProgress(s)
  <2>1. CASE co' = [co EXCEPT ![s].peer = Head1(s).at, ![s].progress = @ + 1] /\ Drop(s)
    <3>1. co' = [co EXCEPT ![s] = co'[s]] /\ co'[s].local = co[s].local
      BY ONLY <1>1, <2>1, s \in Sides DEF Coordinator
    <3> QED BY <1>2, <2>1, <3>1
  <2> QED BY <1>3, <1>4, <2>1 DEF ConsumeProgress
<1>5. CASE ConsumeEdgeRequest(s)
  <2> DEFINE edge == [at |-> Head1(s).at, seq |-> Head1(s).id]
  <2>1. CASE co' = [co EXCEPT ![s].edges = @ \cup {edge}, ![s].edgeSequence = edge.seq,
                              ![s].lastEdgeAt = edge.at] /\ Drop(s)
    <3> HIDE DEF edge
    <3>1. co' = [co EXCEPT ![s] = co'[s]] /\ co'[s].local = co[s].local
      BY ONLY <1>1, <2>1, s \in Sides DEF Coordinator
    <3> QED BY <1>2, <2>1, <3>1
  <2> QED BY <1>3, <1>5, <2>1 DEF ConsumeEdgeRequest, Fail
<1>6. CASE ConsumeEmissionComplete(s)
  <2>1. CASE co' = [co EXCEPT ![s].mark = Head1(s).at, ![s].markSequence = Head1(s).id] /\ Drop(s)
    <3>1. co' = [co EXCEPT ![s] = co'[s]] /\ co'[s].local = co[s].local
      BY ONLY <1>1, <2>1, s \in Sides DEF Coordinator
    <3> QED BY <1>2, <2>1, <3>1
  <2> QED BY <1>3, <1>6, <2>1 DEF ConsumeEmissionComplete, Fail
<1>7. CASE ConsumeFence(s) \/ ConsumeFenceAck(s)
  <2>1. CASE co' = co /\ Drop(s)
    <3>1. co' = [co EXCEPT ![s] = co'[s]] /\ co'[s].local = co[s].local
      BY <1>1, <2>1
    <3> QED BY <1>2, <2>1, <3>1
  <2> QED BY <1>3, <1>7, <2>1 DEF ConsumeFence, ConsumeFenceAck, Fail
<1> QED BY <1>4, <1>5, <1>6, <1>7 DEF Consume

\* The end of a pump.
LEMMA EndPumpUnnoticed ==
  ASSUME Shape, NEW s \in Sides, NEW rest \in Bookkeeping, EndPump(s, rest),
         rest.out = link[s].out, rest.scheduled = link[s].scheduled,
         rest.completed = link[s].completed, rest.waiting = link[s].waiting,
         co' = [co EXCEPT ![s] = co'[s]], co'[s].local = co[s].local
  PROVE  Likewise
<1>1. link' = [link EXCEPT ![s] =
                [rest EXCEPT !.settled = co[s].local,
                             !.sentProgress = IF Due(s, rest.sentProgress) THEN co[s].local ELSE rest.sentProgress,
                             !.sentMark = IF Publication(s) # <<>> THEN co[s].local ELSE rest.sentMark]]
  BY DEF EndPump
<1>2. PICK x, y, z : link' = [link EXCEPT ![s] = [rest EXCEPT !.settled = x, !.sentProgress = y, !.sentMark = z]]
  BY <1>1
<1>3. link \in [Sides -> Bookkeeping]
  BY DEF Shape
<1>4. /\ link' = [link EXCEPT ![s] = link'[s]] /\ link'[s].out = rest.out
      /\ link'[s].scheduled = rest.scheduled /\ link'[s].completed = rest.completed
      /\ link'[s].waiting = rest.waiting
  BY ONLY <1>2, <1>3, s \in Sides, rest \in Bookkeeping DEF Bookkeeping
<1> QED BY <1>4, SideLikewise

\* The delivery phase, but for the application of an edge.
LEMMA DeliveryUnnoticed ==
  ASSUME Shape, NEW s \in Sides, Deliver(s), ~ApplyEdge(s)
  PROVE  Likewise
<1>1. co \in [Sides -> Coordinator] /\ link \in [Sides -> Bookkeeping] /\ link[s] \in Bookkeeping
  BY DEF Shape
<1>2. CASE NothingToDeliver(s) \/ HoldUnarmed(s)
  <2>1. co' = co /\ EndPump(s, link[s])
    BY <1>2 DEF NothingToDeliver, HoldUnarmed
  <2>2. co' = [co EXCEPT ![s] = co'[s]] /\ co'[s].local = co[s].local
    BY <1>1, <2>1
  <2> QED BY <1>1, <2>1, <2>2, EndPumpUnnoticed
<1>3. CASE ClockConflict(s) \/ AllowanceExhausted(s)
  BY <1>3, FailingUnnoticed DEF ClockConflict, AllowanceExhausted, Fail
<1>4. CASE PopReadyEdges(s)
  <2>1. CASE \E why, ended : FailWith(s, why, ended)
    BY <2>1, FailingUnnoticed
  <2>2. CASE /\ co' = [co EXCEPT ![s].held = Ready(co[s]), ![s].edges = @ \ Ready(co[s])]
             /\ link' = [link EXCEPT ![s].delivery = Ready(co[s]), ![s].heldStart = co[s].local,
                                     ![s].retired = 0]
    <3> DEFINE R == Ready(co[s])
               now == co[s].local
    <3>1. /\ co' = [co EXCEPT ![s].held = R, ![s].edges = @ \ R]
          /\ link' = [link EXCEPT ![s].delivery = R, ![s].heldStart = now, ![s].retired = 0]
      BY <2>2
    <3> HIDE DEF R, now
    <3>2. co' = [co EXCEPT ![s] = co'[s]] /\ co'[s].local = co[s].local
      BY ONLY <1>1, <3>1, s \in Sides DEF Coordinator
    <3>3. /\ link' = [link EXCEPT ![s] = link'[s]] /\ link'[s].out = link[s].out
          /\ link'[s].scheduled = link[s].scheduled /\ link'[s].completed = link[s].completed
          /\ link'[s].waiting = link[s].waiting
      BY ONLY <1>1, <3>1, s \in Sides DEF Bookkeeping
    <3> QED BY <3>2, <3>3, SideLikewise
  <2> QED BY <1>4, <2>1, <2>2 DEF PopReadyEdges
<1>5. CASE AcknowledgeDelivery(s)
  <2> DEFINE c == co[s]
             d == IF c.deliveryEpisode = NoEpisode THEN [c EXCEPT !.held = {}]
                  ELSE [c EXCEPT !.held = {}, !.deliveryEpisode = NoEpisode, !.episodeOpen = FALSE,
                                 !.instructions = 0]
  <2>1. co' = [co EXCEPT ![s] = d] /\ EndPump(s, link[s])
    BY <1>5 DEF AcknowledgeDelivery
  <2>2. d.local = c.local
    <3>1. c \in Coordinator
      BY <1>1
    <3>2. \/ d = [c EXCEPT !.held = {}]
          \/ d = [c EXCEPT !.held = {}, !.deliveryEpisode = NoEpisode, !.episodeOpen = FALSE,
                           !.instructions = 0]
      OBVIOUS
    <3> HIDE DEF c, d
    <3> QED BY ONLY <3>1, <3>2 DEF Coordinator
  <2> HIDE DEF d
  <2>3. co' = [co EXCEPT ![s] = co'[s]] /\ co'[s].local = co[s].local
    BY <1>1, <2>1, <2>2
  <2> QED BY <1>1, <2>1, <2>3, EndPumpUnnoticed
<1>6. CASE BeginRearm(s)
  <2> DEFINE e == [id |-> link[s].episodes + 1, cycles |-> RearmCycles(s), cap |-> RearmInstructions(s)]
             ident == e.id
             cap == e.cap
             ending == co[s].local + e.cycles
             l == link[s]
             rest == [l EXCEPT !.episodes = ident]
  <2>1. /\ co' = [co EXCEPT ![s].episode = e, ![s].deliveryEpisode = e, ![s].episodeOpen = TRUE,
                            ![s].episodeEnd = ending, ![s].instructions = cap]
        /\ EndPump(s, rest)
    BY <1>6 DEF BeginRearm
  <2>2. rest = [l EXCEPT !.episodes = ident] /\ l \in Bookkeeping /\ ident \in Nat
    <3>1. l.episodes \in Nat
      BY <1>1 DEF Bookkeeping
    <3> QED BY <1>1, <3>1
  <2> HIDE DEF e, ident, cap, ending, rest, l
  <2>3. co' = [co EXCEPT ![s] = co'[s]] /\ co'[s].local = co[s].local
    BY ONLY ZenonT(60), <1>1, <2>1, s \in Sides DEF Coordinator
  <2>4. /\ rest \in Bookkeeping /\ rest.out = l.out /\ rest.scheduled = l.scheduled
        /\ rest.completed = l.completed /\ rest.waiting = l.waiting
    BY ONLY <2>2 DEF Bookkeeping
  <2> QED BY <2>1, <2>3, <2>4, EndPumpUnnoticed DEF l
<1> QED BY <1>2, <1>3, <1>4, <1>5, <1>6 DEF Deliver

\* What does not end an instruction, and moves no edge.
LEMMA StepUnnoticed ==
  ASSUME Shape, NEW s \in Sides,
         \/ Reserve(s) \/ (\E a : Access(s, a)) \/ (\E w : Touch(s, w)) \/ StageWhileWaiting(s)
         \/ PollFence(s) \/ Notice(s) \/ Break(s) \/ Expire(s) \/ Cancel(s) \/ Eof(s)
  PROVE  Likewise
<1>1. co \in [Sides -> Coordinator] /\ link \in [Sides -> Bookkeeping]
  BY DEF Shape
<1>2. ASSUME co' = co, link' = link PROVE Likewise
  BY <1>2 DEF Likewise
<1>3. CASE Reserve(s)
  <2>1. CASE \E why, ended : FailWith(s, why, ended)
    BY <2>1, FailingUnnoticed
  <2>2. CASE co' = co /\ link' = link
    BY <1>2, <2>2
  <2>3. CASE co' = [co EXCEPT ![s].permit = Need] /\ link' = link
    <3>1. co' = [co EXCEPT ![s] = co'[s]] /\ co'[s].local = co[s].local
      BY ONLY <1>1, <2>3, s \in Sides DEF Coordinator
    <3>2. link' = [link EXCEPT ![s] = link'[s]] /\ link'[s] = link[s]
      BY <1>1, <2>3
    <3> QED BY <3>1, <3>2, SideLikewise
  <2> QED BY <1>3, <2>1, <2>2, <2>3 DEF Reserve
<1>4. CASE (\E a : Access(s, a)) \/ (\E w : Touch(s, w)) \/ PollFence(s) \/ Eof(s)
  BY <1>2, <1>4 DEF Access, Touch, PollFence, Eof
<1>5. CASE StageWhileWaiting(s)
  <2>1. CASE SerialFault(s, "capacity")
    BY <2>1, FailingUnnoticed
  <2>2. CASE co' = co /\ link' = [link EXCEPT ![s].ingress = Append(@, Head(Incoming(s)))]
    <3>1. /\ link' = [link EXCEPT ![s] = link'[s]] /\ link'[s].out = link[s].out
          /\ link'[s].scheduled = link[s].scheduled /\ link'[s].completed = link[s].completed
          /\ link'[s].waiting = link[s].waiting
      BY ONLY <1>1, <2>2, s \in Sides DEF Bookkeeping
    <3>2. co' = [co EXCEPT ![s] = co'[s]] /\ co'[s] = co[s]
      BY <1>1, <2>2
    <3> QED BY <3>1, <3>2, SideLikewise
  <2> QED BY <1>5, <2>1, <2>2 DEF StageWhileWaiting
<1>6. CASE Notice(s) \/ Break(s) \/ Expire(s)
  <2>1. \E why : (\E ended : FailWith(s, why, ended)) \/ SerialFault(s, why)
    BY <1>6 DEF Notice, Break, Expire, Fail
  <2> QED BY <2>1, FailingUnnoticed
<1>7. CASE Cancel(s)
  <2>1. co' = [co EXCEPT ![s].ended = "cancelled"] /\ link' = link
    BY <1>7 DEF Cancel
  <2>2. co' = [co EXCEPT ![s] = co'[s]] /\ co'[s].local = co[s].local
    BY ONLY <1>1, <2>1, s \in Sides DEF Coordinator
  <2>3. link' = [link EXCEPT ![s] = link'[s]] /\ link'[s] = link[s]
    BY <1>1, <2>1
  <2> QED BY <2>2, <2>3, SideLikewise
<1> QED BY <1>3, <1>4, <1>5, <1>6, <1>7

\* An instruction runs its side, within the lead.
LEMMA CommitRuns ==
  ASSUME IInv, NEW s \in Sides, NEW elapsed \in 1..co[s].permit, NEW executed \in {0, 1},
         Commit(s, elapsed, executed)
  PROVE  Cable!Run(s)
<1> DEFINE o == Other(s)
           now == co[s].local + elapsed
<1>1. /\ Shape /\ Bounded(s) /\ Bounded(o) /\ Received(s) /\ o \in Sides /\ o # s
      /\ \A t \in Sides : t = s \/ t = o
  BY Peers, Sidewise
<1>2. /\ co[s].local \in Nat /\ co[s].permit \in Nat /\ co[s].peer \in Nat
      /\ link[o].sentProgress \in Nat /\ co[o].local \in Nat
  BY <1>1, Numbers
<1>3. co \in [Sides -> Coordinator] /\ link \in [Sides -> Bookkeeping]
  BY <1>1 DEF Shape
<1>4. \E x, y : co' = [co EXCEPT ![s].local = now, ![s].permit = 0, ![s].instructions = x, ![s].ended = y]
  <2>1. \E late : co' = [co EXCEPT ![s].local = now, ![s].permit = 0,
                         ![s].instructions = IF co[s].episodeOpen THEN @ - executed ELSE @,
                         ![s].ended = IF @ = "none" THEN late ELSE @]
    BY DEF Commit
  <2> QED BY <2>1
<1>5. \E x : link' = [link EXCEPT ![s].retired = x]
  BY DEF Commit
<1> HIDE DEF now
<1>6. co'[s].local = now /\ \A t \in Sides : t # s => co'[t].local = co[t].local
  <2>1. PICK x, y : co' = [co EXCEPT ![s].local = now, ![s].permit = 0, ![s].instructions = x, ![s].ended = y]
    BY <1>4
  <2> QED BY ONLY <1>3, <2>1, s \in Sides DEF Coordinator
<1>7. \A t \in Sides : /\ link'[t].out = link[t].out /\ link'[t].scheduled = link[t].scheduled
                       /\ link'[t].completed = link[t].completed /\ link'[t].waiting = link[t].waiting
  <2>1. PICK x : link' = [link EXCEPT ![s].retired = x]
    BY <1>5
  <2> QED BY ONLY <1>3, <2>1, s \in Sides DEF Bookkeeping
<1>8. now > co[s].local /\ now <= co[s].local + co[s].permit /\ now \in Nat
  BY <1>2 DEF now
<1>9. now <= co[o].local + (QuantumCycles + RearmBudget)
  <2>1. co[s].local + co[s].permit <= co[s].peer + QuantumCycles + RearmBudget
    BY <1>1 DEF Bounded
  <2>2. co[s].peer <= link[o].sentProgress /\ link[o].sentProgress <= co[o].local
    BY <1>1 DEF Received, Bounded
  <2>3. \A n, a, c, d, e, q, r \in Nat :
           n <= a /\ a <= c + q + r /\ c <= d /\ d <= e => n <= e + (q + r)
    OBVIOUS
  <2>4. co[s].local + co[s].permit \in Nat
    BY <1>2
  <2> HIDE DEF o
  <2> QED BY <1>2, <1>8, <2>1, <2>2, <2>3, <2>4, Constants
<1> DEFINE time == [t \in Sides |-> co[t].local]
           then == [t \in Sides |-> co'[t].local]
<1>10. /\ then[s] > time[s] /\ then = [time EXCEPT ![s] = then[s]]
       /\ \A f \in Sides : then[s] <= time[f] + (QuantumCycles + RearmBudget) \/ f = s
  BY <1>1, <1>6, <1>8, <1>9
<1>11. [t \in Sides |-> link[t].out]' = [t \in Sides |-> link[t].out]
  BY <1>7
<1>12. [t \in Sides |-> link[t].scheduled]' = [t \in Sides |-> link[t].scheduled]
  BY <1>7
<1>13. [t \in Sides |-> Cardinality(link[Other(t)].completed)]' = [t \in Sides |-> Cardinality(link[Other(t)].completed)]
  <2>1. \A t \in Sides : link'[Other(t)].completed = link[Other(t)].completed
    BY <1>7, Peers
  <2> QED BY <2>1
<1>14. [t \in Sides |-> IF link[t].waiting = 0 THEN link[t].out ELSE link[t].out - 1]'
         = [t \in Sides |-> IF link[t].waiting = 0 THEN link[t].out ELSE link[t].out - 1]
  BY <1>7
<1> QED BY <1>10, <1>11, <1>12, <1>13, <1>14 DEF Cable!Run

\* The edge of the internal clock is clocked after the one before it is done.
LEMMA FireClocks ==
  ASSUME IInv, NEW s \in Sides, FireEdge(s)
  PROVE  Likewise \/ Cable!Clock(s)
<1> DEFINE o == Other(s)
           l == link[s]
           n == l.out + 1
           at == serial[s].target
<1>1. /\ Shape /\ Position(s) /\ Core(s) /\ Placed(o) /\ o \in Sides /\ o # s /\ Other(o) = s
      /\ pc[s] \in {"access", "boundary"} /\ EdgeDue(s)
  BY Peers, Sidewise DEF FireEdge
<1>2. /\ l.out \in Nat /\ l.scheduled \in Nat /\ l.sentMark \in Int /\ at \in Nat
      /\ link \in [Sides -> Bookkeeping] /\ n \in Nat /\ n - 1 = l.out /\ n # 0
  <2>1. l.out \in Nat
    BY <1>1, Numbers
  <2>2. n \in Nat /\ n - 1 = l.out /\ n # 0
    BY <2>1
  <2> QED BY <1>1, <2>2, Numbers DEF Shape
<1>3. l.waiting = 0 /\ at > l.sentMark /\ at > 0 /\ (l.scheduled <= l.sentMark \/ l.scheduled = 0)
  BY <1>1 DEF Position, Core, EdgeDue
<1>4. at > l.scheduled
  BY <1>2, <1>3
<1>5. link[o].completed = 1..l.out /\ Cardinality(link[o].completed) = l.out
  <2>1. link[o].completed = 1..l.out
    BY <1>1, <1>3 DEF Placed
  <2> QED BY <1>2, <2>1, Counted
<1>6. CASE \E why : SerialFault(s, why)
  BY <1>1, <1>6, FailingUnnoticed
<1>7. CASE ~\E why : SerialFault(s, why)
  <2>1. /\ \E x : link' = [link EXCEPT ![s].out = n, ![s].waiting = n, ![s].scheduled = at,
                                       ![s].sentMark = at, ![s].sentProgress = x]
        /\ co' = co
    BY <1>7 DEF FireEdge
  <2> HIDE DEF n, at
  <2>2. /\ link'[s].out = n /\ link'[s].waiting = n /\ link'[s].scheduled = at
        /\ \A t \in Sides : t # s => link'[t] = link[t]
        /\ \A t \in Sides : link'[t].completed = link[t].completed
    <3>1. PICK x : link' = [link EXCEPT ![s].out = n, ![s].waiting = n, ![s].scheduled = at,
                                       ![s].sentMark = at, ![s].sentProgress = x]
      BY <2>1
    <3>2. link \in [Sides -> Bookkeeping]
      BY <1>2
    <3> QED BY ONLY SMTT(30), <3>1, <3>2, s \in Sides DEF Bookkeeping
  <2>3. [t \in Sides |-> co[t].local]' = [t \in Sides |-> co[t].local]
    BY <2>1
  <2>4. [t \in Sides |-> Cardinality(link[Other(t)].completed)]' = [t \in Sides |-> Cardinality(link[Other(t)].completed)]
    <3>1. \A t \in Sides : link'[Other(t)].completed = link[Other(t)].completed
      BY <2>2, Peers
    <3> QED BY <3>1
  <2>5. [t \in Sides |-> IF link[t].waiting = 0 THEN link[t].out ELSE link[t].out - 1]'
          = [t \in Sides |-> IF link[t].waiting = 0 THEN link[t].out ELSE link[t].out - 1]
    <3>1. ASSUME NEW t \in Sides
          PROVE  (IF link[t].waiting = 0 THEN link[t].out ELSE link[t].out - 1)'
                   = IF link[t].waiting = 0 THEN link[t].out ELSE link[t].out - 1
      BY <1>2, <1>3, <2>2
    <3> QED BY <3>1
  <2>6. /\ [t \in Sides |-> link'[t].out] = [[t \in Sides |-> link[t].out] EXCEPT ![s] = @ + 1]
        /\ [t \in Sides |-> link'[t].scheduled]
             = [[t \in Sides |-> link[t].scheduled] EXCEPT ![s] = [t \in Sides |-> link'[t].scheduled][s]]
        /\ [t \in Sides |-> link'[t].scheduled][s] > [t \in Sides |-> link[t].scheduled][s]
    BY <1>4, <2>2 DEF n
  <2>7. /\ [t \in Sides |-> Cardinality(link[Other(t)].completed)][s] = [t \in Sides |-> link[t].out][s]
        /\ [t \in Sides |-> IF link[t].waiting = 0 THEN link[t].out ELSE link[t].out - 1][s]
             = [t \in Sides |-> link[t].out][s]
    BY <1>3, <1>5
  <2> QED BY <2>3, <2>4, <2>5, <2>6, <2>7 DEF Cable!Clock
<1> QED BY <1>6, <1>7

\* What a side holds for delivery is the one edge its peer waits for, in time.
LEMMA HeldEdge ==
  ASSUME IInv, NEW s \in Sides, Delivering(s), link[s].delivery # {}
  PROVE  LET k == link[Other(s)] IN
         /\ Least(link[s].delivery).seq = k.out /\ link[s].delivery \subseteq {EdgeOf(k)}
         /\ k.out > 0 /\ k.waiting # 0 /\ link[s].completed = 1..(k.out - 1)
         /\ k.scheduled <= co[s].local /\ co[s].local <= k.scheduled + MaxEdgeLateness
<1> DEFINE o == Other(s)
           k == link[o]
           e == Least(link[s].delivery)
<1>1. /\ Shape /\ Bounded(s) /\ Placed(s) /\ o \in Sides /\ Other(o) = s
  BY Peers, Sidewise
<1>2. co[s].permit = 0 /\ link[s].delivery \subseteq co[s].held /\ Here(s) \subseteq {EdgeOf(k)}
  BY Deliverer
<1>3. link[s].delivery \subseteq {EdgeOf(k)} /\ link[s].delivery # {}
  BY <1>2 DEF Here
<1>4. e = EdgeOf(k) /\ e \in link[s].delivery
  BY <1>3, LeastOne
<1>5. e.seq = k.out /\ e.at = k.scheduled
  BY <1>4 DEF EdgeOf
<1>6. e.at <= co[s].local /\ co[s].local + co[s].permit <= e.at + MaxEdgeLateness
  BY <1>1, <1>2, <1>4 DEF Bounded
<1>7. co[s].local \in Nat /\ co[s].local + 0 = co[s].local
  BY <1>1, Numbers
<1>8. Here(s) # {}
  BY <1>4 DEF Here
<1>9. k.waiting # 0 /\ k.out > 0 /\ link[s].completed = 1..(k.out - 1)
  BY <1>1, <1>8 DEF Placed
<1> QED BY <1>2, <1>3, <1>5, <1>6, <1>7, <1>9

\* The edge is applied once, in time, before its clocking side shifts.
LEMMA ApplyApplies ==
  ASSUME IInv, NEW s \in Sides, ApplyEdge(s)
  PROVE  Cable!Apply(Other(s))
<1> DEFINE o == Other(s)
           k == link[o]
           left == link[s].delivery \ {Least(link[s].delivery)}
           done == link[s].completed \cup {Least(link[s].delivery).seq}
<1>1. /\ Shape /\ o \in Sides /\ o # s /\ Other(o) = s /\ \A t \in Sides : t = s \/ t = o
      /\ Delivering(s) /\ link[s].delivery # {}
  BY Peers DEF IInv, ApplyEdge
<1>2. /\ Least(link[s].delivery).seq = k.out /\ k.out > 0
      /\ link[s].completed = 1..(k.out - 1)
      /\ k.scheduled <= co[s].local /\ co[s].local <= k.scheduled + MaxEdgeLateness
  BY <1>1, HeldEdge
<1>3. k.out \in Nat /\ link \in [Sides -> Bookkeeping]
  BY <1>1, Numbers DEF Shape
<1>4. done = 1..k.out
  <2>1. \A n \in Nat : n > 0 => 1..(n - 1) \cup {n} = 1..n
    OBVIOUS
  <2> QED BY <1>2, <1>3, <2>1
<1>5. Cardinality(link[s].completed) = k.out - 1 /\ Cardinality(done) = k.out
  <2>1. k.out - 1 \in Nat
    BY <1>2, <1>3
  <2> QED BY <1>2, <1>3, <1>4, <2>1, Counted
<1>6. link' = [link EXCEPT ![s].delivery = left, ![s].completed = done] /\ co' = co
  BY DEF ApplyEdge
<1> HIDE DEF left, done
<1>7. /\ link'[s].completed = done /\ link'[o].completed = link[o].completed
      /\ \A t \in Sides : /\ link'[t].out = link[t].out /\ link'[t].scheduled = link[t].scheduled
                          /\ link'[t].waiting = link[t].waiting
  BY ONLY <1>1, <1>3, <1>6, s \in Sides DEF Bookkeeping
<1> DEFINE applied == [t \in Sides |-> Cardinality(link[Other(t)].completed)]
           then == [t \in Sides |-> Cardinality(link'[Other(t)].completed)]
<1>8. applied[o] = k.out - 1 /\ then[o] = k.out /\ then[s] = applied[s]
  BY <1>1, <1>5, <1>7
<1>9. applied[o] + 1 = k.out /\ applied[o] < k.out
  BY <1>3, <1>8
<1>10. then = [applied EXCEPT ![o] = @ + 1]
  <2>1. \A t \in Sides : then[t] = IF t = o THEN applied[o] + 1 ELSE applied[t]
    BY <1>1, <1>8, <1>9
  <2> HIDE DEF k
  <2> QED BY <1>1, <2>1
<1>11. /\ [t \in Sides |-> co[t].local]' = [t \in Sides |-> co[t].local]
       /\ [t \in Sides |-> link[t].out]' = [t \in Sides |-> link[t].out]
       /\ [t \in Sides |-> link[t].scheduled]' = [t \in Sides |-> link[t].scheduled]
       /\ [t \in Sides |-> IF link[t].waiting = 0 THEN link[t].out ELSE link[t].out - 1]'
            = [t \in Sides |-> IF link[t].waiting = 0 THEN link[t].out ELSE link[t].out - 1]
  <2>1. [t \in Sides |-> co[t].local]' = [t \in Sides |-> co[t].local]
    BY <1>6
  <2>2. [t \in Sides |-> link[t].out]' = [t \in Sides |-> link[t].out]
    BY <1>7
  <2>3. [t \in Sides |-> link[t].scheduled]' = [t \in Sides |-> link[t].scheduled]
    BY <1>7
  <2>4. [t \in Sides |-> IF link[t].waiting = 0 THEN link[t].out ELSE link[t].out - 1]'
          = [t \in Sides |-> IF link[t].waiting = 0 THEN link[t].out ELSE link[t].out - 1]
    BY <1>7
  <2> QED BY <2>1, <2>2, <2>3, <2>4
<1>12. /\ applied[o] < [t \in Sides |-> link[t].out][o]
       /\ \A f \in Sides : f # o => /\ [t \in Sides |-> link[t].scheduled][o] <= [t \in Sides |-> co[t].local][f]
                                    /\ [t \in Sides |-> co[t].local][f]
                                          <= [t \in Sides |-> link[t].scheduled][o] + MaxEdgeLateness
  BY <1>1, <1>2, <1>9
<1> QED BY <1>10, <1>11, <1>12 DEF Cable!Apply

\* The clocking side shifts when the edge has been applied.
LEMMA ResponseShifts ==
  ASSUME IInv, NEW s \in Sides, TakeResponse(s)
  PROVE  Likewise \/ Cable!Shift(s)
<1> DEFINE o == Other(s)
           l == link[s]
<1>1. /\ Shape /\ Placed(o) /\ o \in Sides /\ o # s /\ Other(o) = s
      /\ wire[o] # <<>> /\ Head(wire[o]).type = "EdgeResponse"
  BY Peers, Sidewise DEF TakeResponse, Replying, Incoming
<1>2. /\ l.out \in Nat /\ link \in [Sides -> Bookkeeping] /\ wire[o] \in Seq(Message)
  BY <1>1, Numbers, Typed DEF Shape
<1>3. 1 \in DOMAIN wire[o] /\ Is(wire[o], 1, "EdgeResponse")
  BY <1>1, <1>2, Elements DEF Is
<1>4. Answer(o, wire[o][1])
  BY <1>1, <1>3 DEF Placed
<1>5. l.waiting # 0 /\ link[o].completed = 1..l.out
  BY <1>1, <1>4 DEF Answer
<1>6. Cardinality(link[o].completed) = l.out
  BY <1>2, <1>5, Counted
<1>7. CASE SerialFault(s, "protocol")
  BY <1>1, <1>7, FailingUnnoticed
<1>8. CASE ~SerialFault(s, "protocol")
  <2>1. link' = [link EXCEPT ![s].waiting = 0] /\ co' = co
    BY <1>8 DEF TakeResponse
  <2>2. /\ link'[s].waiting = 0 /\ \A t \in Sides : t # s => link'[t] = link[t]
        /\ \A t \in Sides : /\ link'[t].out = link[t].out /\ link'[t].scheduled = link[t].scheduled
                            /\ link'[t].completed = link[t].completed
    BY ONLY <1>2, <2>1, s \in Sides DEF Bookkeeping
  <2> DEFINE shifted == [t \in Sides |-> IF link[t].waiting = 0 THEN link[t].out ELSE link[t].out - 1]
             then == [t \in Sides |-> IF link'[t].waiting = 0 THEN link'[t].out ELSE link'[t].out - 1]
  <2>3. then = [shifted EXCEPT ![s] = @ + 1]
    <3>1. \A t \in Sides : then[t] = IF t = s THEN shifted[s] + 1 ELSE shifted[t]
      BY <1>2, <1>5, <2>2
    <3> QED BY <3>1
  <2>4. shifted[s] < [t \in Sides |-> Cardinality(link[Other(t)].completed)][s]
    BY <1>2, <1>5, <1>6
  <2>5. /\ [t \in Sides |-> co[t].local]' = [t \in Sides |-> co[t].local]
        /\ [t \in Sides |-> link[t].out]' = [t \in Sides |-> link[t].out]
        /\ [t \in Sides |-> link[t].scheduled]' = [t \in Sides |-> link[t].scheduled]
    BY <2>1, <2>2
  <2>6. [t \in Sides |-> Cardinality(link[Other(t)].completed)]' = [t \in Sides |-> Cardinality(link[Other(t)].completed)]
    <3>1. \A t \in Sides : link'[Other(t)].completed = link[Other(t)].completed
      BY <2>2, Peers
    <3> QED BY <3>1
  <2> QED BY <2>3, <2>4, <2>5, <2>6 DEF Cable!Shift
<1> QED BY <1>7, <1>8

\* Step by step, two sessions with their wire are the cable of SerialCable: each edge clocked by
\* one is applied once by the other, in time, and before the first shifts its bit.
THEOREM SessionsAreACable == Spec => ImplementsCable
<1>1. Init => Cable!Init
  <2> SUFFICES ASSUME Init PROVE Cable!Init
    OBVIOUS
  <2>1. co = [s \in Sides |-> FreshCoordinator] /\ link = [s \in Sides |-> FreshLink]
    BY DEF Init
  <2>2. ASSUME NEW s \in Sides
        PROVE  /\ co[s].local = 0 /\ link[s].out = 0 /\ link[s].scheduled = 0
               /\ link[s].completed = {} /\ link[s].waiting = 0
    BY <2>1 DEF FreshCoordinator, FreshLink
  <2>3. \A s \in Sides : Cardinality(link[Other(s)].completed) = 0
    BY <2>2, Peers, FS_EmptySet
  <2> QED BY <2>2, <2>3 DEF Cable!Init
<1>2. ASSUME IInv, [Next]_vars PROVE [Cable!Next]_(Cable!vars)
  <2> USE <1>2
  <2>1. Shape /\ Impatient \subseteq Sides /\ Cancellable \subseteq Sides
    BY CableAssumption DEF IInv
  <2>2. ASSUME NEW s \in Sides, Execute(s) PROVE Likewise \/ Cable!Next
    <3>1. CASE \E elapsed \in 1..co[s].permit, executed \in {0, 1} : Commit(s, elapsed, executed)
      BY <3>1, CommitRuns DEF Cable!Next
    <3>2. CASE FireEdge(s)
      BY <3>2, FireClocks DEF Cable!Next
    <3>3. CASE TakeResponse(s)
      BY <3>3, ResponseShifts DEF Cable!Next
    <3>4. CASE Reserve(s) \/ (\E a : Access(s, a)) \/ (\E w : Touch(s, w)) \/ StageWhileWaiting(s)
      BY <2>1, <3>4, StepUnnoticed
    <3> QED BY <2>2, <3>1, <3>2, <3>3, <3>4 DEF Execute
  <2>3. ASSUME NEW s \in Sides, Deliver(s) PROVE Likewise \/ Cable!Next
    <3>1. CASE ApplyEdge(s)
      BY <3>1, ApplyApplies, Peers DEF Cable!Next
    <3>2. CASE ~ApplyEdge(s)
      BY <2>1, <2>3, <3>2, DeliveryUnnoticed
    <3> QED BY <3>1, <3>2
  <2>4. ASSUME NEW s \in Sides, NEW n \in Polled(s),
               PumpBefore(s, n) \/ PumpEnd(s, n) \/ PumpFence(s, n) \/ PumpWait(s, n)
        PROVE  Likewise
    <3>1. \E m : Pump(s, m, n)
      BY <2>4 DEF PumpBefore, PumpEnd, PumpFence, PumpWait
    <3> QED BY <2>1, <3>1, PumpUnnoticed
  <2>5. ASSUME NEW s \in Sides, Owner(s) PROVE Likewise \/ Cable!Next
    BY <2>1, <2>2, <2>3, <2>4, <2>5, ConsumeUnnoticed, StepUnnoticed DEF Owner
  <2>6. ASSUME NEW s \in Sides, Eof(s) \/ Expire(s) \/ Cancel(s) PROVE Likewise
    BY <2>1, <2>6, StepUnnoticed
  <2>7. CASE UNCHANGED vars
    BY <2>7, Unnoticed DEF vars, Likewise
  <2>8. CASE Next
    BY <2>1, <2>5, <2>6, <2>8, Unnoticed DEF Next
  <2> QED BY <2>7, <2>8
<1> QED BY <1>1, <1>2, CableInvariant, PTL DEF Spec, ImplementsCable, Cable!Spec

=============================================================================
