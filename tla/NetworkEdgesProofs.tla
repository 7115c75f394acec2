------------------------- MODULE NetworkEdgesProofs -------------------------
(***************************************************************************)
(* Proofs about NetworkEdges for every number of edges and of bits in a    *)
(* byte, every length of the replay history, with turns and without,       *)
(* whatever is repeated, whoever is stopped and whichever deadline passes. *)
(***************************************************************************)
EXTENDS NetworkEdges, FiniteSetTheorems, FunctionTheorems, SequenceTheorems, TLAPS

-----------------------------------------------------------------------------
(* The inductive invariant *)

Edge == [id : Ids, val : Answers, completed : BOOLEAN]
Response == Edge \cup {NoRequest}
Place == Waits \cup {"pump", "publish", "frame", "reserve", "clear", "down"}

Owners == [pc : Place, kind : {"main", "after", "extra", "loop"}, inframe : BOOLEAN,
           token : Ids \cup {NoId}, hand : Response, before : BOOLEAN, applied : BOOLEAN]
Edges == [inflight : Ids \cup {NoId}, seen : BOOLEAN, recip : BOOLEAN, next : 1..(MaxEdges + 1),
          slot : {<<>>} \cup {<<v>> : v \in Answers}]
Inboxes == [queue : Seq(Ids), done : Seq(Edge), held : Response, owed : Nat, pending : Nat]
Memory == [claimed : SUBSET Ids, answered : Seq(Edge), highest : Ids \cup {NoId}]
Cores == [enabled : BOOLEAN, internal : BOOLEAN, left : 0..ByteBits]
Signals == [tick : BOOLEAN, done : BOOLEAN, ack : BOOLEAN, inflight : BOOLEAN]
Frames == [op : {"tick", "done", "ack", "req", "resp"}, id : Ids \cup {NoId}, val : Answers]

Shape ==
  /\ barrier \in BOOLEAN /\ accused \in BOOLEAN /\ repeats \in 0..MaxRepeats
  /\ closed \in [N -> BOOLEAN]
  /\ owner \in [N -> Owners]
  /\ edge \in [N -> Edges]
  /\ inbox \in [N -> Inboxes]
  /\ known \in [N -> Memory]
  /\ core \in [N -> Cores]
  /\ worker \in [N -> Response]
  /\ turn \in [N -> Signals]
  /\ wire \in [N -> Seq(Frames)]
  /\ got \in [N -> Seq(Answers)]
  /\ effects \in [N -> Seq(Edge)]

(* What the owner may have in hand, and where.  From the admission of an   *)
(* edge until its answer is taken the answers lag behind the edges by one. *)
Asking == {"reserve", "send", "answer", "await"}
Clocking == Asking \cup {"clear"}

Orderly(r) ==
  /\ r.inframe => r.pc \in {"publish", "down"}
  /\ r.pc = "pump" \/ (r.pc = "publish" /\ ~r.inframe) => r.kind # "extra"
  /\ r.pc \in Clocking \cup {"frame", "settle"} \/ (r.pc = "publish" /\ r.inframe) => r.kind # "after"

Position(n) ==
  /\ owner[n].hand # NoRequest => owner[n].pc \in {"publish", "send", "answer"}
  /\ owner[n].pc \in {"publish", "answer"} => owner[n].hand # NoRequest
  /\ owner[n].pc \in {"send", "answer"} => ~owner[n].hand.completed
  /\ inbox[n].held # NoRequest =>
       inbox[n].held.completed /\ owner[n].pc \notin Clocking \cup {"publish", "settle"}
  /\ owner[n].pc = "down" => closed[n]
  /\ Orderly(owner[n])

Numbering(n) ==
  LET e == edge[n]  pc == owner[n].pc IN
  /\ e.inflight = IF pc \in Clocking THEN e.next - 1 ELSE NoId
  /\ pc \in Asking => Len(got[n]) = e.next - 2
  /\ pc \notin Asking => Len(got[n]) = e.next - 1 \/ (pc = "down" /\ Len(got[n]) = e.next - 2)

(* A byte on the own clock has as many edges left as numbers remain.       *)
Counting(n) ==
  LET c == core[n]  pc == owner[n].pc IN
  /\ c.enabled => c.left > 0
  /\ pc \in Clocking \cup {"settle"} => c.enabled /\ c.internal
  /\ c.enabled /\ c.internal =>
       edge[n].next + c.left <= MaxEdges + (IF pc \in Clocking \cup {"down"} THEN 2 ELSE 1)

Finished(w) == {k \in DOMAIN w : w[k].completed}
Completed(n) == Finished(inbox[n].done)

Accounts(n) ==
  IF closed[n] THEN inbox[n].pending = 0 /\ inbox[n].held = NoRequest
  ELSE /\ inbox[n].pending = Len(inbox[n].queue) + Len(inbox[n].done) + One(inbox[n].held)
                             + One(owner[n].hand) + One(worker[n])
       /\ inbox[n].owed = Cardinality(Completed(n)) + (IF worker[n].completed THEN 1 ELSE 0)

(* What an end has made of the edges of the other: the effects grow in     *)
(* number, the queue holds at most the edge after them, every answer on    *)
(* its way is that of an effect, and every answer taken too.               *)
Effect(n, r) == \E k \in DOMAIN effects[n] : effects[n][k] = r
Answering(n, i, v) == \E k \in DOMAIN effects[n] : effects[n][k].id = i /\ effects[n][k].val = v

Effective(n) ==
  /\ \A i, j \in DOMAIN effects[n] : i < j => effects[n][i].id < effects[n][j].id
  /\ \A k \in DOMAIN effects[n] : effects[n][k].id <= known[n].highest
  /\ known[n].claimed \subseteq 1..known[n].highest
  /\ known[n].highest < edge[Other(n)].next
  /\ \A k \in DOMAIN wire[n] : wire[n][k].op = "req" =>
       wire[n][k].id \in Ids /\ wire[n][k].id < edge[Other(n)].next
  /\ Len(inbox[n].queue) <= 1
  /\ \A k \in DOMAIN inbox[n].queue :
       /\ inbox[n].queue[k] = known[n].highest
       /\ \A i \in DOMAIN effects[n] : effects[n][i].id < known[n].highest

Recorded(n) ==
  /\ owner[n].hand # NoRequest => Effect(n, owner[n].hand)
  /\ inbox[n].held # NoRequest => Effect(n, inbox[n].held)
  /\ \A k \in DOMAIN inbox[n].done : Effect(n, inbox[n].done[k])
  /\ \A k \in DOMAIN known[n].answered : Effect(n, known[n].answered[k])

Returned(n) ==
  LET o == Other(n) IN
  /\ \A k \in DOMAIN wire[o] : wire[o][k].op = "resp" => Answering(n, wire[o][k].id, wire[o][k].val)
  /\ owner[o].pc \in Asking => \A k \in DOMAIN edge[o].slot :
       Answering(n, edge[o].inflight, edge[o].slot[k])
  /\ \A k \in DOMAIN got[o] : Answering(n, k, got[o][k])

(* Without repetition an edge of the other end is at one stage at a time:  *)
(* about to be asked for, asked for on the wire, queued, in the hand of    *)
(* the owner, held, with the worker, answered on the wire, or in the slot. *)
(* Then the answers of the other end lag behind its edges, and whatever is *)
(* at a stage bears the number of the last of them.                        *)
Has(w, op) == \E k \in DOMAIN w : w[k].op = op
Lone(w, op) == \A j, k \in DOMAIN w : w[j].op = op /\ w[k].op = op => j = k
Marked(w, op, i) == \A k \in DOMAIN w : w[k].op = op => w[k].id = i
Ahead(w) == \E i, j \in DOMAIN w : i < j /\ w[i].op = "req" /\ w[j].op = "resp"

Stages == {"send", "req", "queue", "hand", "held", "done", "resp", "slot"}
In(n, p) ==
  \/ p = "send" /\ owner[Other(n)].pc \in {"reserve", "send"}
  \/ p = "req" /\ Has(wire[n], "req")
  \/ p = "queue" /\ inbox[n].queue # <<>>
  \/ p = "hand" /\ owner[n].hand # NoRequest
  \/ p = "held" /\ inbox[n].held # NoRequest
  \/ p = "done" /\ inbox[n].done # <<>>
  \/ p = "resp" /\ Has(wire[Other(n)], "resp")
  \/ p = "slot" /\ edge[Other(n)].slot # <<>>

Single(n) ==
  /\ \A p, q \in Stages : In(n, p) /\ In(n, q) => p = q
  /\ Len(inbox[n].done) <= 1 /\ Lone(wire[n], "req") /\ Lone(wire[Other(n)], "resp")

Lagging(n) == (\E p \in Stages : In(n, p)) => Len(got[Other(n)]) = edge[Other(n)].next - 2

Numbered(n) ==
  LET i == edge[Other(n)].next - 1 IN
  /\ In(n, "send") \/ In(n, "req") => known[n].highest < i
  /\ Marked(wire[n], "req", i) /\ Marked(wire[Other(n)], "resp", i)
  /\ \A k \in DOMAIN inbox[n].queue : inbox[n].queue[k] = i
  /\ owner[n].hand # NoRequest => owner[n].hand.id = i
  /\ inbox[n].held # NoRequest => inbox[n].held.id = i
  /\ \A k \in DOMAIN inbox[n].done : inbox[n].done[k].id = i

(* An end that has a completed byte to answer has no request of its own    *)
(* under way, and does not send one.                                       *)
Completing(n) == \/ owner[n].hand.completed \/ inbox[n].held # NoRequest
                 \/ Completed(n) # {}

Behind(n) ==
  /\ Completing(n) => ~Has(wire[Other(n)], "req") /\ owner[n].pc \notin Clocking
  /\ Ahead(wire[Other(n)]) =>
       \A k \in DOMAIN effects[n] : effects[n][k].id = edge[Other(n)].next - 1 => ~effects[n][k].completed

Once(n) == Single(n) /\ Lagging(n) /\ Numbered(n) /\ Behind(n)
Unrepeated == repeats = 0 => \A n \in N : Once(n)

(* The turns: a notice is on its way or waiting, once, and each notice     *)
(* says where both ends are.                                               *)
Notices == {"tick", "done", "ack"}
Follower == Other(Leader)
Signalled(n, op) == turn[n][op] \/ Has(wire[n], op)
Alone(n, op) == Lone(wire[n], op) /\ ~(turn[n][op] /\ Has(wire[n], op))
Resting == owner[Follower].pc \in {"turn", "down"}
Early(r) == r.pc = "finish" \/ (r.kind # "loop" /\ r.pc \notin {"turn", "loop", "check", "down"})

Paced ==
  /\ owner[Leader].pc \notin {"turn", "down"} => turn[Leader].inflight
  /\ owner[Leader].pc = "turn" =>
       /\ Resting /\ ~Signalled(Follower, "tick") /\ ~Signalled(Follower, "done")
       /\ ~Signalled(Leader, "ack")
  /\ Early(owner[Leader]) => ~Signalled(Follower, "done") /\ ~Signalled(Leader, "ack")
  /\ Signalled(Follower, "tick") => Resting /\ ~Signalled(Leader, "ack")
  /\ Signalled(Follower, "done") => ~Signalled(Leader, "ack")
  /\ Signalled(Leader, "ack") => Resting
  /\ owner[Follower].pc # "finish"

Unpaced == \A n \in N :
  /\ owner[n].pc \notin {"finish", "loop", "check"} /\ owner[n].kind # "loop"
  /\ \A op \in Notices : ~Signalled(n, op)

Turns ==
  /\ \A n \in N : \A op \in Notices : Alone(n, op)
  /\ ~Signalled(Leader, "tick") /\ ~Signalled(Leader, "done") /\ ~Signalled(Follower, "ack")
  /\ IF barrier THEN Paced ELSE Unpaced

Silent == repeats = 0 => ~accused

Own(n) == Position(n) /\ Numbering(n) /\ Counting(n) /\ Accounts(n)
Peered(n) == Effective(n) /\ Recorded(n) /\ Returned(n)

-----------------------------------------------------------------------------
(* The two ends, requests and frames *)

\* Each end is the other of its other.
LEMMA Peers ==
  ASSUME NEW n \in N
  PROVE  Other(n) \in N /\ Other(n) # n /\ Other(Other(n)) = n
         /\ \A m \in N : m = n \/ m = Other(n)
<1>1. PICK m : m # Leader /\ N = {Leader, m}
  BY EndsAssumption
<1>2. \A e \in N : Other(e) \in N /\ Other(e) # e
  BY <1>1 DEF Other
<1> QED BY <1>1, <1>2

\* What the constants are.
LEMMA Constants ==
  /\ ByteBits \in Nat /\ ByteBits > 0 /\ MaxEdges \in Nat /\ History \in Nat /\ History > 0
  /\ MaxRepeats \in Nat
BY BoundAssumption

\* A request in hand is not the absence of one.
LEMMA Requests ==
  /\ NoRequest \in Response /\ ~NoRequest.completed /\ One(NoRequest) = 0
  /\ \A r \in Response : r # NoRequest => r \in Edge
  /\ \A r \in Edge : /\ r \in Response /\ r # NoRequest /\ One(r) = 1 /\ r.id \in Ids /\ r.id # NoId
                     /\ r.val \in Answers /\ r.completed \in BOOLEAN
  /\ \A r \in Response : One(r) \in Nat /\ r.completed \in BOOLEAN /\ r.id \in Ids \cup {NoId}
  /\ \A i \in Ids, v \in Answers, c \in BOOLEAN :
       /\ Request(i, v, c) \in Edge /\ Request(i, v, c).id = i
       /\ Request(i, v, c).val = v /\ Request(i, v, c).completed = c
<1>1. NoId \notin Ids
  BY Constants DEF Ids, NoId
<1>2. /\ NoRequest.id = NoId /\ NoRequest.completed = FALSE /\ NoRequest \in Response
  BY DEF NoRequest, Response
<1>3. \A r \in Edge : r.id \in Ids /\ r.val \in Answers /\ r.completed \in BOOLEAN
  BY DEF Edge
<1>4. \A r \in Edge : r \in Response /\ r # NoRequest
  BY <1>1, <1>2, <1>3 DEF Response
<1>5. \A i \in Ids, v \in Answers, c \in BOOLEAN :
        /\ Request(i, v, c) \in Edge /\ Request(i, v, c).id = i
        /\ Request(i, v, c).val = v /\ Request(i, v, c).completed = c
  BY DEF Request, Edge
<1>6. \A r \in Response : r # NoRequest => r \in Edge
  BY DEF Response
<1>7. One(NoRequest) = 0 /\ (\A r \in Edge : One(r) = 1) /\ (\A r \in Response : One(r) \in Nat)
  BY <1>4 DEF One
<1>8. \A r \in Response : r.completed \in BOOLEAN /\ r.id \in Ids \cup {NoId}
  BY <1>2, <1>3, <1>6
<1> QED BY <1>1, <1>2, <1>3, <1>4, <1>5, <1>6, <1>7, <1>8

\* What a frame is made of.
LEMMA FrameParts ==
  ASSUME NEW op \in {"tick", "done", "ack", "req", "resp"}, NEW i \in Ids \cup {NoId}, NEW v \in Answers
  PROVE  /\ Frame(op, i, v) \in Frames
         /\ Frame(op, i, v).op = op /\ Frame(op, i, v).id = i /\ Frame(op, i, v).val = v
BY DEF Frame, Frames

\* The source of a bit is a local edge, the armed core or none.
LEMMA Sources == Slave \in Answers /\ Idle \in Answers /\ Ids \subseteq Answers /\ NoId \notin Ids
BY Constants DEF Answers, Ids, NoId

\* What a sequence is made of.
LEMMA Elements ==
  ASSUME NEW T, NEW w \in Seq(T)
  PROVE  /\ Len(w) \in Nat /\ DOMAIN w = 1..Len(w) /\ \A k \in DOMAIN w : w[k] \in T
         /\ (w = <<>> <=> Len(w) = 0)
         /\ w # <<>> => 1 \in DOMAIN w /\ Head(w) = w[1] /\ Head(w) \in T
BY LenProperties, ElementOfSeq, EmptySeq, HeadTailProperties

\* What appending to a sequence does.
LEMMA Appending ==
  ASSUME NEW T, NEW w \in Seq(T), NEW x \in T
  PROVE  /\ Append(w, x) \in Seq(T) /\ Len(Append(w, x)) = Len(w) + 1 /\ Append(w, x) # <<>>
         /\ DOMAIN Append(w, x) = DOMAIN w \cup {Len(w) + 1} /\ Len(w) + 1 \notin DOMAIN w
         /\ \A k \in DOMAIN w : Append(w, x)[k] = w[k] /\ k < Len(w) + 1
         /\ Append(w, x)[Len(w) + 1] = x
<1>1. /\ Append(w, x) \in Seq(T) /\ Len(Append(w, x)) = Len(w) + 1
      /\ \A k \in 1..Len(w) : Append(w, x)[k] = w[k]
      /\ Append(w, x)[Len(w) + 1] = x
  BY AppendProperties
<1>2. /\ Len(w) \in Nat /\ DOMAIN w = 1..Len(w)
      /\ DOMAIN Append(w, x) = 1..(Len(w) + 1)
  BY <1>1, LenProperties
<1>3. \A m \in Nat : 1..(m + 1) = (1..m) \cup {m + 1} /\ m + 1 \notin 1..m /\ \A k \in 1..m : k < m + 1
  OBVIOUS
<1>4. Append(w, x) # <<>>
  BY <1>1, <1>2, Elements, EmptySeq
<1> QED BY <1>1, <1>2, <1>3, <1>4

\* What taking the head of a sequence leaves.
LEMMA Taking ==
  ASSUME NEW T, NEW w \in Seq(T), w # <<>>
  PROVE  /\ Tail(w) \in Seq(T) /\ Len(w) = Len(Tail(w)) + 1 /\ Len(Tail(w)) \in Nat
         /\ \A k \in DOMAIN Tail(w) : k \in Nat /\ k + 1 \in DOMAIN w /\ k + 1 # 1 /\ Tail(w)[k] = w[k + 1]
         /\ \A k \in DOMAIN w : k = 1 \/ (k - 1 \in DOMAIN Tail(w) /\ Tail(w)[k - 1] = w[k])
<1>1. /\ Tail(w) \in Seq(T) /\ Len(Tail(w)) = Len(w) - 1
      /\ \A i \in 1..Len(Tail(w)) : Tail(w)[i] = w[i + 1]
  BY HeadTailProperties
<1>2. Len(w) \in Nat /\ Len(w) # 0 /\ DOMAIN w = 1..Len(w)
  BY Elements
<1>3. DOMAIN Tail(w) = 1..(Len(w) - 1)
  BY <1>1, LenProperties
<1> DEFINE m == Len(w)  v == Tail(w)
<1>4. m \in Nat /\ m # 0 /\ DOMAIN w = 1..m /\ DOMAIN v = 1..(m - 1) /\ Len(v) = m - 1
      /\ v \in Seq(T) /\ \A i \in 1..(m - 1) : v[i] = w[i + 1]
  BY <1>1, <1>2, <1>3
<1> HIDE DEF m, v
<1>5. /\ m = (m - 1) + 1 /\ m - 1 \in Nat
      /\ \A k \in 1..(m - 1) : k \in Nat /\ k + 1 \in 1..m /\ k + 1 # 1
      /\ \A k \in 1..m : k = 1 \/ (k - 1 \in 1..(m - 1) /\ (k - 1) + 1 = k)
  <2>1. \A n \in Nat : n # 0 => n = (n - 1) + 1 /\ n - 1 \in Nat
    OBVIOUS
  <2>2. \A n \in Nat : \A k \in 1..(n - 1) : k \in Nat /\ k + 1 \in 1..n /\ k + 1 # 1
    OBVIOUS
  <2>3. \A n \in Nat : \A k \in 1..n : k = 1 \/ (k - 1 \in 1..(n - 1) /\ (k - 1) + 1 = k)
    OBVIOUS
  <2> QED BY ONLY <1>4, <2>1, <2>2, <2>3
<1>6. \A k \in 1..m : k = 1 \/ v[k - 1] = w[k]
  BY <1>4, <1>5
<1> QED BY <1>4, <1>5, <1>6 DEF m, v

-----------------------------------------------------------------------------
(* The state of one end, and what changes it *)

\* The parts of the state of an end.
LEMMA Parts ==
  ASSUME Shape, NEW n \in N
  PROVE  /\ owner[n] \in Owners /\ edge[n] \in Edges /\ inbox[n] \in Inboxes /\ known[n] \in Memory
         /\ core[n] \in Cores /\ worker[n] \in Response /\ turn[n] \in Signals
         /\ wire[n] \in Seq(Frames) /\ got[n] \in Seq(Answers) /\ effects[n] \in Seq(Edge)
         /\ closed[n] \in BOOLEAN /\ barrier \in BOOLEAN
         /\ owner[n].pc \in Place /\ owner[n].hand \in Response /\ owner[n].token \in Ids \cup {NoId}
         /\ inbox[n].queue \in Seq(Ids) /\ inbox[n].done \in Seq(Edge) /\ inbox[n].held \in Response
         /\ inbox[n].owed \in Nat /\ inbox[n].pending \in Nat
         /\ edge[n].inflight \in Ids \cup {NoId} /\ edge[n].next \in 1..(MaxEdges + 1)
         /\ known[n].claimed \subseteq Ids /\ known[n].answered \in Seq(Edge)
         /\ known[n].highest \in Ids \cup {NoId}
         /\ core[n].left \in 0..ByteBits
BY DEF Shape, Owners, Edges, Inboxes, Memory, Cores

\* Each end keeps its own accounts.
Local == Shape /\ \A n \in N : Own(n)

\* What an end does leaves the accounts of the other alone.
Beside(m) ==
  /\ owner'[m] = owner[m] /\ edge'[m] = edge[m] /\ inbox'[m] = inbox[m] /\ core'[m] = core[m]
  /\ worker'[m] = worker[m] /\ got'[m] = got[m] /\ closed'[m] = closed[m]

LEMMA OwnBeside ==
  ASSUME NEW m \in N, Own(m), Beside(m)
  PROVE  Own(m)'
BY DEF Own, Position, Numbering, Counting, Accounts, Completed, Beside

\* So it is enough to look at the end that takes a step.
LEMMA OneEnd ==
  ASSUME Local, NEW n \in N, Shape', Own(n)', Beside(Other(n))
  PROVE  Local'
BY Peers, OwnBeside DEF Local

\* A frame is sent.
LEMMA Sending ==
  ASSUME Shape, NEW n \in N, NEW op \in {"tick", "done", "ack", "req", "resp"},
         NEW i \in Ids \cup {NoId}, NEW v \in Answers, Send(n, Frame(op, i, v))
  PROVE  wire' \in [N -> Seq(Frames)] /\ wire'[n] = wire[n]
         /\ wire'[Other(n)] = IF closed[Other(n)] THEN wire[Other(n)]
                              ELSE Append(wire[Other(n)], Frame(op, i, v))
<1>1. wire \in [N -> Seq(Frames)] /\ Frame(op, i, v) \in Frames
  BY FrameParts DEF Shape
<1>2. Other(n) \in N /\ Other(n) # n
  BY Peers
<1>3. Append(wire[Other(n)], Frame(op, i, v)) \in Seq(Frames)
  BY <1>1, <1>2, AppendProperties
<1> QED BY <1>1, <1>2, <1>3 DEF Send

\* A frame is read and answered.
LEMMA Replying ==
  ASSUME Shape, NEW n \in N, NEW i \in Ids \cup {NoId}, NEW v \in Answers, wire[n] # <<>>,
         Answer(n, Frame("resp", i, v))
  PROVE  wire' \in [N -> Seq(Frames)] /\ wire'[n] = Tail(wire[n])
         /\ wire'[Other(n)] = IF closed[Other(n)] THEN wire[Other(n)]
                              ELSE Append(wire[Other(n)], Frame("resp", i, v))
<1>1. wire \in [N -> Seq(Frames)] /\ Frame("resp", i, v) \in Frames
  BY FrameParts DEF Shape
<1>2. Other(n) \in N /\ Other(n) # n
  BY Peers
<1>3. Append(wire[Other(n)], Frame("resp", i, v)) \in Seq(Frames) /\ Tail(wire[n]) \in Seq(Frames)
  BY <1>1, <1>2, AppendProperties, HeadTailProperties
<1> QED BY <1>1, <1>2, <1>3 DEF Answer

\* A frame is read.
LEMMA Reading ==
  ASSUME Shape, NEW n \in N, wire[n] # <<>>
  PROVE  /\ Received(n) => /\ wire' \in [N -> Seq(Frames)] /\ wire'[n] = Tail(wire[n])
                           /\ wire'[Other(n)] = wire[Other(n)]
         /\ Head(wire[n]) \in Frames /\ Head(wire[n]) = wire[n][1]
         /\ 1 \in DOMAIN wire[n]
<1>1. wire \in [N -> Seq(Frames)] /\ wire[n] \in Seq(Frames) /\ Other(n) # n /\ Other(n) \in N
  BY Peers DEF Shape
<1>2. Tail(wire[n]) \in Seq(Frames)
  BY <1>1, HeadTailProperties
<1>3. Head(wire[n]) \in Frames /\ Head(wire[n]) = wire[n][1] /\ 1 \in DOMAIN wire[n]
  BY <1>1, Elements
<1> QED BY <1>1, <1>2, <1>3 DEF Received

\* An end closes: its accounts are cleared and what was on its way to it is lost.
LEMMA Closing ==
  ASSUME Shape, NEW n \in N, MarkClosed(n), \A m \in N : Accounts(m)
  PROVE  /\ closed' \in [N -> BOOLEAN] /\ closed'[n] /\ closed'[Other(n)] = closed[Other(n)]
         /\ wire' \in [N -> Seq(Frames)] /\ wire'[n] = <<>> /\ wire'[Other(n)] = wire[Other(n)]
         /\ inbox' \in [N -> Inboxes] /\ inbox'[Other(n)] = inbox[Other(n)]
         /\ inbox'[n].queue = inbox[n].queue /\ inbox'[n].done = inbox[n].done
         /\ inbox'[n].held = NoRequest /\ inbox'[n].pending = 0
<1>1. Other(n) \in N /\ Other(n) # n /\ inbox[n] \in Inboxes
  BY Peers, Parts
<1>2. /\ closed' = [closed EXCEPT ![n] = TRUE] /\ wire' = [wire EXCEPT ![n] = <<>>]
      /\ closed \in [N -> BOOLEAN] /\ wire \in [N -> Seq(Frames)] /\ inbox \in [N -> Inboxes]
      /\ <<>> \in Seq(Frames)
  BY EmptySeq DEF MarkClosed, Shape
<1>3. CASE closed[n]
  <2>1. inbox[n].pending = 0 /\ inbox[n].held = NoRequest /\ inbox' = inbox
    BY <1>3 DEF Accounts, MarkClosed
  <2> QED BY <1>1, <1>2, <2>1
<1>4. CASE ~closed[n]
  <2>1. inbox' = [inbox EXCEPT ![n] = [@ EXCEPT !.pending = 0, !.held = NoRequest]]
    BY <1>4 DEF MarkClosed
  <2>2. [inbox[n] EXCEPT !.pending = 0, !.held = NoRequest] \in Inboxes
    BY <1>1, Requests DEF Inboxes
  <2> QED BY <1>1, <1>2, <2>1, <2>2 DEF Inboxes
<1> QED BY <1>3, <1>4

-----------------------------------------------------------------------------
(* Frames of the owner *)

\* At the beginning nothing is admitted or owed.
LEMMA InitLocal == Init => Local
<1> SUFFICES ASSUME Init PROVE Local
  OBVIOUS
<1>1. /\ <<>> \in Seq(Ids) /\ <<>> \in Seq(Edge) /\ <<>> \in Seq(Frames) /\ <<>> \in Seq(Answers)
      /\ Len(<<>>) = 0
  BY EmptySeq
<1>2. NoRequest \in Response /\ Modes \subseteq BOOLEAN
  BY Requests, BoundAssumption
<1>3. Shape
  <2>1. owner \in [N -> Owners]
    BY <1>2 DEF Init, Owners, Place, Waits
  <2>2. edge \in [N -> Edges]
    BY Constants DEF Init, Edges
  <2>3. inbox \in [N -> Inboxes]
    BY <1>1, <1>2 DEF Init, Inboxes
  <2>4. known \in [N -> Memory]
    BY <1>1 DEF Init, Memory, NoId
  <2>5. core \in [N -> Cores]
    BY Constants DEF Init, Cores
  <2>6. worker \in [N -> Response] /\ wire \in [N -> Seq(Frames)] /\ closed \in [N -> BOOLEAN]
    BY <1>1, <1>2 DEF Init
  <2>7. turn \in [N -> Signals]
    BY DEF Init, Signals
  <2>8. /\ accused \in BOOLEAN /\ repeats \in 0..MaxRepeats /\ barrier \in BOOLEAN
    <3>1. accused = FALSE /\ repeats = 0 /\ barrier \in Modes
      BY DEF Init
    <3>2. 0 \in 0..MaxRepeats
      BY Constants
    <3>3. barrier \in BOOLEAN
      BY ONLY <3>1, <1>2
    <3> QED BY <3>1, <3>2, <3>3
  <2>9. got \in [N -> Seq(Answers)] /\ effects \in [N -> Seq(Edge)]
    BY <1>1 DEF Init
  <2> QED BY <2>1, <2>2, <2>3, <2>4, <2>5, <2>6, <2>7, <2>8, <2>9 DEF Shape
<1>4. ASSUME NEW n \in N PROVE Own(n)
  <2>1. /\ owner[n].pc = "turn" /\ owner[n].hand = NoRequest /\ inbox[n].held = NoRequest
        /\ inbox[n].queue = <<>> /\ inbox[n].done = <<>> /\ inbox[n].owed = 0
        /\ inbox[n].pending = 0 /\ worker[n] = NoRequest /\ ~closed[n] /\ ~core[n].enabled
        /\ edge[n].inflight = NoId /\ edge[n].next = 1 /\ got[n] = <<>>
    BY DEF Init
  <2>2. Completed(n) = {} /\ Cardinality(Completed(n)) = 0
    <3>1. Completed(n) = {}
      BY <2>1, <1>1 DEF Completed, Finished
    <3> QED BY <3>1, FS_EmptySet
  <2>3. Position(n)
    BY <2>1 DEF Init, Position, Orderly, Clocking, Asking
  <2>4. Numbering(n)
    BY <1>1, <2>1 DEF Numbering, Asking, Clocking
  <2>5. Counting(n)
    BY <2>1 DEF Counting, Clocking, Asking
  <2>6. Accounts(n)
    BY <1>1, <2>1, <2>2, Requests DEF Accounts
  <2> QED BY <2>3, <2>4, <2>5, <2>6 DEF Own
<1> QED BY <1>3, <1>4 DEF Local


\* ServiceEnds and BeginFrame only move the owner: its hand is empty afterwards.
LEMMA ServiceReturns ==
  ASSUME Local, NEW n \in N, NEW rec \in Owners, NEW box \in Inboxes,
         rec.inframe => rec.kind # "after", ~rec.inframe => rec.kind # "extra"
  PROVE  /\ ServiceEnds(n, rec, box) \in Owners /\ ServiceEnds(n, rec, box).hand = NoRequest
         /\ Orderly(ServiceEnds(n, rec, box))
         /\ ServiceEnds(n, rec, box).pc \in {"frame", "turn", "finish", "loop", "check"}
<1> DEFINE to == ServiceEnds(n, rec, box)
           Back(r) == /\ r \in Owners /\ r.hand = NoRequest /\ Orderly(r)
                          /\ r.pc \in {"frame", "turn", "finish", "loop", "check"}
<1>1. /\ NoRequest \in Response /\ box.held.id \in Ids \cup {NoId} /\ rec.inframe \in BOOLEAN
      /\ barrier \in BOOLEAN /\ rec.kind \in {"main", "after", "extra", "loop"}
  BY Requests DEF Owners, Inboxes, Local, Shape
<1>2. FrameOver(n) \in {"turn", "finish", "loop"}
  BY <1>1 DEF FrameOver
<1>3. \A kind \in {"main", "extra", "loop"} : Back(BeginFrame(rec, box, kind))
  BY <1>1 DEF BeginFrame, Owners, Place, Orderly, Clocking, Asking
<1>4. ASSUME ~rec.inframe, NEW pc \in {"turn", "finish", "loop", "check"}
      PROVE  Back([rec EXCEPT !.pc = pc, !.hand = NoRequest])
  BY <1>1, <1>4 DEF Owners, Place, Waits, Orderly, Clocking, Asking
<1>5. rec.inframe => Back([rec EXCEPT !.pc = "frame", !.inframe = FALSE, !.hand = NoRequest])
  BY <1>1 DEF Owners, Place, Waits, Orderly, Clocking, Asking
<1>6. \/ rec.inframe /\ to = [rec EXCEPT !.pc = "frame", !.inframe = FALSE, !.hand = NoRequest]
      \/ \E kind \in {"main", "extra", "loop"} : to = BeginFrame(rec, box, kind)
      \/ ~rec.inframe /\ \E pc \in {"turn", "finish", "loop", "check"} :
           to = [rec EXCEPT !.pc = pc, !.hand = NoRequest]
  <2>1. CASE rec.inframe
    BY <2>1 DEF ServiceEnds
  <2>2. CASE ~rec.inframe /\ rec.kind = "main"
    BY <2>2 DEF ServiceEnds
  <2>3. CASE ~rec.inframe /\ rec.kind = "after"
    BY <1>2, <2>3 DEF ServiceEnds
  <2>4. CASE ~rec.inframe /\ rec.kind = "loop"
    BY <2>4 DEF ServiceEnds
  <2> QED BY <1>1, <2>1, <2>2, <2>3, <2>4
<1> HIDE DEF to, Back
<1>7. Back(to)
  BY <1>3, <1>4, <1>5, <1>6
<1> QED BY <1>7 DEF Back, to

\* Only the position of the owner changes, between points at which it clocks nothing.
LEMMA OwnMoves ==
  ASSUME Local, NEW n \in N,
         owner[n].pc \notin Clocking \cup {"down"},
         owner'[n].pc \in {"frame", "turn", "finish", "loop", "check", "pump"},
         Orderly(owner'[n]),
         owner'[n].hand = NoRequest, edge'[n] = edge[n], core'[n] = core[n], got'[n] = got[n]
  PROVE  /\ Numbering(n)' /\ Counting(n)'
         /\ inbox'[n].held = NoRequest \/ inbox'[n].held.completed => Position(n)'
<1>1. Position(n) /\ Numbering(n) /\ Counting(n)
  BY DEF Local, Own
<1>2. Numbering(n)'
  BY <1>1 DEF Numbering, Clocking, Asking
<1>3. Counting(n)'
  BY <1>1 DEF Counting, Clocking, Asking
<1>4. inbox'[n].held = NoRequest \/ inbox'[n].held.completed => Position(n)'
  BY <1>1, Requests DEF Position, Clocking, Asking
<1> QED BY <1>2, <1>3, <1>4

\* How many completed responses wait for the worker, with one more ...
LEMMA FinishedMore ==
  ASSUME NEW w \in Seq(Edge), NEW r \in Edge
  PROVE  /\ Cardinality(Finished(w)) \in Nat /\ IsFiniteSet(Finished(w))
         /\ Cardinality(Finished(Append(w, r))) = Cardinality(Finished(w)) + (IF r.completed THEN 1 ELSE 0)
         /\ Finished(Append(w, r)) # {} => r.completed \/ Finished(w) # {}
<1>1. /\ DOMAIN w = 1..Len(w) /\ Len(w) \in Nat
      /\ DOMAIN Append(w, r) = DOMAIN w \cup {Len(w) + 1} /\ Len(w) + 1 \notin DOMAIN w
      /\ \A k \in DOMAIN w : Append(w, r)[k] = w[k]
      /\ Append(w, r)[Len(w) + 1] = r
  BY Elements, Appending
<1>2. IsFiniteSet(Finished(w)) /\ Cardinality(Finished(w)) \in Nat
  <2>1. IsFiniteSet(1..Len(w))
    BY <1>1, FS_Interval
  <2>2. Finished(w) \subseteq 1..Len(w)
    BY <1>1 DEF Finished
  <2> QED BY <2>1, <2>2, FS_Subset, FS_CardinalityType
<1>3. CASE r.completed
  <2>1. Finished(Append(w, r)) = Finished(w) \cup {Len(w) + 1} /\ Len(w) + 1 \notin Finished(w)
    BY <1>1, <1>3 DEF Finished
  <2> QED BY <1>2, <1>3, <2>1, FS_AddElement
<1>4. CASE ~r.completed
  <2>1. Finished(Append(w, r)) = Finished(w)
    BY <1>1, <1>4 DEF Finished
  <2> QED BY <1>2, <1>4, <2>1
<1> QED BY <1>2, <1>3, <1>4

\* ... and with one less.
LEMMA FinishedLess ==
  ASSUME NEW w \in Seq(Edge), w # <<>>
  PROVE  /\ Cardinality(Finished(w)) =
              Cardinality(Finished(Tail(w))) + (IF Head(w).completed THEN 1 ELSE 0)
         /\ Cardinality(Finished(Tail(w))) \in Nat
         /\ Finished(Tail(w)) # {} \/ Head(w).completed => Finished(w) # {}
<1> DEFINE v == Tail(w)
           f == [k \in Finished(v) |-> k + 1]
<1>1. /\ v \in Seq(Edge) /\ 1 \in DOMAIN w /\ Head(w) = w[1]
      /\ \A k \in DOMAIN v : k \in Nat /\ k + 1 \in DOMAIN w /\ k + 1 # 1 /\ v[k] = w[k + 1]
      /\ \A k \in DOMAIN w : k = 1 \/ (k - 1 \in DOMAIN v /\ v[k - 1] = w[k])
      /\ \A k \in DOMAIN w : k \in Nat
  BY Taking, Elements
<1> HIDE DEF v
<1>2. \A k \in Nat : (k + 1) - 1 = k /\ (k - 1) + 1 = k
  OBVIOUS
<1>3. Finished(w) \ {1} = {k + 1 : k \in Finished(v)}
  <2>1. ASSUME NEW j \in Finished(w) \ {1} PROVE j \in {k + 1 : k \in Finished(v)}
    <3>1. j - 1 \in Finished(v) /\ (j - 1) + 1 = j
      BY <1>1, <1>2, <2>1 DEF Finished
    <3> QED BY <3>1
  <2>2. ASSUME NEW k \in Finished(v) PROVE k + 1 \in Finished(w) \ {1}
    BY <1>1, <2>2 DEF Finished
  <2> QED BY <2>1, <2>2
<1>4. IsFiniteSet(Finished(v)) /\ IsFiniteSet(Finished(w))
      /\ Cardinality(Finished(v)) \in Nat /\ Cardinality(Finished(w)) \in Nat
  <2>1. \A u \in Seq(Edge) : IsFiniteSet(Finished(u)) /\ Cardinality(Finished(u)) \in Nat
    <3> SUFFICES ASSUME NEW u \in Seq(Edge)
                 PROVE  IsFiniteSet(Finished(u)) /\ Cardinality(Finished(u)) \in Nat
      OBVIOUS
    <3>1. Len(u) \in Nat /\ DOMAIN u = 1..Len(u)
      BY Elements
    <3>2. IsFiniteSet(1..Len(u)) /\ Finished(u) \subseteq 1..Len(u)
      BY <3>1, FS_Interval DEF Finished
    <3> QED BY <3>2, FS_Subset, FS_CardinalityType
  <2> QED BY <1>1, <2>1
<1>5. Cardinality(Finished(w) \ {1}) = Cardinality(Finished(v))
  <2>1. f \in Bijection(Finished(v), Finished(w) \ {1})
    <3>1. f \in [Finished(v) -> Finished(w) \ {1}]
      BY <1>3
    <3>2. \A a, b \in Finished(v) : f[a] = f[b] => a = b
      <4>1. \A a, b \in Nat : a + 1 = b + 1 => a = b
        OBVIOUS
      <4>2. Finished(v) \subseteq Nat
        BY <1>1 DEF Finished
      <4> QED BY <4>1, <4>2
    <3>3. \A j \in Finished(w) \ {1} : \E k \in Finished(v) : f[k] = j
      BY <1>3
    <3> QED BY <3>1, <3>2, <3>3, Fun_IsBij
  <2> QED BY <1>4, <2>1, FS_Bijection DEF ExistsBijection
<1>6. Finished(v) # {} \/ Head(w).completed => Finished(w) # {}
  BY <1>1, <1>3 DEF Finished
<1>7. CASE Head(w).completed
  <2>1. 1 \in Finished(w)
    BY <1>1, <1>7 DEF Finished
  <2>2. Cardinality(Finished(w) \ {1}) = Cardinality(Finished(w)) - 1
    BY <1>4, <2>1, FS_RemoveElement
  <2> QED BY <1>4, <1>5, <1>6, <1>7, <2>2 DEF v
<1>8. CASE ~Head(w).completed
  <2>1. Finished(w) \ {1} = Finished(w)
    BY <1>1, <1>8 DEF Finished
  <2>2. Cardinality(Finished(w)) = Cardinality(Finished(v))
    BY <1>5, <2>1
  <2>3. \A a, b \in Nat : a = b => a = b + 0
    OBVIOUS
  <2>4. Cardinality(Finished(w)) = Cardinality(Finished(v)) + 0
    BY <1>4, <2>2, <2>3
  <2> QED BY <1>4, <1>6, <1>8, <2>4 DEF v
<1> QED BY <1>7, <1>8

\* The accounts of an end stand if what they count stands.
LEMMA AccountsStand ==
  ASSUME NEW n \in N, Accounts(n), closed'[n] = closed[n], worker'[n] = worker[n],
         inbox'[n] = inbox[n], One(owner'[n].hand) = One(owner[n].hand)
  PROVE  Accounts(n)'
<1>1. Completed(n)' = Completed(n)
  BY DEF Completed
<1> QED BY <1>1 DEF Accounts, One

\* The owner moves on and touches nothing that is counted.
LEMMA OwnerMoves ==
  ASSUME Local, NEW n \in N, NEW to \in Owners, owner' = [owner EXCEPT ![n] = to],
         edge' = edge, inbox' = inbox, known' = known, core' = core, worker' = worker,
         closed' = closed, accused' = accused, repeats' = repeats, got' = got, effects' = effects,
         barrier' = barrier, turn' \in [N -> Signals], wire' \in [N -> Seq(Frames)],
         owner[n].pc \notin Clocking \cup {"down"}, owner[n].hand = NoRequest, to.hand = NoRequest,
         to.pc \in {"frame", "turn", "finish", "loop", "check", "pump"}, Orderly(to)
  PROVE  Local'
<1>1. /\ Shape /\ Position(n) /\ Accounts(n) /\ Other(n) \in N /\ Other(n) # n
  BY Peers DEF Local, Own
<1>2. owner' \in [N -> Owners] /\ owner'[n] = to
  BY <1>1 DEF Shape
<1>3. Shape'
  BY <1>1, <1>2 DEF Shape
<1>4. Own(n)'
  <2>1. Numbering(n)' /\ Counting(n)' /\ Position(n)'
    BY <1>1, <1>2, OwnMoves DEF Position
  <2>2. Accounts(n)'
    BY <1>1, <1>2, AccountsStand
  <2> QED BY <2>1, <2>2 DEF Own
<1>5. Beside(Other(n))
  BY <1>1 DEF Beside, Shape
<1> QED BY <1>3, <1>4, <1>5, OneEnd

\* Signals come and go one at a time.
LEMMA Signalling ==
  ASSUME Shape, NEW n \in N
  PROVE  /\ turn \in [N -> Signals]
         /\ [turn EXCEPT ![n].inflight = TRUE] \in [N -> Signals]
         /\ [turn EXCEPT ![n].inflight = FALSE] \in [N -> Signals]
         /\ [turn EXCEPT ![n].tick = FALSE] \in [N -> Signals]
         /\ [turn EXCEPT ![n].ack = FALSE, ![n].done = FALSE, ![n].inflight = FALSE] \in [N -> Signals]
         /\ \A op \in {"tick", "done", "ack"} : [turn EXCEPT ![n][op] = TRUE] \in [N -> Signals]
<1>1. turn \in [N -> Signals]
  BY DEF Shape
<1>2. ASSUME NEW op \in {"tick", "done", "ack"} PROVE [turn EXCEPT ![n][op] = TRUE] \in [N -> Signals]
  <2>1. CASE op = "tick"
    BY <1>1, <2>1 DEF Signals
  <2>2. CASE op = "done"
    BY <1>1, <2>2 DEF Signals
  <2>3. CASE op = "ack"
    BY <1>1, <2>3 DEF Signals
  <2> QED BY <1>2, <2>1, <2>2, <2>3
<1>3. /\ [turn EXCEPT ![n].inflight = TRUE] \in [N -> Signals]
      /\ [turn EXCEPT ![n].inflight = FALSE] \in [N -> Signals]
      /\ [turn EXCEPT ![n].tick = FALSE] \in [N -> Signals]
  BY <1>1 DEF Signals
<1>4. [turn EXCEPT ![n].ack = FALSE, ![n].done = FALSE, ![n].inflight = FALSE] \in [N -> Signals]
  BY <1>1 DEF Signals
<1> QED BY <1>1, <1>2, <1>3, <1>4

\* A frame begins.
LEMMA BeginTurnLocal == ASSUME Local, NEW n \in N, BeginTurn(n) PROVE Local'
<1> DEFINE to == [owner[n] EXCEPT !.pc = "pump", !.kind = "main"]
<1>1. /\ Shape /\ Position(n) /\ owner[n] \in Owners /\ owner[n].pc = "turn"
  BY Parts DEF Local, Own, BeginTurn, At
<1>2. to \in Owners /\ to.pc = "pump" /\ to.kind = "main" /\ to.hand = owner[n].hand /\ Orderly(to)
  BY <1>1 DEF Owners, Place, Position, Orderly, Clocking, Asking
<1>3. owner[n].hand = NoRequest
  BY <1>1 DEF Position
<1>4. wire' \in [N -> Seq(Frames)]
  BY <1>1, Sending, Sources DEF BeginTurn, Shape
<1>5. turn' \in [N -> Signals]
  BY ZenonT(60), <1>1, Signalling DEF BeginTurn
<1>6. owner' = [owner EXCEPT ![n] = to]
  BY DEF BeginTurn
<1> HIDE DEF to
<1> QED BY <1>1, <1>2, <1>3, <1>4, <1>5, <1>6, OwnerMoves DEF BeginTurn, Clocking, Asking

\* The pump finds nothing to serve.
LEMMA PumpDoneLocal == ASSUME Local, NEW n \in N, PumpDone(n) PROVE Local'
<1> DEFINE to == ServiceEnds(n, owner[n], inbox[n])
<1>1. /\ Shape /\ Position(n) /\ owner[n] \in Owners /\ inbox[n] \in Inboxes /\ owner[n].pc = "pump"
  BY Parts DEF Local, Own, PumpDone, At
<1>2. owner[n].kind # "extra" /\ owner[n].hand = NoRequest /\ ~owner[n].inframe
  BY <1>1 DEF Position, Orderly
<1>3. Orderly(to) /\ to \in Owners /\ to.hand = NoRequest /\ to.pc \in {"frame", "turn", "finish", "loop", "check"}
  BY <1>1, <1>2, ServiceReturns
<1>4. owner' = [owner EXCEPT ![n] = to]
  BY DEF PumpDone
<1>5. turn' \in [N -> Signals] /\ wire' \in [N -> Seq(Frames)]
  BY <1>1 DEF PumpDone, Shape
<1> HIDE DEF to
<1> QED BY <1>1, <1>2, <1>3, <1>4, <1>5, OwnerMoves DEF PumpDone, Clocking, Asking

\* The barrier, and the frames within it.
LEMMA FinishTurnLocal == ASSUME Local, NEW n \in N, FinishTurn(n) PROVE Local'
<1> DEFINE to == [owner[n] EXCEPT !.pc = "loop"]
<1>1. /\ Shape /\ Position(n) /\ owner[n] \in Owners /\ owner[n].pc = "finish"
  BY Parts DEF Local, Own, FinishTurn, At
<1>2. /\ to \in Owners /\ to.pc = "loop" /\ to.hand = owner[n].hand /\ owner[n].hand = NoRequest
      /\ Orderly(to)
  BY <1>1 DEF Owners, Place, Waits, Position, Orderly, Clocking, Asking
<1>3. wire' \in [N -> Seq(Frames)] /\ turn' \in [N -> Signals]
  BY <1>1, Sending, Sources DEF FinishTurn, Shape
<1>4. owner' = [owner EXCEPT ![n] = to]
  BY DEF FinishTurn, GoTo
<1> HIDE DEF to
<1> QED BY <1>1, <1>2, <1>3, <1>4, OwnerMoves DEF FinishTurn, Clocking, Asking

LEMMA ProgressLocal == ASSUME Local, NEW n \in N, Progress(n) PROVE Local'
<1> DEFINE to == [owner[n] EXCEPT !.pc = "pump", !.kind = "loop", !.applied = FALSE,
                                  !.before = inbox[n].pending > 0]
<1>1. /\ Shape /\ Position(n) /\ owner[n] \in Owners /\ owner[n].pc = "loop"
  BY Parts DEF Local, Own, Progress, At
<1>2. to \in Owners /\ to.pc = "pump" /\ to.kind = "loop" /\ to.hand = owner[n].hand /\ Orderly(to)
  <2> DEFINE some == inbox[n].pending > 0
  <2>1. some \in BOOLEAN
    OBVIOUS
  <2> HIDE DEF some
  <2>2. /\ [owner[n] EXCEPT !.pc = "pump", !.kind = "loop", !.applied = FALSE, !.before = some] \in Owners
        /\ [owner[n] EXCEPT !.pc = "pump", !.kind = "loop", !.applied = FALSE, !.before = some].hand
              = owner[n].hand
    BY <1>1, <2>1 DEF Owners, Place
  <2> QED BY <1>1, <2>2 DEF some, Owners, Position, Orderly, Clocking, Asking
<1>3. owner[n].hand = NoRequest /\ wire' \in [N -> Seq(Frames)] /\ turn' \in [N -> Signals]
  BY <1>1 DEF Progress, Shape, Position
<1>4. owner' = [owner EXCEPT ![n] = to]
  BY DEF Progress
<1> HIDE DEF to
<1> QED BY <1>1, <1>2, <1>3, <1>4, OwnerMoves DEF Progress, Clocking, Asking

LEMMA CheckLocal == ASSUME Local, NEW n \in N, Check(n) PROVE Local'
<1>1. /\ Shape /\ Position(n) /\ owner[n] \in Owners /\ owner[n].pc = "check"
  BY Parts DEF Local, Own, Check, At
<1>2. \A pc \in {"turn", "loop"} :
        /\ [owner[n] EXCEPT !.pc = pc] \in Owners /\ [owner[n] EXCEPT !.pc = pc].pc = pc
        /\ [owner[n] EXCEPT !.pc = pc].hand = owner[n].hand
        /\ Orderly([owner[n] EXCEPT !.pc = pc])
  BY <1>1 DEF Owners, Place, Waits, Position, Orderly, Clocking, Asking
<1>3. owner[n].hand = NoRequest
  BY <1>1 DEF Position
<1>4. wire' \in [N -> Seq(Frames)]
  <2>1. wire \in [N -> Seq(Frames)]
    BY <1>1 DEF Shape
  <2>2. wire' = wire \/ Send(n, Frame("ack", NoId, Idle))
    BY DEF Check
  <2> QED BY <1>1, <2>1, <2>2, Sending, Sources
<1>5. turn' \in [N -> Signals]
  BY ZenonT(60), <1>1, Signalling DEF Check
<1>6. PICK pc \in {"turn", "loop"} : owner' = [owner EXCEPT ![n] = [owner[n] EXCEPT !.pc = pc]]
  BY DEF Check, GoTo
<1> DEFINE to == [owner[n] EXCEPT !.pc = pc]
<1>7. Orderly(to) /\ to \in Owners /\ to.pc = pc /\ to.hand = NoRequest /\ owner' = [owner EXCEPT ![n] = to]
  BY <1>2, <1>3, <1>6
<1> HIDE DEF to
<1> QED BY <1>1, <1>3, <1>4, <1>5, <1>6, <1>7, OwnerMoves DEF Check, Clocking, Asking

\* The held response is released to the worker.
LEMMA Releasing ==
  ASSUME Local, NEW n \in N, inbox[n].held # NoRequest, inbox' = Release(n)
  PROVE  /\ inbox' \in [N -> Inboxes] /\ inbox'[Other(n)] = inbox[Other(n)]
         /\ inbox'[n].held = NoRequest /\ inbox'[n].done = Append(inbox[n].done, inbox[n].held)
         /\ inbox'[n].queue = inbox[n].queue /\ inbox'[n].pending = inbox[n].pending
         /\ inbox'[n].owed = inbox[n].owed + 1
         /\ closed' = closed /\ worker' = worker /\ One(owner'[n].hand) = One(owner[n].hand) => Accounts(n)'
<1>1. /\ inbox \in [N -> Inboxes] /\ inbox[n] \in Inboxes /\ Other(n) \in N /\ Other(n) # n
      /\ inbox[n].held \in Edge /\ inbox[n].done \in Seq(Edge) /\ inbox[n].owed \in Nat
      /\ Position(n) /\ Accounts(n) /\ NoRequest \in Response
  BY Peers, Parts, Requests DEF Local, Own, Shape
<1>2. Append(inbox[n].done, inbox[n].held) \in Seq(Edge)
      /\ Len(Append(inbox[n].done, inbox[n].held)) = Len(inbox[n].done) + 1
  BY <1>1, AppendProperties
<1> DEFINE more == Append(inbox[n].done, inbox[n].held)
           owed == inbox[n].owed + 1
           to == [inbox[n] EXCEPT !.held = NoRequest, !.owed = owed, !.done = more]
<1>3. owed \in Nat /\ more \in Seq(Edge)
  BY <1>1, <1>2
<1>4. inbox' = [inbox EXCEPT ![n] = to]
  <2>1. inbox' = [inbox EXCEPT ![n].held = NoRequest, ![n].owed = owed, ![n].done = more]
    BY <1>1 DEF Release, Inboxes
  <2> HIDE DEF owed, more
  <2> QED BY <1>1, <2>1
<1>5. /\ inbox' \in [N -> Inboxes] /\ inbox'[Other(n)] = inbox[Other(n)]
      /\ inbox'[n].held = NoRequest /\ inbox'[n].done = Append(inbox[n].done, inbox[n].held)
      /\ inbox'[n].queue = inbox[n].queue /\ inbox'[n].pending = inbox[n].pending
      /\ inbox'[n].owed = inbox[n].owed + 1
  <2>1. /\ to \in Inboxes /\ to.held = NoRequest /\ to.done = more /\ to.queue = inbox[n].queue
        /\ to.pending = inbox[n].pending /\ to.owed = owed
    <3> HIDE DEF owed, more
    <3> QED BY <1>1, <1>3 DEF Inboxes
  <2> QED BY <1>1, <1>4, <2>1
<1>6. ASSUME closed' = closed, worker' = worker, One(owner'[n].hand) = One(owner[n].hand)
      PROVE  Accounts(n)'
  <2>1. CASE closed[n]
    BY <1>1, <2>1 DEF Accounts
  <2>2. CASE ~closed[n]
    <3>1. inbox[n].held.completed
      BY <1>1 DEF Position
    <3>2. Cardinality(Completed(n)') = Cardinality(Completed(n)) + 1 /\ Cardinality(Completed(n)) \in Nat
      BY <1>1, <1>5, <3>1, FinishedMore DEF Completed
    <3>3. One(inbox[n].held) = 1 /\ One(NoRequest) = 0
      BY <1>1, Requests
    <3>4. worker[n] \in Response /\ owner[n].hand \in Response /\ Len(inbox[n].queue) \in Nat
          /\ Len(inbox[n].done) \in Nat
      BY Parts, Elements DEF Local
    <3>5. One(worker[n]) \in Nat /\ One(owner[n].hand) \in Nat
      BY <3>4, Requests
    <3>6. inbox[n].pending = Len(inbox[n].queue) + Len(inbox[n].done) + One(inbox[n].held)
                             + One(owner[n].hand) + One(worker[n])
      BY <1>1, <2>2 DEF Accounts
    <3>7. inbox[n].owed = Cardinality(Completed(n)) + (IF worker[n].completed THEN 1 ELSE 0)
      BY <1>1, <2>2 DEF Accounts
    <3>8. \A p, q, d, h, w \in Nat : p = q + d + 1 + h + w => p = q + (d + 1) + 0 + h + w
      OBVIOUS
    <3>9. inbox'[n].pending = Len(inbox'[n].queue) + Len(inbox'[n].done) + One(inbox'[n].held)
                              + One(owner'[n].hand) + One(worker'[n])
      BY <1>1, <1>2, <1>5, <1>6, <3>3, <3>4, <3>5, <3>6, <3>8, Parts DEF Inboxes
    <3>10. inbox'[n].owed = Cardinality(Completed(n)') + (IF worker'[n].completed THEN 1 ELSE 0)
      <4> DEFINE x == IF worker[n].completed THEN 1 ELSE 0
                 c == Cardinality(Completed(n))
      <4>1. x \in Nat /\ c \in Nat /\ inbox[n].owed = c + x /\ Cardinality(Completed(n)') = c + 1
        BY <3>2, <3>7
      <4> HIDE DEF x, c
      <4>2. inbox[n].owed + 1 = (c + 1) + x
        BY ONLY <4>1
      <4> QED BY <1>5, <1>6, <4>1, <4>2 DEF x
    <3> QED BY <1>6, <2>2, <3>9, <3>10 DEF Accounts
  <2> QED BY <2>1, <2>2
<1> QED BY <1>5, <1>6


\* A frame ends: the response that was held when it began is released.
LEMMA FinishFrameLocal == ASSUME Local, NEW n \in N, FinishFrame(n) PROVE Local'
<1>1. /\ Shape /\ Position(n) /\ Accounts(n) /\ owner[n] \in Owners /\ owner[n].pc = "frame"
      /\ Other(n) \in N /\ Other(n) # n /\ owner \in [N -> Owners] /\ inbox[n].held \in Response
  BY Peers, Parts DEF Local, Own, FinishFrame, At, Shape
<1>2. /\ owner[n].hand = NoRequest /\ owner[n].kind \in {"main", "extra", "loop"} /\ ~owner[n].inframe
      /\ FrameOver(n) \in {"turn", "finish", "loop"}
  BY <1>1 DEF Position, Orderly, Owners, FrameOver, Shape
<1> DEFINE Goal == \E to \in Owners : /\ owner' = [owner EXCEPT ![n] = to] /\ to.hand = NoRequest /\ Orderly(to)
                                      /\ to.pc \in {"turn", "finish", "loop", "check", "pump"}
<1>3. ASSUME NEW pc \in {"turn", "finish", "loop", "check", "pump"}, NEW kind \in {"after", "extra", "loop"},
             pc = "pump" => kind = "after",
             owner' = [owner EXCEPT ![n] = [owner[n] EXCEPT !.token = NoId, !.pc = pc, !.kind = kind]]
      PROVE  Goal
  <2> DEFINE to == [owner[n] EXCEPT !.token = NoId, !.pc = pc, !.kind = kind]
  <2>1. to \in Owners /\ to.hand = NoRequest /\ Orderly(to) /\ to.pc = pc
    BY <1>1, <1>2, <1>3 DEF Owners, Place, Waits, Orderly, Clocking, Asking
  <2>2. owner' = [owner EXCEPT ![n] = to]
    BY <1>3
  <2> HIDE DEF to
  <2> QED BY <2>1, <2>2
<1>4. Goal
  <2> HIDE DEF Goal
  <2>1. CASE owner[n].kind = "main"
    <3>1. owner' = [owner EXCEPT ![n] = [owner[n] EXCEPT !.token = NoId, !.pc = "pump", !.kind = "after"]]
      BY <1>1, <2>1 DEF FinishFrame, Owners
    <3> QED BY <1>3, <3>1
  <2>2. CASE owner[n].kind = "extra"
    <3>1. owner' = [owner EXCEPT ![n] = [owner[n] EXCEPT !.token = NoId, !.pc = FrameOver(n), !.kind = "extra"]]
      BY <1>1, <2>2 DEF FinishFrame, Owners
    <3> HIDE DEF Goal
    <3> QED BY <1>2, <1>3, <3>1
  <2>3. CASE owner[n].kind = "loop"
    <3>1. owner' = [owner EXCEPT ![n] = [owner[n] EXCEPT !.token = NoId, !.pc = "check", !.kind = "loop"]]
      BY <1>1, <2>3 DEF FinishFrame, Owners
    <3> QED BY <1>3, <3>1
  <2> QED BY <1>2, <2>1, <2>2, <2>3
<1>5. PICK to \in Owners : /\ owner' = [owner EXCEPT ![n] = to] /\ to.hand = NoRequest /\ Orderly(to)
                           /\ to.pc \in {"turn", "finish", "loop", "check", "pump"}
  BY <1>4
<1>6. /\ owner' \in [N -> Owners] /\ owner'[n] = to /\ owner'[Other(n)] = owner[Other(n)]
      /\ edge' = edge /\ known' = known /\ core' = core /\ worker' = worker
      /\ closed' = closed /\ accused' = accused /\ repeats' = repeats /\ got' = got
      /\ effects' = effects /\ barrier' = barrier /\ turn' = turn /\ wire' = wire
  BY <1>1, <1>5 DEF FinishFrame
<1>7. /\ inbox' \in [N -> Inboxes] /\ inbox'[Other(n)] = inbox[Other(n)] /\ Accounts(n)'
      /\ inbox'[n].held = NoRequest \/ inbox'[n].held = inbox[n].held
  <2>1. One(owner'[n].hand) = One(owner[n].hand)
    BY <1>2, <1>5, <1>6
  <2>2. CASE owner[n].token # NoId /\ inbox[n].held.id = owner[n].token
    <3>1. inbox[n].held # NoRequest
      BY <2>2, Requests DEF NoRequest
    <3>2. inbox' = Release(n)
      BY <2>2 DEF FinishFrame
    <3> QED BY <1>6, <2>1, <3>1, <3>2, Releasing
  <2>3. CASE inbox' = inbox
    BY <1>1, <1>6, <2>1, <2>3, AccountsStand DEF Shape
  <2> QED BY <2>2, <2>3 DEF FinishFrame
<1>8. Numbering(n)' /\ Counting(n)' /\ Position(n)'
  BY <1>1, <1>5, <1>6, <1>7, OwnMoves DEF Position, Clocking, Asking
<1>9. Shape'
  BY <1>1, <1>6, <1>7 DEF Shape
<1>10. Own(n)' /\ Beside(Other(n))
  BY <1>1, <1>6, <1>7, <1>8 DEF Own, Beside
<1> QED BY <1>9, <1>10, OneEnd

\* A request that is not served goes back, or is dropped by a closed link.
LEMMA DeferLocal == ASSUME Local, NEW n \in N, Defer(n) PROVE Local'
<1> DEFINE to == ServiceEnds(n, owner[n], inbox[n])
           box == [inbox[n] EXCEPT !.queue = Tail(@), !.pending = Less(@)]
<1>1. /\ Shape /\ Position(n) /\ Accounts(n) /\ owner[n] \in Owners /\ owner[n].pc = "pump"
      /\ Other(n) \in N /\ Other(n) # n /\ owner \in [N -> Owners] /\ inbox[n] \in Inboxes
      /\ inbox[n].queue \in Seq(Ids) /\ inbox[n].pending \in Nat
      /\ inbox[n].queue # <<>> /\ inbox \in [N -> Inboxes]
  BY Peers, Parts DEF Local, Own, Defer, At, Shape
<1>2. owner[n].kind # "extra" /\ owner[n].hand = NoRequest /\ ~owner[n].inframe
  BY <1>1 DEF Position, Orderly
<1>3. to \in Owners /\ to.hand = NoRequest /\ to.pc \in {"frame", "turn", "finish", "loop", "check"}
      /\ Orderly(to)
  BY <1>1, <1>2, ServiceReturns
<1>4. /\ owner' = [owner EXCEPT ![n] = to]
      /\ edge' = edge /\ known' = known /\ core' = core /\ worker' = worker
      /\ closed' = closed /\ accused' = accused /\ repeats' = repeats /\ got' = got
      /\ effects' = effects /\ barrier' = barrier /\ turn' = turn /\ wire' = wire
  BY DEF Defer
<1> HIDE DEF to
<1>5. owner' \in [N -> Owners] /\ owner'[n] = to /\ owner'[Other(n)] = owner[Other(n)]
  BY <1>1, <1>3, <1>4
<1>6. /\ inbox' \in [N -> Inboxes] /\ inbox'[Other(n)] = inbox[Other(n)] /\ Accounts(n)'
      /\ inbox'[n].held = inbox[n].held
  <2>1. CASE closed[n]
    <3>1. inbox[n].pending = 0 /\ inbox[n].held = NoRequest
      BY <1>1, <2>1 DEF Accounts
    <3>2. Tail(inbox[n].queue) \in Seq(Ids) /\ Less(inbox[n].pending) = 0
      BY <1>1, <3>1, HeadTailProperties DEF Less
    <3>3. box \in Inboxes /\ box.pending = 0 /\ box.held = NoRequest
      BY <1>1, <3>1, <3>2 DEF Inboxes
    <3>4. inbox' = [inbox EXCEPT ![n] = box]
      BY <1>1, <2>1 DEF Defer
    <3> HIDE DEF box
    <3>5. inbox' \in [N -> Inboxes] /\ inbox'[Other(n)] = inbox[Other(n)] /\ inbox'[n] = box
      BY <1>1, <3>3, <3>4
    <3> QED BY <1>4, <2>1, <3>1, <3>3, <3>5 DEF Accounts
  <2>2. CASE ~closed[n]
    <3>1. inbox' = inbox
      BY <2>2 DEF Defer
    <3>2. One(owner'[n].hand) = One(owner[n].hand)
      BY <1>2, <1>3, <1>5
    <3> QED BY <1>1, <1>4, <3>1, <3>2, AccountsStand
  <2> QED BY <2>1, <2>2
<1>7. Numbering(n)' /\ Counting(n)' /\ Position(n)'
  BY <1>1, <1>3, <1>4, <1>5, <1>6, OwnMoves DEF Position, Clocking, Asking
<1>8. Shape'
  BY <1>1, <1>4, <1>5, <1>6 DEF Shape
<1>9. Own(n)' /\ Beside(Other(n))
  BY <1>1, <1>4, <1>5, <1>6, <1>7 DEF Own, Beside
<1> QED BY <1>8, <1>9, OneEnd

\* What an open end counts, as numbers.
LEMMA Counted ==
  ASSUME Local, NEW n \in N, ~closed[n]
  PROVE  /\ inbox[n].pending = Len(inbox[n].queue) + Len(inbox[n].done) + One(inbox[n].held)
                               + One(owner[n].hand) + One(worker[n])
         /\ inbox[n].owed = Cardinality(Completed(n)) + (IF worker[n].completed THEN 1 ELSE 0)
         /\ Len(inbox[n].queue) \in Nat /\ Len(inbox[n].done) \in Nat
         /\ One(inbox[n].held) \in Nat /\ One(owner[n].hand) \in Nat /\ One(worker[n]) \in Nat
         /\ Cardinality(Completed(n)) \in Nat
         /\ (IF worker[n].completed THEN 1 ELSE 0) \in Nat
<1>1. /\ Accounts(n) /\ inbox[n].queue \in Seq(Ids) /\ inbox[n].done \in Seq(Edge)
      /\ inbox[n].held \in Response /\ owner[n].hand \in Response /\ worker[n] \in Response
  BY Parts DEF Local, Own
<1>2. One(inbox[n].held) \in Nat /\ One(owner[n].hand) \in Nat /\ One(worker[n]) \in Nat
  BY <1>1, Requests
<1>3. Len(inbox[n].queue) \in Nat /\ Len(inbox[n].done) \in Nat
  BY <1>1, Elements
<1>4. Cardinality(Completed(n)) \in Nat
  <2> DEFINE w == inbox[n].done
  <2>1. DOMAIN w = 1..Len(w) /\ Len(w) \in Nat
    <3> HIDE DEF w
    <3> QED BY <1>1, Elements DEF w
  <2>2. IsFiniteSet(1..Len(w))
    BY <2>1, FS_Interval
  <2>3. Completed(n) \subseteq 1..Len(w)
    BY <2>1 DEF Completed, Finished
  <2> QED BY <2>2, <2>3, FS_Subset, FS_CardinalityType
<1> QED BY <1>1, <1>2, <1>3, <1>4 DEF Accounts

\* A served request is published: held, or queued for the worker.
LEMMA PublishLocal == ASSUME Local, NEW n \in N, Publish(n) PROVE Local'
<1> DEFINE rec == [owner[n] EXCEPT !.applied = ~closed[n]]
           box == Published(n)
           r == owner[n].hand
<1>1. /\ Shape /\ Position(n) /\ Accounts(n) /\ owner[n] \in Owners /\ owner[n].pc = "publish"
      /\ Other(n) \in N /\ Other(n) # n /\ owner \in [N -> Owners] /\ inbox[n] \in Inboxes
      /\ r \in Edge /\ inbox[n].held = NoRequest /\ inbox \in [N -> Inboxes]
      /\ inbox[n].done \in Seq(Edge) /\ inbox[n].pending \in Nat /\ closed[n] \in BOOLEAN
      /\ r \in Response /\ One(r) = 1 /\ One(NoRequest) = 0
  <2>1. /\ Shape /\ Position(n) /\ Accounts(n) /\ owner[n] \in Owners /\ owner[n].pc = "publish"
        /\ Other(n) \in N /\ Other(n) # n /\ owner \in [N -> Owners] /\ inbox[n] \in Inboxes
        /\ inbox \in [N -> Inboxes] /\ r \in Response
        /\ inbox[n].done \in Seq(Edge) /\ inbox[n].pending \in Nat /\ closed[n] \in BOOLEAN
    BY Peers, Parts DEF Local, Own, Publish, At, Shape
  <2>2. inbox[n].held = NoRequest /\ r # NoRequest
    BY <2>1 DEF Position
  <2> QED BY <2>1, <2>2, Requests
<1>2. rec \in Owners /\ rec.hand = r /\ rec.kind = owner[n].kind /\ rec.inframe = owner[n].inframe
  BY <1>1 DEF Owners
<1>3. (rec.inframe => rec.kind # "after") /\ (~rec.inframe => rec.kind # "extra")
  BY <1>1, <1>2 DEF Position, Orderly
<1>4. /\ box \in Inboxes /\ box.queue = inbox[n].queue /\ box.owed = inbox[n].owed
      /\ box.held = NoRequest \/ box.held.completed
      /\ closed[n] => box.held = NoRequest /\ box.pending = 0 /\ box.done = inbox[n].done
      /\ ~closed[n] => /\ box.pending = inbox[n].pending
                       /\ \/ r.completed /\ box.held = r /\ box.done = inbox[n].done
                          \/ ~r.completed /\ box.held = NoRequest /\ box.done = Append(inbox[n].done, r)
  <2>1. CASE closed[n]
    <3>1. inbox[n].pending = 0 /\ Less(inbox[n].pending) = 0
      BY <1>1, <2>1 DEF Accounts, Less
    <3>2. box = [inbox[n] EXCEPT !.pending = 0]
      BY <2>1, <3>1 DEF Published
    <3> HIDE DEF box, r
    <3>3. /\ box \in Inboxes /\ box.queue = inbox[n].queue /\ box.owed = inbox[n].owed
          /\ box.held = inbox[n].held /\ box.pending = 0 /\ box.done = inbox[n].done
      BY <1>1, <3>2 DEF Inboxes
    <3> QED BY <1>1, <2>1, <3>3
  <2>2. CASE ~closed[n] /\ r.completed
    <3>1. box = [inbox[n] EXCEPT !.held = r]
      BY <2>2 DEF Published
    <3> HIDE DEF r, box
    <3> QED BY <1>1, <2>2, <3>1 DEF Inboxes
  <2>3. CASE ~closed[n] /\ ~r.completed
    <3> DEFINE more == Append(inbox[n].done, r)
    <3>1. box = [inbox[n] EXCEPT !.done = more]
      BY <1>1, <2>3 DEF Published, Inboxes
    <3>2. more \in Seq(Edge)
      BY <1>1, AppendProperties
    <3>3. /\ box \in Inboxes /\ box.queue = inbox[n].queue /\ box.owed = inbox[n].owed
          /\ box.held = NoRequest /\ box.pending = inbox[n].pending /\ box.done = more
      <4> HIDE DEF more, box
      <4> QED BY <1>1, <3>1, <3>2 DEF Inboxes
    <3> HIDE DEF box
    <3> QED BY <2>3, <3>3
  <2> QED BY <1>1, <2>1, <2>2, <2>3
<1>5. PICK to \in Owners : /\ owner' = [owner EXCEPT ![n] = to] /\ to.hand = NoRequest /\ Orderly(to)
                           /\ to.pc \in {"frame", "turn", "finish", "loop", "check", "pump"}
  <2> DEFINE again == [rec EXCEPT !.pc = "pump", !.hand = NoRequest]
             ends == ServiceEnds(n, rec, box)
  <2>1. owner' = [owner EXCEPT ![n] = ends] \/ (~rec.inframe /\ owner' = [owner EXCEPT ![n] = again])
    BY DEF Publish
  <2>2. /\ ends \in Owners /\ ends.hand = NoRequest /\ Orderly(ends)
        /\ ends.pc \in {"frame", "turn", "finish", "loop", "check"}
    <3> HIDE DEF rec, box
    <3> QED BY <1>2, <1>3, <1>4, ServiceReturns
  <2>3. ~rec.inframe => again \in Owners /\ again.hand = NoRequest /\ Orderly(again) /\ again.pc = "pump"
    <3>1. NoRequest \in Response
      BY Requests
    <3> HIDE DEF rec
    <3> QED BY <1>2, <1>3, <3>1 DEF Owners, Place, Orderly, Clocking, Asking
  <2> HIDE DEF again, ends
  <2> QED BY <2>1, <2>2, <2>3
<1> HIDE DEF rec, box
<1>6. /\ owner' \in [N -> Owners] /\ owner'[n] = to /\ owner'[Other(n)] = owner[Other(n)]
      /\ edge' = edge /\ known' = known /\ core' = core /\ worker' = worker
      /\ closed' = closed /\ accused' = accused /\ repeats' = repeats /\ got' = got
      /\ effects' = effects /\ barrier' = barrier /\ turn' = turn /\ wire' = wire
  BY <1>1, <1>5 DEF Publish
<1>7. inbox' \in [N -> Inboxes] /\ inbox'[n] = box /\ inbox'[Other(n)] = inbox[Other(n)]
  <2>1. inbox' = [inbox EXCEPT ![n] = box]
    BY DEF Publish, box
  <2> QED BY <1>1, <1>4, <2>1
<1>8. Accounts(n)'
  <2>1. CASE closed[n]
    BY <1>4, <1>6, <1>7, <2>1 DEF Accounts
  <2>2. CASE ~closed[n]
    <3>1. /\ \A p, q, d, w \in Nat : p = q + d + 0 + 1 + w => p = q + (d + 1) + 0 + 0 + w
          /\ \A p, q, d, w \in Nat : p = q + d + 0 + 1 + w => p = q + d + 1 + 0 + w
      OBVIOUS
    <3>2. /\ inbox[n].pending = Len(inbox[n].queue) + Len(inbox[n].done) + 0 + 1 + One(worker[n])
          /\ inbox[n].owed = Cardinality(Completed(n)) + (IF worker[n].completed THEN 1 ELSE 0)
          /\ Len(inbox[n].queue) \in Nat /\ Len(inbox[n].done) \in Nat /\ One(worker[n]) \in Nat
          /\ Cardinality(Completed(n)) \in Nat
      BY <1>1, <2>2, Counted
    <3>3. Cardinality(Completed(n)') = Cardinality(Completed(n))
      <4>1. CASE box.done = inbox[n].done
        BY <1>7, <4>1 DEF Completed
      <4>2. CASE ~r.completed /\ box.done = Append(inbox[n].done, r)
        <5>1. Cardinality(Finished(Append(inbox[n].done, r))) = Cardinality(Finished(inbox[n].done)) + 0
          BY <1>1, <4>2, FinishedMore
        <5>2. \A c \in Nat : c + 0 = c
          OBVIOUS
        <5> QED BY <1>7, <3>2, <4>2, <5>1, <5>2 DEF Completed
      <4> QED BY <1>4, <2>2, <4>1, <4>2
    <3>4. inbox'[n].pending = Len(inbox'[n].queue) + Len(inbox'[n].done) + One(inbox'[n].held)
                              + One(owner'[n].hand) + One(worker'[n])
      <4> DEFINE q == Len(inbox[n].queue)  d == Len(inbox[n].done)  w == One(worker[n])
                 p == inbox[n].pending
      <4>3. q \in Nat /\ d \in Nat /\ w \in Nat /\ p \in Nat /\ p = q + d + 0 + 1 + w
        BY <1>1, <3>2
      <4>4. /\ inbox'[n].pending = p /\ Len(inbox'[n].queue) = q /\ One(worker'[n]) = w
            /\ One(owner'[n].hand) = 0
        BY <1>1, <1>4, <1>5, <1>6, <1>7, <2>2
      <4>1. CASE box.held = r /\ box.done = inbox[n].done
        <5>1. Len(inbox'[n].done) = d /\ One(inbox'[n].held) = 1
          BY <1>1, <1>7, <4>1
        <5> HIDE DEF p, q, d, w
        <5>2. p = q + d + 1 + 0 + w
          BY ONLY <3>1, <4>3
        <5> QED BY <4>4, <5>1, <5>2
      <4>2. CASE box.held = NoRequest /\ box.done = Append(inbox[n].done, r)
        <5>1. Len(inbox'[n].done) = d + 1 /\ One(inbox'[n].held) = 0
          BY <1>1, <1>7, <4>2, AppendProperties
        <5> HIDE DEF p, q, d, w
        <5>2. p = q + (d + 1) + 0 + 0 + w
          BY ONLY <3>1, <4>3
        <5> QED BY <4>4, <5>1, <5>2
      <4> QED BY <1>4, <2>2, <4>1, <4>2
    <3>5. inbox'[n].owed = Cardinality(Completed(n)') + (IF worker'[n].completed THEN 1 ELSE 0)
      BY <1>4, <1>6, <1>7, <3>2, <3>3
    <3> QED BY <1>6, <2>2, <3>4, <3>5 DEF Accounts
  <2> QED BY <2>1, <2>2
<1>9. Numbering(n)' /\ Counting(n)' /\ Position(n)'
  BY <1>1, <1>4, <1>5, <1>6, <1>7, OwnMoves DEF Position, Clocking, Asking
<1>10. Shape'
  BY <1>1, <1>6, <1>7 DEF Shape
<1>11. Own(n)' /\ Beside(Other(n))
  BY <1>1, <1>6, <1>7, <1>8, <1>9 DEF Own, Beside
<1> QED BY <1>10, <1>11, OneEnd

\* An end closes, by whoever finds a reason, and its owner stays where it is ...
LEMMA ClosesLocal ==
  ASSUME Local, NEW n \in N, MarkClosed(n), owner' = owner, edge' = edge, known' = known,
         core' = core, worker' = worker, got' = got, effects' = effects, barrier' = barrier,
         turn' = turn, accused' \in BOOLEAN, repeats' = repeats
  PROVE  Local'
<1>1. Shape /\ Position(n) /\ Numbering(n) /\ Counting(n) /\ (\A m \in N : Accounts(m))
  BY DEF Local, Own
<1>2. /\ closed' \in [N -> BOOLEAN] /\ closed'[n] /\ closed'[Other(n)] = closed[Other(n)]
      /\ wire' \in [N -> Seq(Frames)]
      /\ inbox' \in [N -> Inboxes] /\ inbox'[Other(n)] = inbox[Other(n)]
      /\ inbox'[n].held = NoRequest /\ inbox'[n].pending = 0
  BY <1>1, Closing
<1>3. Shape'
  BY <1>1, <1>2 DEF Shape
<1>4. Position(n)' /\ Numbering(n)' /\ Counting(n)'
  BY <1>1, <1>2 DEF Position, Numbering, Counting
<1>5. Accounts(n)'
  BY <1>2 DEF Accounts
<1> QED BY <1>2, <1>3, <1>4, <1>5, OneEnd DEF Own, Beside

\* ... or gives up with it.
LEMMA AbortLocal == ASSUME Local, NEW n \in N, Abort(n) PROVE Local'
<1> DEFINE to == [owner[n] EXCEPT !.pc = "down", !.hand = NoRequest, !.token = NoId]
           none == [edge[n] EXCEPT !.inflight = NoId, !.seen = FALSE, !.recip = FALSE]
<1>1. /\ Shape /\ Position(n) /\ Numbering(n) /\ Counting(n) /\ (\A m \in N : Accounts(m))
      /\ owner \in [N -> Owners] /\ edge \in [N -> Edges] /\ owner[n] \in Owners /\ edge[n] \in Edges
      /\ Other(n) \in N /\ Other(n) # n /\ NoRequest \in Response
  BY Peers, Parts, Requests DEF Local, Own, Shape
<1>2. /\ closed' \in [N -> BOOLEAN] /\ closed'[n] /\ closed'[Other(n)] = closed[Other(n)]
      /\ wire' \in [N -> Seq(Frames)]
      /\ inbox' \in [N -> Inboxes] /\ inbox'[Other(n)] = inbox[Other(n)]
      /\ inbox'[n].held = NoRequest /\ inbox'[n].pending = 0
  BY <1>1, Closing DEF Abort
<1>3. /\ owner' = [owner EXCEPT ![n] = to] /\ edge' = [edge EXCEPT ![n] = none]
      /\ barrier' = barrier /\ known' = known /\ core' = core /\ worker' = worker
      /\ accused' = accused /\ repeats' = repeats /\ got' = got /\ effects' = effects
  BY <1>1 DEF Abort
<1>4. turn' \in [N -> Signals]
  BY <1>1, Signalling DEF Abort
<1>5. to \in Owners /\ to.pc = "down" /\ to.hand = NoRequest /\ Orderly(to)
  BY <1>1 DEF Owners, Place, Orderly, Clocking, Asking
<1>6. none \in Edges /\ none.inflight = NoId /\ none.next = edge[n].next
  BY <1>1 DEF Edges
<1> HIDE DEF to, none
<1>7. /\ owner' \in [N -> Owners] /\ owner'[n] = to /\ owner'[Other(n)] = owner[Other(n)]
      /\ edge' \in [N -> Edges] /\ edge'[n] = none /\ edge'[Other(n)] = edge[Other(n)]
  BY <1>1, <1>3, <1>5, <1>6
<1>8. Shape'
  BY <1>1, <1>2, <1>3, <1>4, <1>7 DEF Shape
<1>9. Position(n)'
  BY <1>2, <1>5, <1>7 DEF Position, Clocking, Asking
<1>10. Numbering(n)'
  BY <1>1, <1>3, <1>5, <1>6, <1>7 DEF Numbering, Clocking, Asking
<1>11. Counting(n)'
  <2>1. core'[n] = core[n] /\ owner'[n].pc = "down" /\ edge'[n].next = edge[n].next
    BY <1>3, <1>5, <1>6, <1>7
  <2>2. core[n].enabled /\ core[n].internal => edge[n].next + core[n].left <= MaxEdges + 2
    <3>1. /\ edge[n].next \in Nat /\ core[n].left \in Nat
      BY <1>1, Constants, Parts
    <3>2. \A a, b, c \in Nat : a + b <= c + 1 => a + b <= c + 2
      OBVIOUS
    <3> QED BY <1>1, <3>1, <3>2, Constants DEF Counting
  <2> QED BY <1>1, <2>1, <2>2 DEF Counting, Clocking, Asking
<1>12. Accounts(n)'
  BY <1>2 DEF Accounts
<1> QED BY <1>2, <1>3, <1>7, <1>8, <1>9, <1>10, <1>11, <1>12, OneEnd DEF Own, Beside

\* The owner finds its link closed or a deadline behind it; the reader finds a breach or the
\* end of the stream; stop is called.
LEMMA EndsLocal ==
  ASSUME Local, NEW n \in N,
         OwnerStops(n) \/ Expire(n) \/ RejectReq(n) \/ Accuse(n) \/ ReadEnd(n) \/ Stop(n)
  PROVE  Local'
<1>1. CASE OwnerStops(n) \/ Expire(n)
  BY <1>1, AbortLocal DEF OwnerStops, Expire
<1>2. CASE Accuse(n) \/ RejectReq(n)
  <2>1. Accuse(n)
    BY <1>2 DEF RejectReq
  <2> QED BY <2>1, ClosesLocal DEF Accuse
<1>3. CASE ReadEnd(n)
  BY <1>3, ClosesLocal DEF ReadEnd, Local, Shape
<1>4. CASE Stop(n)
  BY <1>4, ClosesLocal DEF Stop, Local, Shape
<1> QED BY <1>1, <1>2, <1>3, <1>4

\* A bit is shifted.
LEMMA Shifting ==
  ASSUME NEW c \in Cores, c.left > 0
  PROVE  /\ Shift(c) \in Cores /\ Shift(c).internal = c.internal /\ Shift(c).left = c.left - 1
         /\ Shift(c).enabled => Shift(c).left > 0
<1> DEFINE more == c.left > 1  less == c.left - 1
<1>1. more \in BOOLEAN /\ less \in 0..ByteBits /\ (more => less > 0)
  <2>1. c.left \in 0..ByteBits
    BY DEF Cores
  <2> QED BY <2>1, Constants
<1>2. Shift(c) = [c EXCEPT !.left = less, !.enabled = more]
  BY DEF Shift, Cores
<1> HIDE DEF more, less
<1>3. Shift(c) \in Cores /\ Shift(c).internal = c.internal /\ Shift(c).left = less /\ Shift(c).enabled = more
  BY <1>1, <1>2 DEF Cores
<1> QED BY <1>1, <1>3 DEF less

\* The head of the queue is taken in hand.
LEMMA QueueTaken ==
  ASSUME Local, NEW n \in N, inbox[n].queue # <<>>, inbox' = [inbox EXCEPT ![n].queue = Tail(@)]
  PROVE  /\ inbox' \in [N -> Inboxes] /\ inbox'[Other(n)] = inbox[Other(n)]
         /\ inbox'[n].held = inbox[n].held /\ inbox'[n].done = inbox[n].done
         /\ inbox'[n].queue = Tail(inbox[n].queue)
         /\ inbox'[n].pending = inbox[n].pending /\ inbox'[n].owed = inbox[n].owed
         /\ Head(inbox[n].queue) \in Ids
         /\ ~closed[n] /\ closed'[n] = closed[n] /\ worker'[n] = worker[n] /\ owner[n].hand = NoRequest
            /\ owner'[n].hand \in Edge => Accounts(n)'
<1>1. /\ inbox \in [N -> Inboxes] /\ inbox[n] \in Inboxes /\ inbox[n].queue \in Seq(Ids)
      /\ Other(n) \in N /\ Other(n) # n
  BY Peers, Parts DEF Local, Shape
<1> DEFINE rest == Tail(inbox[n].queue)
           to == [inbox[n] EXCEPT !.queue = rest]
<1>2. /\ rest \in Seq(Ids) /\ Len(inbox[n].queue) = Len(rest) + 1 /\ Len(rest) \in Nat
      /\ Head(inbox[n].queue) \in Ids
  BY <1>1, Taking, Elements
<1>3. inbox' = [inbox EXCEPT ![n] = to]
  BY <1>1
<1>4. /\ to \in Inboxes /\ to.queue = rest /\ to.held = inbox[n].held /\ to.done = inbox[n].done
      /\ to.pending = inbox[n].pending /\ to.owed = inbox[n].owed
  <2> HIDE DEF rest
  <2> QED BY <1>1, <1>2 DEF Inboxes
<1> HIDE DEF to
<1>5. inbox' \in [N -> Inboxes] /\ inbox'[n] = to /\ inbox'[Other(n)] = inbox[Other(n)]
  BY <1>1, <1>3, <1>4
<1>6. ASSUME ~closed[n], closed'[n] = closed[n], worker'[n] = worker[n], owner[n].hand = NoRequest,
             owner'[n].hand \in Edge
      PROVE  Accounts(n)'
  <2>1. One(owner[n].hand) = 0 /\ One(owner'[n].hand) = 1
    BY <1>6, Requests
  <2> DEFINE q == Len(rest)  d == Len(inbox[n].done)  h == One(inbox[n].held)  w == One(worker[n])
             p == inbox[n].pending
  <2>2. q \in Nat /\ d \in Nat /\ h \in Nat /\ w \in Nat /\ p = (q + 1) + d + h + 0 + w
    BY <1>2, <1>6, <2>1, Counted
  <2>3. p = q + d + h + 1 + w
    <3> HIDE DEF p, q, d, h, w
    <3>1. \A a, b, c, e \in Nat : (a + 1) + b + c + 0 + e = a + b + c + 1 + e
      OBVIOUS
    <3> QED BY ONLY <2>2, <3>1
  <2>4. /\ Len(inbox'[n].queue) = q /\ Len(inbox'[n].done) = d /\ One(inbox'[n].held) = h
        /\ One(worker'[n]) = w /\ inbox'[n].pending = p /\ inbox'[n].owed = inbox[n].owed
        /\ Completed(n)' = Completed(n)
    BY <1>4, <1>5, <1>6 DEF Completed
  <2>5. inbox[n].owed = Cardinality(Completed(n)) + (IF worker[n].completed THEN 1 ELSE 0)
    BY <1>6, Counted
  <2> HIDE DEF p, q, d, h, w
  <2> QED BY <1>6, <2>1, <2>3, <2>4, <2>5 DEF Accounts
<1> QED BY <1>2, <1>4, <1>5, <1>6

\* A request is served: the armed core applies it, or there is no data.
LEMMA ServeLocal == ASSUME Local, NEW n \in N, Serve(n) PROVE Local'
<1> DEFINE r == Applied(n, Head(inbox[n].queue))
           inside == owner[n].pc = "frame"
           to == [owner[n] EXCEPT !.pc = "publish", !.hand = r, !.inframe = inside]
<1>1. /\ Shape /\ Position(n) /\ Numbering(n) /\ Counting(n) /\ owner \in [N -> Owners]
      /\ Other(n) \in N /\ Other(n) # n /\ owner[n] \in Owners /\ core[n] \in Cores
      /\ core \in [N -> Cores] /\ effects \in [N -> Seq(Edge)] /\ effects[n] \in Seq(Edge)
      /\ owner[n].pc \in {"pump", "frame"} /\ inbox[n].queue # <<>> /\ inbox[n].held = NoRequest
      /\ ~closed[n] /\ Ready(n)
  BY Peers, Parts DEF Local, Own, Serve, Shape
<1>2. owner[n].hand = NoRequest /\ ~owner[n].inframe
  BY <1>1 DEF Position, Orderly
<1>3. /\ inbox' \in [N -> Inboxes] /\ inbox'[Other(n)] = inbox[Other(n)]
      /\ inbox'[n].held = NoRequest /\ Head(inbox[n].queue) \in Ids
      /\ closed'[n] = closed[n] /\ worker'[n] = worker[n] /\ owner'[n].hand \in Edge => Accounts(n)'
  BY <1>1, <1>2, QueueTaken DEF Serve
<1>4. r \in Edge
  <2>1. (core[n].left = 1) \in BOOLEAN /\ FALSE \in BOOLEAN
    OBVIOUS
  <2> QED BY <1>3, <2>1, Requests, Sources DEF Applied
<1>5. /\ owner' = [owner EXCEPT ![n] = to] /\ effects' = [effects EXCEPT ![n] = Append(@, r)]
      /\ core' = IF Armed(n) THEN [core EXCEPT ![n] = Shift(core[n])] ELSE core
      /\ edge' = edge /\ known' = known /\ worker' = worker /\ closed' = closed
      /\ accused' = accused /\ repeats' = repeats /\ got' = got /\ barrier' = barrier
      /\ turn' = turn /\ wire' = wire
  BY <1>1 DEF Serve, At
<1>6. inside \in BOOLEAN
  OBVIOUS
<1> HIDE DEF r
<1>7. to \in Owners /\ to.pc = "publish" /\ to.hand = r /\ Orderly(to)
  <2>1. to \in Owners /\ to.pc = "publish" /\ to.hand = r /\ to.inframe = inside /\ to.kind = owner[n].kind
    <3> HIDE DEF inside
    <3> QED BY <1>1, <1>4, <1>6, Requests DEF Owners, Place
  <2> HIDE DEF to
  <2> QED BY <1>1, <1>2, <2>1 DEF Position, Orderly, Clocking, Asking
<1> HIDE DEF to
<1>8. owner' \in [N -> Owners] /\ owner'[n] = to /\ owner'[Other(n)] = owner[Other(n)]
  BY <1>1, <1>5, <1>7
<1>9. effects' \in [N -> Seq(Edge)]
  <2>1. Append(effects[n], r) \in Seq(Edge)
    BY <1>1, <1>4, AppendProperties
  <2> QED BY <1>1, <1>5, <2>1
<1>10. core' \in [N -> Cores] /\ core'[Other(n)] = core[Other(n)] /\ Counting(n)'
  <2>1. CASE Armed(n)
    <3>1. core[n].enabled /\ ~core[n].internal /\ core[n].left > 0
      BY <1>1, <2>1 DEF Armed, Counting
    <3>2. /\ Shift(core[n]) \in Cores /\ ~Shift(core[n]).internal
          /\ Shift(core[n]).enabled => Shift(core[n]).left > 0
      BY <1>1, <3>1, Shifting
    <3>3. core' \in [N -> Cores] /\ core'[Other(n)] = core[Other(n)] /\ core'[n] = Shift(core[n])
      BY <1>1, <1>5, <2>1, <3>2
    <3> QED BY <1>7, <1>8, <3>2, <3>3 DEF Counting, Clocking, Asking
  <2>2. CASE ~Armed(n)
    <3>1. core' = core
      BY <1>5, <2>2
    <3> QED BY <1>1, <1>5, <1>7, <1>8, <3>1 DEF Counting, Clocking, Asking
  <2> QED BY <2>1, <2>2
<1>11. Accounts(n)'
  BY <1>3, <1>4, <1>5, <1>7, <1>8
<1>12. Position(n)' /\ Numbering(n)'
  BY <1>1, <1>3, <1>4, <1>5, <1>7, <1>8, Requests DEF Position, Numbering, Clocking, Asking
<1>13. Shape'
  BY <1>1, <1>3, <1>5, <1>8, <1>9, <1>10 DEF Shape
<1>14. Own(n)' /\ Beside(Other(n))
  BY <1>1, <1>3, <1>5, <1>8, <1>10, <1>11, <1>12 DEF Own, Beside
<1> QED BY <1>13, <1>14, OneEnd

\* The owner goes to another point of its operation.
LEMMA Going ==
  ASSUME Shape, NEW n \in N, NEW pc \in Place, GoTo(n, pc)
  PROVE  /\ owner' \in [N -> Owners] /\ owner'[Other(n)] = owner[Other(n)]
         /\ owner'[n].pc = pc /\ owner'[n].hand = owner[n].hand /\ owner'[n].kind = owner[n].kind
         /\ owner'[n].inframe = owner[n].inframe /\ owner'[n].token = owner[n].token
<1> DEFINE to == [owner[n] EXCEPT !.pc = pc]
<1>1. owner \in [N -> Owners] /\ owner[n] \in Owners /\ Other(n) \in N /\ Other(n) # n
  BY Peers, Parts DEF Shape
<1>2. to \in Owners /\ to.pc = pc /\ to.hand = owner[n].hand /\ to.kind = owner[n].kind
      /\ to.inframe = owner[n].inframe /\ to.token = owner[n].token
  BY <1>1 DEF Owners
<1>3. owner' = [owner EXCEPT ![n] = to]
  BY DEF GoTo
<1> HIDE DEF to
<1> QED BY <1>1, <1>2, <1>3

\* The game starts a byte on its own clock, or waits for the other's.
LEMMA ArmLocal == ASSUME Local, NEW n \in N, ArmMaster(n) \/ ArmSlave(n) PROVE Local'
<1>1. /\ Shape /\ Position(n) /\ Numbering(n) /\ Accounts(n) /\ Other(n) \in N /\ Other(n) # n
      /\ core \in [N -> Cores] /\ owner[n].pc = "frame"
  BY Peers DEF Local, Own, Shape, ArmMaster, ArmSlave, At
<1>2. ByteBits \in 0..ByteBits /\ ByteBits > 0
  BY Constants
<1>3. PICK b \in BOOLEAN :
        /\ core' = [core EXCEPT ![n] = [enabled |-> TRUE, internal |-> b, left |-> ByteBits]]
        /\ b => edge[n].next + ByteBits <= MaxEdges + 1
  BY DEF ArmMaster, ArmSlave
<1> DEFINE to == [enabled |-> TRUE, internal |-> b, left |-> ByteBits]
<1>4. to \in Cores /\ to.enabled /\ to.internal = b /\ to.left = ByteBits
  BY <1>2 DEF Cores
<1> HIDE DEF to
<1>5. core' \in [N -> Cores] /\ core'[n] = to /\ core'[Other(n)] = core[Other(n)]
  BY <1>1, <1>3, <1>4 DEF to
<1>6. /\ owner' = owner /\ edge' = edge /\ inbox' = inbox /\ known' = known /\ worker' = worker
      /\ turn' = turn /\ wire' = wire /\ closed' = closed /\ accused' = accused
      /\ repeats' = repeats /\ got' = got /\ effects' = effects /\ barrier' = barrier
  BY DEF ArmMaster, ArmSlave
<1>7. Counting(n)'
  BY <1>1, <1>2, <1>3, <1>4, <1>5, <1>6 DEF Counting, Clocking, Asking
<1>8. Position(n)' /\ Numbering(n)'
  BY <1>1, <1>6 DEF Position, Numbering
<1>9. Accounts(n)'
  BY <1>1, <1>6, AccountsStand
<1>10. Shape'
  BY <1>1, <1>5, <1>6 DEF Shape
<1>11. Own(n)' /\ Beside(Other(n))
  BY <1>5, <1>6, <1>7, <1>8, <1>9 DEF Own, Beside
<1> QED BY <1>10, <1>11, OneEnd

\* The core clocks a bit: the held response is released before.
LEMMA ClockLocal == ASSUME Local, NEW n \in N, Clock(n) PROVE Local'
<1>1. /\ Shape /\ Position(n) /\ Numbering(n) /\ Counting(n) /\ Accounts(n)
      /\ owner[n].pc = "frame" /\ core[n].enabled /\ core[n].internal
      /\ inbox \in [N -> Inboxes] /\ "settle" \in Place
  BY DEF Local, Own, Shape, Clock, At, Place, Waits
<1>2. /\ owner' \in [N -> Owners] /\ owner'[Other(n)] = owner[Other(n)]
      /\ owner'[n].pc = "settle" /\ owner'[n].hand = owner[n].hand /\ owner'[n].kind = owner[n].kind
      /\ owner'[n].inframe = owner[n].inframe
  BY <1>1, Going DEF Clock
<1>3. /\ edge' = edge /\ known' = known /\ core' = core /\ worker' = worker
      /\ turn' = turn /\ wire' = wire /\ closed' = closed /\ accused' = accused
      /\ repeats' = repeats /\ got' = got /\ effects' = effects /\ barrier' = barrier
  BY DEF Clock
<1>4. /\ inbox' \in [N -> Inboxes] /\ inbox'[Other(n)] = inbox[Other(n)]
      /\ inbox'[n].held = NoRequest /\ Accounts(n)'
  <2>1. CASE inbox[n].held # NoRequest
    <3>1. inbox' = Release(n)
      BY <2>1 DEF Clock
    <3> QED BY <1>2, <1>3, <2>1, <3>1, Releasing
  <2>2. CASE inbox[n].held = NoRequest
    <3>1. inbox' = inbox
      BY <2>2 DEF Clock
    <3> QED BY <1>1, <1>2, <1>3, <2>2, <3>1, AccountsStand
  <2> QED BY <2>1, <2>2
<1>5. Position(n)' /\ Numbering(n)' /\ Counting(n)'
  <2>1. Position(n)'
    BY <1>1, <1>2, <1>3, <1>4 DEF Position, Orderly, Clocking, Asking
  <2>2. Numbering(n)'
    BY <1>1, <1>2, <1>3 DEF Numbering, Clocking, Asking
  <2>3. Counting(n)'
    BY <1>1, <1>2, <1>3 DEF Counting, Clocking, Asking
  <2> QED BY <2>1, <2>2, <2>3
<1>6. Shape'
  BY <1>1, <1>2, <1>3, <1>4 DEF Shape
<1>7. Own(n)' /\ Beside(Other(n))
  BY <1>2, <1>3, <1>4, <1>5 DEF Own, Beside
<1> QED BY <1>6, <1>7, OneEnd

\* An edge is admitted and numbered.
LEMMA AdmitLocal == ASSUME Local, NEW n \in N, Admit(n) PROVE Local'
<1>1. /\ Shape /\ Position(n) /\ Numbering(n) /\ Counting(n) /\ Accounts(n) /\ owner[n].pc = "settle"
      /\ edge \in [N -> Edges] /\ edge[n] \in Edges /\ "reserve" \in Place /\ Other(n) \in N /\ Other(n) # n
      /\ edge[n].next \in 1..(MaxEdges + 1) /\ core[n].left \in 0..ByteBits
  BY Peers, Parts DEF Local, Own, Shape, Admit, At, Place
<1>2. CASE Abort(n)
  BY <1>2, AbortLocal
<1>3. CASE ~Abort(n)
  <2> DEFINE i == edge[n].next
             j == i + 1
             to == [edge[n] EXCEPT !.inflight = i, !.next = j, !.seen = FALSE, !.recip = FALSE]
  <2>1. /\ edge' = [edge EXCEPT ![n] = to] /\ GoTo(n, "reserve")
        /\ inbox' = inbox /\ known' = known /\ core' = core /\ worker' = worker
        /\ turn' = turn /\ wire' = wire /\ closed' = closed /\ accused' = accused
        /\ repeats' = repeats /\ got' = got /\ effects' = effects /\ barrier' = barrier
    BY <1>1, <1>3 DEF Admit
  <2>2. /\ owner' \in [N -> Owners] /\ owner'[Other(n)] = owner[Other(n)]
        /\ owner'[n].pc = "reserve" /\ owner'[n].hand = owner[n].hand /\ owner'[n].kind = owner[n].kind
        /\ owner'[n].inframe = owner[n].inframe
    BY <1>1, <2>1, Going
  <2>3. core[n].enabled /\ core[n].internal /\ core[n].left > 0 /\ i + core[n].left <= MaxEdges + 1
    BY <1>1 DEF Counting, Clocking, Asking
  <2>4. /\ i \in Ids /\ j \in 1..(MaxEdges + 1) /\ i = j - 1 /\ i - 1 = j - 2
        /\ j + core[n].left <= MaxEdges + 2
    <3>1. \A m, b \in Nat : \A x \in 1..(m + 1), l \in 0..b : l > 0 /\ x + l <= m + 1 =>
            /\ x \in 1..m /\ x + 1 \in 1..(m + 1) /\ x = (x + 1) - 1 /\ x - 1 = (x + 1) - 2
            /\ (x + 1) + l <= m + 2
      OBVIOUS
    <3>2. i \in 1..(MaxEdges + 1) /\ MaxEdges \in Nat /\ ByteBits \in Nat
      BY <1>1, Constants
    <3> HIDE DEF i
    <3> QED BY <1>1, <2>3, <3>1, <3>2 DEF Ids
  <2> HIDE DEF i, j
  <2>5. to \in Edges /\ to.inflight = i /\ to.next = j
    BY <1>1, <2>4 DEF Edges
  <2> HIDE DEF to
  <2>6. edge' \in [N -> Edges] /\ edge'[n] = to /\ edge'[Other(n)] = edge[Other(n)]
    BY <1>1, <2>1, <2>5
  <2>7. Position(n)'
    BY <1>1, <2>1, <2>2 DEF Position, Orderly, Clocking, Asking
  <2>8. Numbering(n)'
    <3>1. Len(got[n]) = i - 1
      BY <1>1 DEF Numbering, Asking, i
    <3> QED BY <2>1, <2>2, <2>4, <2>5, <2>6, <3>1 DEF Numbering, Clocking, Asking
  <2>9. Counting(n)'
    BY <1>1, <2>1, <2>2, <2>3, <2>4, <2>5, <2>6 DEF Counting, Clocking, Asking
  <2>10. Accounts(n)'
    BY <1>1, <2>1, <2>2, AccountsStand
  <2>11. Shape'
    BY <1>1, <2>1, <2>2, <2>6 DEF Shape
  <2>12. Own(n)' /\ Beside(Other(n))
    BY <2>1, <2>2, <2>6, <2>7, <2>8, <2>9, <2>10 DEF Own, Beside
  <2> QED BY <2>11, <2>12, OneEnd
<1> QED BY <1>2, <1>3

\* An admitted edge has a number.
LEMMA InFlight ==
  ASSUME Local, NEW n \in N, owner[n].pc \in Asking
  PROVE  /\ edge[n].inflight \in Ids /\ edge[n].inflight = edge[n].next - 1
         /\ Len(got[n]) = edge[n].inflight - 1 /\ Len(got[n]) \in Nat
         /\ edge[n].next = edge[n].inflight + 1
<1>1. /\ Numbering(n) /\ edge[n].next \in 1..(MaxEdges + 1) /\ Len(got[n]) \in Nat
      /\ edge[n].inflight \in Ids \cup {NoId}
  BY Parts, Elements DEF Local, Own
<1>2. edge[n].inflight = edge[n].next - 1 /\ Len(got[n]) = edge[n].next - 2
  BY <1>1 DEF Numbering, Clocking
<1>3. \A m \in Nat : \A x \in 1..(m + 1) : x - 2 \in Nat =>
        x - 1 \in 1..m /\ x - 2 = (x - 1) - 1 /\ x = (x - 1) + 1
  OBVIOUS
<1> QED BY <1>1, <1>2, <1>3, Constants DEF Ids

\* The owner goes on, with what it has in hand.
LEMMA GoesOn ==
  ASSUME Local, NEW n \in N, NEW pc \in Place, GoTo(n, pc), inbox' = inbox, worker' = worker, closed' = closed,
         owner[n].pc \in Clocking, pc \in Clocking \ {"reserve"}, pc = "answer" <=> owner[n].hand # NoRequest /\ pc # "send",
         ~owner[n].hand.completed
  PROVE  Position(n)' /\ Accounts(n)'
<1>1. Shape /\ Position(n) /\ Accounts(n)
  BY DEF Local, Own
<1>2. /\ owner'[n].pc = pc /\ owner'[n].hand = owner[n].hand /\ owner'[n].kind = owner[n].kind
      /\ owner'[n].inframe = owner[n].inframe
  BY <1>1, Going
<1>3. Position(n)'
  BY <1>1, <1>2 DEF Position, Orderly, Clocking, Asking
<1> QED BY <1>1, <1>2, <1>3, AccountsStand

\* The request of the edge is sent.
LEMMA SendReqLocal == ASSUME Local, NEW n \in N, SendReq(n) PROVE Local'
<1> DEFINE pc == IF owner[n].hand = NoRequest THEN "await" ELSE "answer"
<1>1. /\ Shape /\ Position(n) /\ Numbering(n) /\ Counting(n) /\ owner[n].pc = "send"
      /\ pc \in Place /\ pc \in {"await", "answer"}
  BY DEF Local, Own, SendReq, At, Place, Waits
<1>2. /\ owner' \in [N -> Owners] /\ owner'[Other(n)] = owner[Other(n)] /\ owner'[n].pc = pc
  BY <1>1, Going DEF SendReq
<1>3. /\ edge' = edge /\ inbox' = inbox /\ known' = known /\ core' = core /\ worker' = worker
      /\ turn' = turn /\ closed' = closed /\ accused' = accused
      /\ repeats' = repeats /\ got' = got /\ effects' = effects /\ barrier' = barrier
  BY DEF SendReq
<1>4. wire' \in [N -> Seq(Frames)]
  <2>1. edge[n].inflight \in Ids \cup {NoId}
    BY <1>1, Parts
  <2> QED BY <1>1, <2>1, Sending, Sources DEF SendReq
<1>5. Position(n)' /\ Accounts(n)'
  <2>1. ~owner[n].hand.completed
    BY <1>1 DEF Position
  <2>2. GoTo(n, pc)
    BY DEF SendReq
  <2>3. pc = "answer" <=> owner[n].hand # NoRequest /\ pc # "send"
    OBVIOUS
  <2> HIDE DEF pc
  <2> QED BY <1>1, <1>3, <2>1, <2>2, <2>3, GoesOn DEF Clocking, Asking
<1> HIDE DEF pc
<1>6. Numbering(n)' /\ Counting(n)'
  BY <1>1, <1>2, <1>3 DEF Numbering, Counting, Clocking, Asking
<1>7. Shape'
  BY <1>1, <1>2, <1>3, <1>4 DEF Shape
<1>8. Own(n)' /\ Beside(Other(n))
  BY <1>2, <1>3, <1>5, <1>6 DEF Own, Beside
<1> QED BY <1>7, <1>8, OneEnd

\* The answer is taken ...
LEMMA AwaitLocal == ASSUME Local, NEW n \in N, Await(n) PROVE Local'
<1>1. /\ Shape /\ Position(n) /\ Numbering(n) /\ Counting(n) /\ owner[n].pc = "await"
      /\ "clear" \in Place /\ edge \in [N -> Edges] /\ edge[n] \in Edges /\ edge[n].slot # <<>>
      /\ got \in [N -> Seq(Answers)] /\ got[n] \in Seq(Answers) /\ Other(n) \in N /\ Other(n) # n
      /\ owner[n].hand = NoRequest
  BY Peers, Parts DEF Local, Own, Await, At, Place, Shape, Position
<1> DEFINE v == Head(edge[n].slot)
           to == [edge[n] EXCEPT !.slot = <<>>, !.seen = TRUE]
<1>2. v \in Answers
  BY <1>1 DEF Edges
<1>3. /\ owner' \in [N -> Owners] /\ owner'[Other(n)] = owner[Other(n)] /\ owner'[n].pc = "clear"
  BY <1>1, Going DEF Await
<1>4. /\ edge' = [edge EXCEPT ![n] = to] /\ got' = [got EXCEPT ![n] = Append(@, v)]
      /\ inbox' = inbox /\ known' = known /\ core' = core /\ worker' = worker
      /\ turn' = turn /\ wire' = wire /\ closed' = closed /\ accused' = accused
      /\ repeats' = repeats /\ effects' = effects /\ barrier' = barrier
  BY <1>1 DEF Await
<1>5. to \in Edges /\ to.inflight = edge[n].inflight /\ to.next = edge[n].next
  BY <1>1 DEF Edges
<1> HIDE DEF v, to
<1>6. edge' \in [N -> Edges] /\ edge'[n] = to /\ edge'[Other(n)] = edge[Other(n)]
  BY <1>1, <1>4, <1>5
<1>7. /\ got' \in [N -> Seq(Answers)] /\ got'[Other(n)] = got[Other(n)]
      /\ Len(got'[n]) = Len(got[n]) + 1
  BY <1>1, <1>2, <1>4, Appending
<1>8. Position(n)' /\ Accounts(n)'
  <2>1. ~owner[n].hand.completed /\ GoTo(n, "clear")
    BY <1>1, Requests DEF Await
  <2> QED BY <1>1, <1>4, <2>1, GoesOn DEF Clocking, Asking
<1>9. Numbering(n)'
  <2>1. Len(got'[n]) = edge[n].next - 1 /\ edge[n].inflight = edge[n].next - 1
    <3>1. Len(got[n]) = edge[n].inflight - 1 /\ edge[n].inflight = edge[n].next - 1
          /\ edge[n].inflight \in Ids
      BY <1>1, InFlight DEF Asking
    <3>2. \A x \in Ids : (x - 1) + 1 = x
      BY DEF Ids
    <3> QED BY <1>7, <3>1, <3>2
  <2> QED BY <1>3, <1>5, <1>6, <2>1 DEF Numbering, Clocking, Asking
<1>10. Counting(n)'
  BY <1>1, <1>3, <1>4, <1>5, <1>6 DEF Counting, Clocking, Asking
<1>11. Shape'
  BY <1>1, <1>3, <1>4, <1>6, <1>7 DEF Shape
<1>12. Own(n)' /\ Beside(Other(n))
  BY <1>3, <1>4, <1>6, <1>7, <1>8, <1>9, <1>10 DEF Own, Beside
<1> QED BY <1>11, <1>12, OneEnd

\* ... and the bit shifted in.
LEMMA ClearLocal == ASSUME Local, NEW n \in N, Clear(n) PROVE Local'
<1> DEFINE to == [edge[n] EXCEPT !.inflight = NoId, !.seen = FALSE, !.recip = FALSE]
<1>1. /\ Shape /\ Position(n) /\ Numbering(n) /\ Counting(n) /\ Accounts(n) /\ owner[n].pc = "clear"
      /\ "frame" \in Place /\ edge \in [N -> Edges] /\ edge[n] \in Edges
      /\ core \in [N -> Cores] /\ core[n] \in Cores /\ Other(n) \in N /\ Other(n) # n
      /\ edge[n].next \in 1..(MaxEdges + 1) /\ core[n].left \in 0..ByteBits
  BY Peers, Parts DEF Local, Own, Clear, At, Place, Shape
<1>2. /\ core[n].internal /\ core[n].left > 0 /\ edge[n].next + core[n].left <= MaxEdges + 2
      /\ owner[n].hand = NoRequest
  BY <1>1 DEF Counting, Position, Clocking, Asking
<1>3. /\ owner' \in [N -> Owners] /\ owner'[Other(n)] = owner[Other(n)] /\ owner'[n].pc = "frame"
      /\ owner'[n].hand = owner[n].hand /\ owner'[n].kind = owner[n].kind
      /\ owner'[n].inframe = owner[n].inframe
  BY <1>1, Going DEF Clear
<1>4. /\ edge' = [edge EXCEPT ![n] = to] /\ core' = [core EXCEPT ![n] = Shift(core[n])]
      /\ inbox' = inbox /\ known' = known /\ worker' = worker /\ got' = got
      /\ turn' = turn /\ wire' = wire /\ closed' = closed /\ accused' = accused
      /\ repeats' = repeats /\ effects' = effects /\ barrier' = barrier
  BY <1>1 DEF Clear
<1>5. to \in Edges /\ to.inflight = NoId /\ to.next = edge[n].next
  BY <1>1 DEF Edges
<1>6. /\ Shift(core[n]) \in Cores /\ Shift(core[n]).left = core[n].left - 1
      /\ Shift(core[n]).enabled => Shift(core[n]).left > 0
  BY <1>1, <1>2, Shifting
<1> HIDE DEF to
<1>7. /\ edge' \in [N -> Edges] /\ edge'[n] = to /\ edge'[Other(n)] = edge[Other(n)]
      /\ core' \in [N -> Cores] /\ core'[n] = Shift(core[n]) /\ core'[Other(n)] = core[Other(n)]
  BY <1>1, <1>4, <1>5, <1>6
<1>8. Position(n)'
  BY <1>1, <1>2, <1>3, <1>4, Requests DEF Position, Orderly, Clocking, Asking
<1>9. Numbering(n)'
  BY <1>1, <1>3, <1>4, <1>5, <1>7 DEF Numbering, Clocking, Asking
<1>10. Counting(n)'
  <2>1. edge[n].next + Shift(core[n]).left <= MaxEdges + 1
    <3>1. \A m, b \in Nat : \A x \in 1..(m + 1), l \in 0..b : x + l <= m + 2 => x + (l - 1) <= m + 1
      OBVIOUS
    <3> QED BY <1>1, <1>2, <1>6, <3>1, Constants
  <2> QED BY <1>3, <1>5, <1>6, <1>7, <2>1 DEF Counting, Clocking, Asking
<1>11. Accounts(n)'
  BY <1>1, <1>3, <1>4, AccountsStand
<1>12. Shape'
  BY <1>1, <1>3, <1>4, <1>7 DEF Shape
<1>13. Own(n)' /\ Beside(Other(n))
  BY <1>3, <1>4, <1>7, <1>8, <1>9, <1>10, <1>11 DEF Own, Beside
<1> QED BY <1>12, <1>13, OneEnd

\* The history of the answers.
LEMMA RememberedParts ==
  ASSUME Shape, NEW n \in N, NEW r \in Edge
  PROVE  /\ Remembered(n, r) \in [N -> Memory] /\ Remembered(n, r)[Other(n)] = known[Other(n)]
         /\ Remembered(n, r)[n].highest = known[n].highest
         /\ Remembered(n, r)[n].claimed \subseteq known[n].claimed
         /\ \A k \in DOMAIN Remembered(n, r)[n].answered :
              \/ Remembered(n, r)[n].answered[k] = r
              \/ \E j \in DOMAIN known[n].answered : Remembered(n, r)[n].answered[k] = known[n].answered[j]
<1> DEFINE old == known[n].answered
           all == Append(old, r)
           kept == IF Len(all) > History THEN Tail(all) ELSE all
           now == IF r.id \in Answered(n) THEN old ELSE kept
           left == known[n].claimed \ {r.id}
           to == [known[n] EXCEPT !.claimed = left, !.answered = now]
<1>1. /\ known \in [N -> Memory] /\ known[n] \in Memory /\ old \in Seq(Edge)
      /\ Other(n) \in N /\ Other(n) # n /\ known[n].claimed \subseteq Ids
  BY Peers, Parts DEF Shape
<1>2. Remembered(n, r) = [known EXCEPT ![n] = to]
  BY <1>1 DEF Remembered, Memory
<1>3. all \in Seq(Edge) /\ all # <<>> /\ \A k \in DOMAIN all : all[k] = r \/ (k \in DOMAIN old /\ all[k] = old[k])
  BY <1>1, Appending
<1>4. Tail(all) \in Seq(Edge) /\ \A k \in DOMAIN Tail(all) : k + 1 \in DOMAIN all /\ Tail(all)[k] = all[k + 1]
  <2> HIDE DEF all
  <2> QED BY <1>3, Taking
<1> HIDE DEF all
<1>5. now \in Seq(Edge) /\ \A k \in DOMAIN now : now[k] = r \/ \E j \in DOMAIN old : now[k] = old[j]
  <2>1. CASE now = old
    BY <1>1, <2>1
  <2>2. CASE now = all
    BY <1>3, <2>2
  <2>3. CASE now = Tail(all)
    BY <1>3, <1>4, <2>3
  <2> QED BY <2>1, <2>2, <2>3
<1>6. left \subseteq Ids /\ left \subseteq known[n].claimed
  BY <1>1
<1> HIDE DEF now, left
<1>7. to \in Memory /\ to.highest = known[n].highest /\ to.claimed = left /\ to.answered = now
  BY <1>1, <1>5, <1>6 DEF Memory
<1> HIDE DEF to
<1> DEFINE memory == Remembered(n, r)
<1> HIDE DEF memory
<1>8. memory \in [N -> Memory] /\ memory[n] = to /\ memory[Other(n)] = known[Other(n)]
  <2>1. memory = [known EXCEPT ![n] = to]
    BY <1>2 DEF memory
  <2> QED BY <1>1, <1>7, <2>1
<1> QED BY <1>5, <1>6, <1>7, <1>8 DEF memory

LEMMA Remembering ==
  ASSUME Shape, NEW n \in N, NEW r \in Edge, known' = Remembered(n, r)
  PROVE  /\ known' \in [N -> Memory] /\ known'[Other(n)] = known[Other(n)]
         /\ known'[n].highest = known[n].highest /\ known'[n].claimed \subseteq known[n].claimed
         /\ \A k \in DOMAIN known'[n].answered :
              \/ known'[n].answered[k] = r
              \/ \E j \in DOMAIN known[n].answered : known'[n].answered[k] = known[n].answered[j]
BY RememberedParts

\* A peer edge queued before the own one is reserved for it.
LEMMA ReserveLocal == ASSUME Local, NEW n \in N, Reserve(n) PROVE Local'
<1>1. /\ Shape /\ Position(n) /\ Numbering(n) /\ Counting(n) /\ Accounts(n) /\ owner[n].pc = "reserve"
      /\ owner \in [N -> Owners] /\ edge \in [N -> Edges] /\ owner[n] \in Owners /\ edge[n] \in Edges
      /\ Other(n) \in N /\ Other(n) # n /\ effects \in [N -> Seq(Edge)] /\ effects[n] \in Seq(Edge)
      /\ "send" \in Place
  BY Peers, Parts DEF Local, Own, Reserve, At, Shape, Place, Waits
<1>2. owner[n].hand = NoRequest /\ ~owner[n].hand.completed /\ edge[n].inflight \in Ids
      /\ inbox[n].held = NoRequest
  <2>1. owner[n].hand = NoRequest /\ inbox[n].held = NoRequest
    BY <1>1 DEF Position, Clocking, Asking
  <2> QED BY <1>1, <2>1, Requests, InFlight DEF Asking
<1>3. /\ known' = known /\ core' = core /\ worker' = worker
      /\ turn' = turn /\ wire' = wire /\ closed' = closed /\ accused' = accused
      /\ repeats' = repeats /\ got' = got /\ barrier' = barrier
  BY DEF Reserve
<1>4. CASE inbox[n].queue = <<>> \/ edge[n].recip
  <2>1. GoTo(n, "send") /\ inbox' = inbox /\ edge' = edge /\ effects' = effects
    BY <1>4 DEF Reserve
  <2>2. /\ owner' \in [N -> Owners] /\ owner'[Other(n)] = owner[Other(n)] /\ owner'[n].pc = "send"
    BY <1>1, <2>1, Going
  <2>3. Position(n)' /\ Accounts(n)'
    BY <1>1, <1>2, <1>3, <2>1, GoesOn DEF Clocking, Asking
  <2>4. Numbering(n)' /\ Counting(n)'
    BY <1>1, <1>3, <2>1, <2>2 DEF Numbering, Counting, Clocking, Asking
  <2>5. Shape'
    BY <1>1, <1>3, <2>1, <2>2 DEF Shape
  <2>6. Own(n)' /\ Beside(Other(n))
    BY <1>3, <2>1, <2>2, <2>3, <2>4 DEF Own, Beside
  <2> QED BY <2>5, <2>6, OneEnd
<1>5. CASE ~(inbox[n].queue = <<>> \/ edge[n].recip)
  <2> DEFINE r == Request(Head(inbox[n].queue), edge[n].inflight, FALSE)
             to == [owner[n] EXCEPT !.pc = "send", !.hand = r]
             on == [edge[n] EXCEPT !.recip = TRUE]
  <2>1. /\ owner' = [owner EXCEPT ![n] = to] /\ edge' = [edge EXCEPT ![n] = on]
        /\ inbox' = [inbox EXCEPT ![n].queue = Tail(@)]
        /\ effects' = [effects EXCEPT ![n] = Append(@, r)]
    BY <1>1, <1>5 DEF Reserve
  <2>2. /\ inbox' \in [N -> Inboxes] /\ inbox'[Other(n)] = inbox[Other(n)]
        /\ inbox'[n].held = NoRequest /\ inbox'[n].pending = inbox[n].pending
        /\ Head(inbox[n].queue) \in Ids
        /\ ~closed[n] /\ owner'[n].hand \in Edge => Accounts(n)'
    BY <1>2, <1>3, <1>5, <2>1, QueueTaken
  <2>3. r \in Edge /\ ~r.completed
    BY <1>2, <2>2, Requests, Sources
  <2> HIDE DEF r
  <2>4. to \in Owners /\ to.pc = "send" /\ to.hand = r /\ to.kind = owner[n].kind
        /\ to.inframe = owner[n].inframe
    BY <1>1, <2>3, Requests DEF Owners
  <2>5. on \in Edges /\ on.inflight = edge[n].inflight /\ on.next = edge[n].next
    BY <1>1 DEF Edges
  <2> HIDE DEF to, on
  <2>6. /\ owner' \in [N -> Owners] /\ owner'[n] = to /\ owner'[Other(n)] = owner[Other(n)]
        /\ edge' \in [N -> Edges] /\ edge'[n] = on /\ edge'[Other(n)] = edge[Other(n)]
    BY <1>1, <2>1, <2>4, <2>5
  <2>7. effects' \in [N -> Seq(Edge)]
    <3>1. Append(effects[n], r) \in Seq(Edge)
      BY <1>1, <2>3, AppendProperties
    <3> QED BY <1>1, <2>1, <3>1
  <2>8. Accounts(n)'
    <3>1. CASE closed[n]
      BY <1>1, <1>3, <2>2, <3>1 DEF Accounts
    <3>2. CASE ~closed[n]
      BY <2>2, <2>3, <2>4, <2>6, <3>2
    <3> QED BY <3>1, <3>2
  <2>9. Position(n)'
    BY <1>1, <1>3, <2>2, <2>3, <2>4, <2>6 DEF Position, Orderly, Clocking, Asking
  <2>10. Numbering(n)' /\ Counting(n)'
    BY <1>1, <1>3, <2>4, <2>5, <2>6 DEF Numbering, Counting, Clocking, Asking
  <2>11. Shape'
    BY <1>1, <1>3, <2>2, <2>6, <2>7 DEF Shape
  <2>12. Own(n)' /\ Beside(Other(n))
    BY <1>3, <2>2, <2>6, <2>8, <2>9, <2>10 DEF Own, Beside
  <2> QED BY <2>11, <2>12, OneEnd
<1> QED BY <1>4, <1>5

\* A reserved request is answered.
LEMMA AnswerReservedLocal == ASSUME Local, NEW n \in N, AnswerReserved(n) PROVE Local'
<1> DEFINE r == owner[n].hand
           less == Less(inbox[n].pending)
           to == [owner[n] EXCEPT !.pc = "await", !.hand = NoRequest]
           box == [inbox[n] EXCEPT !.pending = less]
<1>1. /\ Shape /\ Position(n) /\ Numbering(n) /\ Counting(n) /\ Accounts(n) /\ owner[n].pc = "answer"
      /\ owner \in [N -> Owners] /\ owner[n] \in Owners /\ inbox \in [N -> Inboxes] /\ inbox[n] \in Inboxes
      /\ Other(n) \in N /\ Other(n) # n /\ r \in Response /\ ~closed[n] /\ WireFree(n)
      /\ inbox[n].pending \in Nat
  BY Peers, Parts DEF Local, Own, AnswerReserved, At, Shape
<1>2. /\ r \in Edge /\ r.id \in Ids /\ r.val \in Answers /\ One(r) = 1
      /\ inbox[n].held = NoRequest
  <2>1. r # NoRequest /\ inbox[n].held = NoRequest
    BY <1>1 DEF Position, Clocking, Asking
  <2> QED BY <1>1, <2>1, Requests
<1>3. /\ edge' = edge /\ core' = core /\ worker' = worker
      /\ turn' = turn /\ closed' = closed /\ accused' = accused
      /\ repeats' = repeats /\ got' = got /\ barrier' = barrier /\ effects' = effects
      /\ owner' = [owner EXCEPT ![n] = to] /\ inbox' = [inbox EXCEPT ![n] = box]
      /\ known' = Remembered(n, r) /\ Send(n, Frame("resp", r.id, r.val))
  BY <1>1 DEF AnswerReserved
<1>4. known' \in [N -> Memory] /\ wire' \in [N -> Seq(Frames)]
  <2> HIDE DEF r
  <2> QED BY <1>1, <1>2, <1>3, Remembering, Sending
<1>5. to \in Owners /\ to.pc = "await" /\ to.hand = NoRequest /\ to.kind = owner[n].kind
      /\ to.inframe = owner[n].inframe
  BY <1>1, Requests DEF Owners, Place, Waits
<1>6. less \in Nat
  BY <1>1 DEF Less
<1> HIDE DEF less
<1>7. /\ box \in Inboxes /\ box.pending = less /\ box.held = NoRequest /\ box.queue = inbox[n].queue
      /\ box.done = inbox[n].done /\ box.owed = inbox[n].owed
  BY <1>1, <1>2, <1>6 DEF Inboxes
<1> HIDE DEF to, box
<1>8. /\ owner' \in [N -> Owners] /\ owner'[n] = to /\ owner'[Other(n)] = owner[Other(n)]
      /\ inbox' \in [N -> Inboxes] /\ inbox'[n] = box /\ inbox'[Other(n)] = inbox[Other(n)]
  BY <1>1, <1>3, <1>5, <1>7
<1>9. Position(n)'
  BY <1>1, <1>5, <1>7, <1>8 DEF Position, Orderly, Clocking, Asking
<1>10. Numbering(n)' /\ Counting(n)'
  BY <1>1, <1>3, <1>5, <1>8 DEF Numbering, Counting, Clocking, Asking
<1>11. Accounts(n)'
  <2> DEFINE q == Len(inbox[n].queue)  d == Len(inbox[n].done)  w == One(worker[n])
             p == inbox[n].pending
  <2>1. One(NoRequest) = 0
    BY Requests
  <2>2. /\ q \in Nat /\ d \in Nat /\ w \in Nat /\ p \in Nat /\ p = q + d + 0 + 1 + w
        /\ inbox[n].owed = Cardinality(Completed(n)) + (IF worker[n].completed THEN 1 ELSE 0)
    BY <1>1, <1>2, <2>1, Counted
  <2>3. less = q + d + 0 + 0 + w
    <3>1. \A x, a, b, c \in Nat : x = a + b + 0 + 1 + c => x > 0 /\ x - 1 = a + b + 0 + 0 + c
      OBVIOUS
    <3>2. p > 0 /\ p - 1 = q + d + 0 + 0 + w
      <4> HIDE DEF p, q, d, w
      <4> QED BY ONLY <2>2, <3>1
    <3> QED BY <3>2 DEF Less, less
  <2>4. /\ Len(inbox'[n].queue) = q /\ Len(inbox'[n].done) = d /\ One(inbox'[n].held) = 0
        /\ One(owner'[n].hand) = 0 /\ One(worker'[n]) = w /\ inbox'[n].pending = less
        /\ inbox'[n].owed = inbox[n].owed /\ Completed(n)' = Completed(n)
    BY <1>3, <1>5, <1>7, <1>8, <2>1 DEF Completed
  <2> HIDE DEF p, q, d, w
  <2> QED BY <1>1, <1>3, <2>2, <2>3, <2>4 DEF Accounts
<1>12. Shape'
  BY <1>1, <1>3, <1>4, <1>8 DEF Shape
<1>13. Own(n)' /\ Beside(Other(n))
  BY <1>3, <1>8, <1>9, <1>10, <1>11 DEF Own, Beside
<1> QED BY <1>12, <1>13, OneEnd

\* The worker takes a response ...
LEMMA WorkerSendLocal == ASSUME Local, NEW n \in N, WorkerSend(n) PROVE Local'
<1> DEFINE r == Head(inbox[n].done)
           rest == Tail(inbox[n].done)
           box == [inbox[n] EXCEPT !.done = rest]
<1>1. /\ Shape /\ Position(n) /\ Numbering(n) /\ Counting(n) /\ Accounts(n)
      /\ inbox \in [N -> Inboxes] /\ inbox[n] \in Inboxes /\ worker \in [N -> Response]
      /\ Other(n) \in N /\ Other(n) # n /\ ~closed[n] /\ worker[n] = NoRequest
      /\ inbox[n].done \in Seq(Edge) /\ inbox[n].done # <<>>
  BY Peers, Parts DEF Local, Own, WorkerSend, WireFree, Shape
<1>2. /\ r \in Edge /\ rest \in Seq(Edge) /\ Len(inbox[n].done) = Len(rest) + 1 /\ Len(rest) \in Nat
      /\ Cardinality(Finished(inbox[n].done)) = Cardinality(Finished(rest)) + (IF r.completed THEN 1 ELSE 0)
      /\ Cardinality(Finished(rest)) \in Nat
  BY <1>1, Taking, Elements, FinishedLess
<1>3. r.id \in Ids /\ r.val \in Answers /\ One(r) = 1 /\ r \in Response
  BY <1>2, Requests
<1>4. /\ edge' = edge /\ core' = core /\ owner' = owner /\ worker' = [worker EXCEPT ![n] = r]
      /\ turn' = turn /\ closed' = closed /\ accused' = accused
      /\ repeats' = repeats /\ got' = got /\ barrier' = barrier /\ effects' = effects
      /\ inbox' = [inbox EXCEPT ![n] = box]
      /\ known' = Remembered(n, r) /\ Send(n, Frame("resp", r.id, r.val))
  BY <1>1 DEF WorkerSend
<1> HIDE DEF r, rest
<1>5. known' \in [N -> Memory] /\ wire' \in [N -> Seq(Frames)]
  BY <1>1, <1>2, <1>3, <1>4, Remembering, Sending
<1>6. /\ box \in Inboxes /\ box.pending = inbox[n].pending /\ box.held = inbox[n].held
      /\ box.queue = inbox[n].queue /\ box.done = rest /\ box.owed = inbox[n].owed
  BY <1>1, <1>2 DEF Inboxes
<1> HIDE DEF box
<1>7. /\ worker' \in [N -> Response] /\ worker'[n] = r /\ worker'[Other(n)] = worker[Other(n)]
      /\ inbox' \in [N -> Inboxes] /\ inbox'[n] = box /\ inbox'[Other(n)] = inbox[Other(n)]
  BY <1>1, <1>3, <1>4, <1>6
<1>8. Position(n)' /\ Numbering(n)' /\ Counting(n)'
  BY <1>1, <1>4, <1>6, <1>7 DEF Position, Numbering, Counting
<1>9. Accounts(n)'
  <2> DEFINE q == Len(inbox[n].queue)  d == Len(rest)  h == One(inbox[n].held)  o == One(owner[n].hand)
             p == inbox[n].pending  c == Cardinality(Finished(rest))
             x == IF r.completed THEN 1 ELSE 0
  <2>1. One(NoRequest) = 0 /\ ~NoRequest.completed
    BY Requests
  <2>2. /\ q \in Nat /\ d \in Nat /\ h \in Nat /\ o \in Nat /\ p = q + (d + 1) + h + o + 0
        /\ c \in Nat /\ x \in Nat /\ inbox[n].owed = (c + x) + 0
    BY <1>1, <1>2, <2>1, Counted DEF Completed
  <2>3. p = q + d + h + o + 1 /\ inbox[n].owed = c + x
    <3>1. \A a, b, e, f \in Nat : a + (b + 1) + e + f + 0 = a + b + e + f + 1 /\ (a + b) + 0 = a + b
      OBVIOUS
    <3> HIDE DEF p, q, d, h, o, c, x
    <3> QED BY ONLY <2>2, <3>1
  <2>4. /\ Len(inbox'[n].queue) = q /\ Len(inbox'[n].done) = d /\ One(inbox'[n].held) = h
        /\ One(owner'[n].hand) = o /\ One(worker'[n]) = 1 /\ inbox'[n].pending = p
        /\ inbox'[n].owed = inbox[n].owed /\ Cardinality(Completed(n)') = c
        /\ (IF worker'[n].completed THEN 1 ELSE 0) = x
    BY <1>3, <1>4, <1>6, <1>7 DEF Completed
  <2> HIDE DEF p, q, d, h, o, c, x
  <2> QED BY <1>1, <1>4, <2>3, <2>4 DEF Accounts
<1>10. Shape'
  BY <1>1, <1>4, <1>5, <1>7 DEF Shape
<1>11. Own(n)' /\ Beside(Other(n))
  BY <1>4, <1>7, <1>8, <1>9 DEF Own, Beside
<1> QED BY <1>10, <1>11, OneEnd

\* ... and settles it when it is written.
LEMMA WorkerSettleLocal == ASSUME Local, NEW n \in N, WorkerSettle(n) PROVE Local'
<1> DEFINE less == Less(inbox[n].pending)
           owed == IF worker[n].completed THEN Less(inbox[n].owed) ELSE inbox[n].owed
           box == [inbox[n] EXCEPT !.pending = less, !.owed = owed]
<1>1. /\ Shape /\ Position(n) /\ Numbering(n) /\ Counting(n) /\ Accounts(n)
      /\ inbox \in [N -> Inboxes] /\ inbox[n] \in Inboxes /\ worker \in [N -> Response]
      /\ Other(n) \in N /\ Other(n) # n /\ worker[n] # NoRequest /\ worker[n] \in Response
      /\ inbox[n].pending \in Nat /\ inbox[n].owed \in Nat /\ NoRequest \in Response
  BY Peers, Parts, Requests DEF Local, Own, WorkerSettle, WireFree, Shape
<1>2. One(worker[n]) = 1 /\ worker[n].completed \in BOOLEAN
  BY <1>1, Requests
<1>3. /\ edge' = edge /\ core' = core /\ owner' = owner /\ worker' = [worker EXCEPT ![n] = NoRequest]
      /\ turn' = turn /\ closed' = closed /\ accused' = accused /\ known' = known /\ wire' = wire
      /\ repeats' = repeats /\ got' = got /\ barrier' = barrier /\ effects' = effects
      /\ inbox' = [inbox EXCEPT ![n] = box]
  BY <1>1 DEF WorkerSettle
<1>4. less \in Nat /\ owed \in Nat
  BY <1>1 DEF Less
<1> HIDE DEF less, owed
<1>5. /\ box \in Inboxes /\ box.pending = less /\ box.held = inbox[n].held
      /\ box.queue = inbox[n].queue /\ box.done = inbox[n].done /\ box.owed = owed
  BY <1>1, <1>4 DEF Inboxes
<1> HIDE DEF box
<1>6. /\ worker' \in [N -> Response] /\ worker'[n] = NoRequest /\ worker'[Other(n)] = worker[Other(n)]
      /\ inbox' \in [N -> Inboxes] /\ inbox'[n] = box /\ inbox'[Other(n)] = inbox[Other(n)]
  BY <1>1, <1>3, <1>5
<1>7. Position(n)' /\ Numbering(n)' /\ Counting(n)'
  BY <1>1, <1>3, <1>5, <1>6 DEF Position, Numbering, Counting
<1>8. Accounts(n)'
  <2>1. CASE closed[n]
    <3>1. inbox[n].pending = 0 /\ inbox[n].held = NoRequest /\ less = 0
      BY <1>1, <2>1 DEF Accounts, less, Less
    <3> QED BY <1>3, <1>5, <1>6, <2>1, <3>1 DEF Accounts
  <2>2. CASE ~closed[n]
    <3> DEFINE q == Len(inbox[n].queue)  d == Len(inbox[n].done)  h == One(inbox[n].held)
               o == One(owner[n].hand)  p == inbox[n].pending  c == Cardinality(Completed(n))
               x == IF worker[n].completed THEN 1 ELSE 0
    <3>1. One(NoRequest) = 0 /\ ~NoRequest.completed
      BY Requests
    <3>2. /\ q \in Nat /\ d \in Nat /\ h \in Nat /\ o \in Nat /\ p \in Nat /\ p = q + d + h + o + 1
          /\ c \in Nat /\ inbox[n].owed = c + x
      BY <1>1, <1>2, <2>2, Counted
    <3>3. less = q + d + h + o + 0
      <4>1. \A y, a, b, e, f \in Nat : y = a + b + e + f + 1 => y > 0 /\ y - 1 = a + b + e + f + 0
        OBVIOUS
      <4>2. p > 0 /\ p - 1 = q + d + h + o + 0
        <5> HIDE DEF p, q, d, h, o, c, x
        <5> QED BY ONLY <3>2, <4>1
      <4> QED BY <4>2 DEF Less, less
    <3>4. owed = c + 0
      <4>1. \A a \in Nat : a + 1 > 0 /\ (a + 1) - 1 = a + 0
        OBVIOUS
      <4>2. CASE worker[n].completed
        <5>1. inbox[n].owed = c + 1 /\ owed = Less(c + 1)
          BY <3>2, <4>2 DEF owed
        <5> HIDE DEF c
        <5> QED BY ONLY <3>2, <4>1, <5>1 DEF Less
      <4>3. CASE ~worker[n].completed
        BY <3>2, <4>3 DEF owed
      <4> QED BY <4>2, <4>3
    <3>5. /\ Len(inbox'[n].queue) = q /\ Len(inbox'[n].done) = d /\ One(inbox'[n].held) = h
          /\ One(owner'[n].hand) = o /\ One(worker'[n]) = 0 /\ inbox'[n].pending = less
          /\ inbox'[n].owed = owed /\ Cardinality(Completed(n)') = c
          /\ (IF worker'[n].completed THEN 1 ELSE 0) = 0
      BY <1>3, <1>5, <1>6, <3>1 DEF Completed
    <3> HIDE DEF p, q, d, h, o, c, x
    <3> QED BY <1>3, <2>2, <3>3, <3>4, <3>5 DEF Accounts
  <2> QED BY <2>1, <2>2
<1>9. Shape'
  BY <1>1, <1>3, <1>6 DEF Shape
<1>10. Own(n)' /\ Beside(Other(n))
  BY <1>3, <1>6, <1>7, <1>8 DEF Own, Beside
<1> QED BY <1>9, <1>10, OneEnd

\* A step of the reader that leaves the accounts alone.
LEMMA BesideAccounts ==
  ASSUME Local, NEW n \in N, Shape', owner' = owner, inbox' = inbox, core' = core, worker' = worker,
         got' = got, closed' = closed, edge'[Other(n)] = edge[Other(n)],
         edge'[n].inflight = edge[n].inflight, edge'[n].next = edge[n].next
  PROVE  Local'
<1>1. Position(n) /\ Numbering(n) /\ Counting(n) /\ Accounts(n)
  BY DEF Local, Own
<1>2. Position(n)' /\ Numbering(n)' /\ Counting(n)'
  BY <1>1 DEF Position, Numbering, Counting
<1>3. Accounts(n)'
  BY <1>1, AccountsStand
<1> QED BY <1>2, <1>3, OneEnd DEF Own, Beside

\* The request in front is answered from the history ...
LEMMA ReplayLocal == ASSUME Local, NEW n \in N, Replay(n) PROVE Local'
<1> DEFINE k == CHOOSE k \in DOMAIN known[n].answered : known[n].answered[k].id = Front(n)
           v == known[n].answered[k].val
<1>1. /\ Shape /\ wire[n] # <<>> /\ known[n].answered \in Seq(Edge) /\ Front(n) \in Answered(n)
  BY Parts DEF Local, Replay, Requested, Reads
<1>2. k \in DOMAIN known[n].answered /\ known[n].answered[k] \in Edge
  <2>1. \E j \in DOMAIN known[n].answered : known[n].answered[j].id = Front(n)
    BY <1>1 DEF Answered
  <2>2. k \in DOMAIN known[n].answered
    BY <2>1
  <2> QED BY <1>1, <2>2, Elements
<1>3. v \in Answers /\ Front(n) \in Ids \cup {NoId}
  <2>1. v \in Answers
    BY <1>2, Requests
  <2>2. Head(wire[n]) \in Frames
    BY <1>1, Reading
  <2> QED BY <2>1, <2>2 DEF Front, Frames
<1>4. Answer(n, Frame("resp", Front(n), v))
  BY DEF Replay
<1> HIDE DEF v
<1>5. wire' \in [N -> Seq(Frames)]
  BY <1>1, <1>3, <1>4, Replying
<1>6. Shape'
  BY <1>1, <1>5 DEF Shape, Replay
<1> QED BY <1>6, BesideAccounts DEF Replay

\* ... or with the edge in flight ...
LEMMA ReciprocateLocal == ASSUME Local, NEW n \in N, Reciprocate(n) PROVE Local'
<1> DEFINE r == Request(Front(n), edge[n].inflight, FALSE)
           on == [edge[n] EXCEPT !.recip = TRUE]
           memory == [Remembered(n, r)[n] EXCEPT !.highest = Front(n)]
<1>1. /\ Shape /\ wire[n] # <<>> /\ edge \in [N -> Edges] /\ edge[n] \in Edges
      /\ effects \in [N -> Seq(Edge)] /\ effects[n] \in Seq(Edge) /\ Other(n) \in N /\ Other(n) # n
      /\ edge[n].inflight \in Ids /\ Head(wire[n]) \in Frames /\ Front(n) > known[n].highest
      /\ known[n].highest \in Ids \cup {NoId}
  <2>1. edge[n].inflight \in Ids \cup {NoId} /\ edge[n].inflight # NoId
    BY Parts DEF Local, Reciprocate, Crossing
  <2> QED BY <2>1, Peers, Parts, Reading DEF Local, Shape, Reciprocate, Requested, Reads, New
<1>2. Front(n) \in Ids
  <2>1. Front(n) \in Ids \cup {NoId}
    BY <1>1 DEF Front, Frames
  <2>2. ~(NoId > known[n].highest)
    BY <1>1, Constants DEF Ids, NoId
  <2> QED BY <1>1, <2>1, <2>2
<1>3. r \in Edge /\ r.id = Front(n) /\ r.val = edge[n].inflight
  <2>1. Front(n) \in Ids /\ edge[n].inflight \in Answers /\ FALSE \in BOOLEAN
    BY <1>1, <1>2, Sources
  <2>2. \A i \in Ids, v \in Answers, c \in BOOLEAN :
          Request(i, v, c) \in Edge /\ Request(i, v, c).id = i /\ Request(i, v, c).val = v
    BY Requests
  <2> QED BY ONLY <2>1, <2>2
<1>4. r.val \in Answers
  BY <1>1, <1>3, Sources
<1>5. /\ edge' = [edge EXCEPT ![n] = on] /\ effects' = [effects EXCEPT ![n] = Append(@, r)]
      /\ known' = [Remembered(n, r) EXCEPT ![n].highest = Front(n)]
      /\ Answer(n, Frame("resp", r.id, r.val))
      /\ owner' = owner /\ inbox' = inbox /\ core' = core /\ worker' = worker /\ turn' = turn
      /\ closed' = closed /\ accused' = accused /\ repeats' = repeats /\ got' = got
      /\ barrier' = barrier
  BY <1>1 DEF Reciprocate
<1> HIDE DEF r
<1>6. wire' \in [N -> Seq(Frames)]
  BY <1>1, <1>2, <1>3, <1>4, <1>5, Replying
<1>7. on \in Edges /\ on.inflight = edge[n].inflight /\ on.next = edge[n].next
  BY <1>1 DEF Edges
<1>8. edge' \in [N -> Edges] /\ edge'[n] = on /\ edge'[Other(n)] = edge[Other(n)]
  <2> HIDE DEF on
  <2> QED BY <1>1, <1>5, <1>7
<1>9. effects' \in [N -> Seq(Edge)]
  <2>1. Append(effects[n], r) \in Seq(Edge)
    BY <1>1, <1>3, AppendProperties
  <2> QED BY <1>1, <1>5, <2>1
<1>10. known' \in [N -> Memory]
  <2>1. Remembered(n, r) \in [N -> Memory]
    BY <1>1, <1>3, RememberedParts
  <2>2. memory \in Memory
    <3>1. Remembered(n, r)[n] \in Memory
      BY <2>1
    <3> QED BY <1>2, <3>1 DEF Memory
  <2> QED BY <1>5, <2>1, <2>2
<1>11. Shape'
  BY <1>1, <1>5, <1>6, <1>8, <1>9, <1>10 DEF Shape
<1> QED BY <1>5, <1>7, <1>8, <1>11, BesideAccounts

\* ... or queued for the owner.
LEMMA EnqueueLocal == ASSUME Local, NEW n \in N, Enqueue(n) PROVE Local'
<1> DEFINE i == Front(n)
           more == inbox[n].pending + 1
           queue == Append(inbox[n].queue, i)
           box == [inbox[n] EXCEPT !.queue = queue, !.pending = more]
           claims == known[n].claimed \cup {i}
           memory == [known[n] EXCEPT !.claimed = claims, !.highest = i]
<1>1. /\ Shape /\ wire[n] # <<>> /\ inbox \in [N -> Inboxes] /\ inbox[n] \in Inboxes
      /\ known \in [N -> Memory] /\ known[n] \in Memory /\ Other(n) \in N /\ Other(n) # n
      /\ Head(wire[n]) \in Frames /\ Front(n) > known[n].highest /\ ~closed[n]
      /\ known[n].highest \in Ids \cup {NoId} /\ known[n].claimed \subseteq Ids
      /\ inbox[n].queue \in Seq(Ids) /\ inbox[n].pending \in Nat
      /\ Position(n) /\ Numbering(n) /\ Counting(n) /\ Accounts(n)
  BY Peers, Parts, Reading DEF Local, Own, Shape, Enqueue, Requested, Reads, New
<1>2. i \in Ids
  <2>1. Front(n) \in Ids \cup {NoId}
    BY <1>1 DEF Front, Frames
  <2>2. ~(NoId > known[n].highest)
    BY <1>1, Constants DEF Ids, NoId
  <2> QED BY <1>1, <2>1, <2>2
<1>3. /\ edge' = edge /\ effects' = effects
      /\ owner' = owner /\ core' = core /\ worker' = worker /\ turn' = turn
      /\ closed' = closed /\ accused' = accused /\ repeats' = repeats /\ got' = got
      /\ barrier' = barrier /\ Received(n)
      /\ inbox' = [inbox EXCEPT ![n] = box] /\ known' = [known EXCEPT ![n] = memory]
  BY <1>1 DEF Enqueue, Claim
<1>4. wire' \in [N -> Seq(Frames)]
  BY <1>1, <1>3, Reading
<1>5. queue \in Seq(Ids) /\ Len(queue) = Len(inbox[n].queue) + 1 /\ more \in Nat /\ claims \subseteq Ids
  BY <1>1, <1>2, AppendProperties
<1> HIDE DEF queue, claims, i
<1>6. memory \in Memory
  BY <1>1, <1>2, <1>5 DEF Memory
<1>7. /\ box \in Inboxes /\ box.pending = more /\ box.held = inbox[n].held
      /\ box.queue = queue /\ box.done = inbox[n].done /\ box.owed = inbox[n].owed
  <2> HIDE DEF more
  <2> QED BY <1>1, <1>5 DEF Inboxes
<1> HIDE DEF box, memory
<1>8. /\ inbox' \in [N -> Inboxes] /\ inbox'[n] = box /\ inbox'[Other(n)] = inbox[Other(n)]
      /\ known' \in [N -> Memory]
  BY <1>1, <1>3, <1>6, <1>7
<1>9. Position(n)' /\ Numbering(n)' /\ Counting(n)'
  BY <1>1, <1>3, <1>7, <1>8 DEF Position, Numbering, Counting
<1>10. Accounts(n)'
  <2> DEFINE q == Len(inbox[n].queue)  d == Len(inbox[n].done)  h == One(inbox[n].held)
             o == One(owner[n].hand)  w == One(worker[n])  p == inbox[n].pending
  <2>1. /\ q \in Nat /\ d \in Nat /\ h \in Nat /\ o \in Nat /\ w \in Nat /\ p = q + d + h + o + w
        /\ inbox[n].owed = Cardinality(Completed(n)) + (IF worker[n].completed THEN 1 ELSE 0)
    BY <1>1, Counted
  <2>2. p + 1 = (q + 1) + d + h + o + w
    <3>1. \A a, b, c, e, f \in Nat : (a + b + c + e + f) + 1 = (a + 1) + b + c + e + f
      OBVIOUS
    <3> HIDE DEF p, q, d, h, o, w
    <3> QED BY ONLY <2>1, <3>1
  <2>3. /\ Len(inbox'[n].queue) = q + 1 /\ Len(inbox'[n].done) = d /\ One(inbox'[n].held) = h
        /\ One(owner'[n].hand) = o /\ One(worker'[n]) = w /\ inbox'[n].pending = p + 1
        /\ inbox'[n].owed = inbox[n].owed /\ Completed(n)' = Completed(n)
    BY <1>3, <1>5, <1>7, <1>8 DEF Completed
  <2> HIDE DEF p, q, d, h, o, w
  <2> QED BY <1>1, <1>3, <2>1, <2>2, <2>3 DEF Accounts
<1>11. Shape'
  BY <1>1, <1>3, <1>4, <1>8 DEF Shape
<1>12. Own(n)' /\ Beside(Other(n))
  BY <1>3, <1>8, <1>9, <1>10 DEF Own, Beside
<1> QED BY <1>11, <1>12, OneEnd

\* An answer arrives.
LEMMA ReadRespLocal == ASSUME Local, NEW n \in N, ReadResp(n) PROVE Local'
<1>1. CASE Accuse(n)
  BY <1>1, EndsLocal
<1>2. CASE ~Accuse(n)
  <2> DEFINE v == Head(wire[n]).val
             to == [edge[n] EXCEPT !.slot = <<v>>, !.seen = TRUE]
  <2>1. /\ Shape /\ wire[n] # <<>> /\ Head(wire[n]) \in Frames /\ edge \in [N -> Edges] /\ edge[n] \in Edges
        /\ Other(n) \in N /\ Other(n) # n
    BY Peers, Parts, Reading DEF Local, ReadResp, Reads, Shape
  <2>2. /\ edge' = [edge EXCEPT ![n] = to] /\ Received(n)
        /\ owner' = owner /\ inbox' = inbox /\ known' = known /\ core' = core /\ worker' = worker
        /\ turn' = turn /\ closed' = closed /\ accused' = accused /\ repeats' = repeats
        /\ got' = got /\ effects' = effects /\ barrier' = barrier
    BY <1>2, <2>1 DEF ReadResp
  <2>3. v \in Answers
    BY <2>1 DEF Frames
  <2> HIDE DEF v
  <2>4. to \in Edges /\ to.inflight = edge[n].inflight /\ to.next = edge[n].next
    BY <2>1, <2>3 DEF Edges
  <2> HIDE DEF to
  <2>5. edge' \in [N -> Edges] /\ edge'[n] = to /\ edge'[Other(n)] = edge[Other(n)]
    BY <2>1, <2>2, <2>4
  <2>6. Shape'
    BY <2>1, <2>2, <2>5, Reading DEF Shape
  <2> QED BY <2>2, <2>4, <2>5, <2>6, BesideAccounts
<1> QED BY <1>1, <1>2

\* A signal of the barrier arrives.
LEMMA ReadTurnLocal == ASSUME Local, NEW n \in N, ReadTurn(n) PROVE Local'
<1>1. PICK op \in {"tick", "done", "ack"} :
        /\ Reads(n, op)
        /\ \/ Accuse(n)
           \/ /\ turn' = [turn EXCEPT ![n][op] = TRUE]
              /\ Received(n)
              /\ UNCHANGED <<barrier, owner, edge, inbox, known, core, worker, closed, accused, repeats, got, effects>>
  BY DEF ReadTurn
<1>2. CASE Accuse(n)
  BY <1>2, EndsLocal
<1>3. CASE ~Accuse(n)
  <2>1. Shape /\ wire[n] # <<>>
    BY <1>1 DEF Local, Reads
  <2>2. turn' \in [N -> Signals] /\ wire' \in [N -> Seq(Frames)]
    <3>1. [turn EXCEPT ![n][op] = TRUE] \in [N -> Signals]
      BY <1>1, <2>1, Signalling
    <3>2. Received(n) /\ turn' = [turn EXCEPT ![n][op] = TRUE]
      BY <1>1, <1>3
    <3> QED BY <2>1, <3>1, <3>2, Reading
  <2>3. Shape'
    BY <1>1, <1>3, <2>1, <2>2 DEF Shape
  <2> QED BY <1>1, <1>3, <2>3, BesideAccounts
<1> QED BY <1>2, <1>3

\* A request is repeated.
LEMMA RepeatLocal == ASSUME Local, NEW n \in N, Repeat(n) PROVE Local'
<1>1. Shape /\ edge[n].next \in 1..(MaxEdges + 1) /\ repeats \in 0..MaxRepeats /\ repeats < MaxRepeats
  BY Parts DEF Local, Repeat, Shape
<1>2. PICK i \in 1..(edge[n].next - 1) : Send(n, Frame("req", i, Idle))
  BY DEF Repeat
<1>3. i \in Ids
  BY <1>1, <1>2, Constants DEF Ids
<1>4. wire' \in [N -> Seq(Frames)]
  BY <1>1, <1>2, <1>3, Sending, Sources
<1>5. repeats' \in 0..MaxRepeats
  BY <1>1, Constants DEF Repeat
<1>6. Shape'
  BY <1>1, <1>4, <1>5 DEF Shape, Repeat
<1> QED BY <1>6, BesideAccounts DEF Repeat

\* Every step keeps the accounts of both ends.
LEMMA NextLocal == ASSUME Local, [Next]_vars PROVE Local'
<1>1. ASSUME NEW n \in N, OwnerStep(n) PROVE Local'
  <2>1. CASE BeginTurn(n) \/ PumpDone(n) \/ FinishFrame(n) \/ FinishTurn(n) \/ Progress(n) \/ Check(n)
    BY <2>1, BeginTurnLocal, PumpDoneLocal, FinishFrameLocal, FinishTurnLocal, ProgressLocal, CheckLocal
  <2>2. CASE OwnerStops(n) \/ Serve(n) \/ Defer(n) \/ Publish(n) \/ ArmMaster(n) \/ ArmSlave(n)
    BY <2>2, EndsLocal, ServeLocal, DeferLocal, PublishLocal, ArmLocal
  <2>3. CASE Clock(n) \/ Admit(n) \/ Reserve(n) \/ SendReq(n) \/ AnswerReserved(n) \/ Await(n) \/ Clear(n)
    BY <2>3, ClockLocal, AdmitLocal, ReserveLocal, SendReqLocal, AnswerReservedLocal, AwaitLocal, ClearLocal
  <2> QED BY <1>1, <2>1, <2>2, <2>3 DEF OwnerStep
<1>2. ASSUME NEW n \in N, WorkerStep(n) PROVE Local'
  BY <1>2, WorkerSendLocal, WorkerSettleLocal DEF WorkerStep
<1>3. ASSUME NEW n \in N, ReaderStep(n) PROVE Local'
  BY <1>3, ReplayLocal, EndsLocal, ReciprocateLocal, EnqueueLocal, ReadRespLocal, ReadTurnLocal DEF ReaderStep
<1>4. ASSUME NEW n \in N, Expire(n) \/ Repeat(n) \/ Stop(n) PROVE Local'
  BY <1>4, EndsLocal, RepeatLocal
<1>5. CASE UNCHANGED vars
  BY ZenonT(60), <1>5 DEF vars, Local, Shape, Own, Position, Numbering, Counting, Accounts, Completed
<1>6. CASE Ended
  BY <1>5, <1>6 DEF Ended
<1> QED BY <1>1, <1>2, <1>3, <1>4, <1>5, <1>6 DEF Next

\* Local is what Accounted says, and more.
LEMMA LocalAccounted == Local => Accounted
<1> SUFFICES ASSUME Local PROVE Accounted
  OBVIOUS
<1>1. Response \subseteq Reqs
  BY Requests DEF Response, Edge, Reqs, NoRequest, Answers
<1>2. TypeOK
  <2>1. /\ barrier \in BOOLEAN /\ accused \in BOOLEAN /\ repeats \in 0..MaxRepeats
        /\ closed \in [N -> BOOLEAN]
    BY DEF Local, Shape
  <2>2. ASSUME NEW n \in N
        PROVE  /\ owner[n] \in [pc : Waits \cup {"pump", "publish", "frame", "reserve", "clear", "down"},
                     kind : {"main", "after", "extra", "loop"}, inframe : BOOLEAN,
                     token : Ids \cup {NoId}, hand : Reqs, before : BOOLEAN, applied : BOOLEAN]
               /\ edge[n].inflight \in Ids \cup {NoId} /\ edge[n].next \in 1..(MaxEdges + 1)
               /\ Len(edge[n].slot) <= 1
               /\ inbox[n].queue \in Seq(Ids) /\ inbox[n].held \in Reqs /\ worker[n] \in Reqs
               /\ core[n].left \in 0..ByteBits
    <3>1. /\ owner[n] \in Owners /\ edge[n] \in Edges /\ inbox[n].held \in Response /\ worker[n] \in Response
          /\ edge[n].inflight \in Ids \cup {NoId} /\ edge[n].next \in 1..(MaxEdges + 1)
          /\ inbox[n].queue \in Seq(Ids) /\ core[n].left \in 0..ByteBits
      BY Parts DEF Local
    <3>2. Len(edge[n].slot) <= 1
      <4>1. edge[n].slot = <<>> \/ \E v \in Answers : edge[n].slot = <<v>>
        BY <3>1 DEF Edges
      <4>2. Len(<<>>) = 0 /\ \A v \in Answers : Len(<<v>>) = 1
        BY EmptySeq
      <4>3. CASE edge[n].slot = <<>>
        BY <4>2, <4>3
      <4>4. CASE edge[n].slot # <<>>
        <5>1. PICK v \in Answers : edge[n].slot = <<v>>
          BY <4>1, <4>4
        <5>2. Len(edge[n].slot) = 1
          BY <4>2, <5>1
        <5> QED BY <5>2
      <4> QED BY <4>3, <4>4
    <3>3. owner[n] \in [pc : Waits \cup {"pump", "publish", "frame", "reserve", "clear", "down"},
                     kind : {"main", "after", "extra", "loop"}, inframe : BOOLEAN,
                     token : Ids \cup {NoId}, hand : Reqs, before : BOOLEAN, applied : BOOLEAN]
      BY <1>1, <3>1 DEF Owners, Place
    <3> QED BY <1>1, <3>1, <3>2, <3>3
  <2> QED BY <2>1, <2>2 DEF TypeOK
<1>3. \A n \in N : Accounts(n)
  BY DEF Local, Own
<1> QED BY <1>2, <1>3 DEF Accounted, Accounts, Completed, Finished

\* At every end, at every moment, the pending count that ends a turn is the number of admitted
\* edges whose response is not written, and the owed count the number of completed bytes among
\* them: of whatever interleaving of owner, reader and worker, and after any close.
THEOREM PendingIsCounted == Spec => []Accounted
<1>1. Init => Local
  BY InitLocal
<1>2. Local /\ [Next]_vars => Local'
  BY NextLocal
<1>3. Local => Accounted
  BY LocalAccounted
<1> QED BY <1>1, <1>2, <1>3, PTL DEF Spec

-----------------------------------------------------------------------------
(* What an end has made of the edges of the other *)

\* Both ends keep their own accounts and those of the edges between them.
Linked == Local /\ \A m \in N : Peered(m)

\* An end takes no edge on, and whatever it holds is the answer to one it took.
Serving(m) ==
  /\ effects'[m] = effects[m]
  /\ known'[m].highest = known[m].highest /\ known'[m].claimed \subseteq known[m].claimed
  /\ inbox'[m].queue = inbox[m].queue \/ inbox'[m].queue = <<>>
  /\ Recorded(m)'

\* An end takes no answer.
Calling(m) ==
  /\ edge'[m].next >= edge[m].next /\ got'[m] = got[m]
  /\ owner'[m].pc \in Asking =>
       \/ edge'[m].slot = <<>>
       \/ owner[m].pc \in Asking /\ edge'[m].slot = edge[m].slot /\ edge'[m].inflight = edge[m].inflight

\* What is on the wire to the end m was sent by the rules.
LegalReqs(m) == \A k \in DOMAIN wire'[m] : wire'[m][k].op = "req" =>
                  wire'[m][k].id \in Ids /\ wire'[m][k].id < edge[Other(m)].next
LegalResps(m) == \A k \in DOMAIN wire'[m] : wire'[m][k].op = "resp" =>
                   Answering(Other(m), wire'[m][k].id, wire'[m][k].val)
Legal(m) == LegalReqs(m) /\ LegalResps(m)

\* Then what is between the ends stands.
LEMMA EffectiveStands ==
  ASSUME Shape, Shape', NEW m \in N, Effective(m), Serving(m),
         edge'[Other(m)].next >= edge[Other(m)].next, LegalReqs(m)
  PROVE  Effective(m)'
<1> DEFINE o == Other(m)
<1>1. /\ effects'[m] = effects[m] /\ known'[m].highest = known[m].highest
      /\ known'[m].claimed \subseteq known[m].claimed
      /\ inbox'[m].queue = inbox[m].queue \/ inbox'[m].queue = <<>>
  BY DEF Serving
<1>2. o \in N /\ edge[o].next \in 1..(MaxEdges + 1) /\ known[m].highest \in Ids \cup {NoId}
  BY Peers, Parts
<1>3. edge'[o].next \in 1..(MaxEdges + 1)
  <2>1. edge' \in [N -> Edges]
    BY DEF Shape
  <2> QED BY <1>2, <2>1 DEF Edges
<1>4. \A i \in Nat : i < edge[o].next => i < edge'[o].next
  BY <1>2, <1>3, Constants
<1>5. known[m].highest \in Nat /\ Ids \subseteq Nat
  BY <1>2, Constants DEF Ids, NoId
<1>6. Len(inbox'[m].queue) <= 1
  <2>1. Len(<<>>) = 0
    BY EmptySeq
  <2>2. CASE inbox'[m].queue = inbox[m].queue
    BY <2>2 DEF Effective
  <2>3. CASE inbox'[m].queue = <<>>
    BY <2>1, <2>3
  <2> QED BY <1>1, <2>2, <2>3
<1>7. \A k \in DOMAIN inbox'[m].queue :
        /\ inbox'[m].queue[k] = known[m].highest
        /\ \A i \in DOMAIN effects[m] : effects[m][i].id < known[m].highest
  <2>1. DOMAIN <<>> = {}
    OBVIOUS
  <2>2. CASE inbox'[m].queue = inbox[m].queue
    BY <2>2 DEF Effective
  <2>3. CASE inbox'[m].queue = <<>>
    BY <2>1, <2>3
  <2> QED BY <1>1, <2>2, <2>3
<1>8. known[m].highest < edge'[o].next
  BY <1>4, <1>5 DEF Effective
<1>9. \A k \in DOMAIN wire'[m] : wire'[m][k].op = "req" =>
        wire'[m][k].id \in Ids /\ wire'[m][k].id < edge'[o].next
  BY <1>4, <1>5 DEF LegalReqs
<1>10. /\ \A i, j \in DOMAIN effects[m] : i < j => effects[m][i].id < effects[m][j].id
       /\ \A k \in DOMAIN effects[m] : effects[m][k].id <= known[m].highest
       /\ known[m].claimed \subseteq 1..known[m].highest
  BY DEF Effective
<1> QED BY <1>1, <1>6, <1>7, <1>8, <1>9, <1>10 DEF Effective

LEMMA ReturnedStands ==
  ASSUME NEW m \in N, Returned(m), effects'[m] = effects[m], Calling(Other(m)), LegalResps(Other(m))
  PROVE  Returned(m)'
<1> DEFINE o == Other(m)
<1>1. o \in N /\ Other(o) = m
  BY Peers
<1>2. \A k \in DOMAIN wire'[o] : wire'[o][k].op = "resp" => Answering(m, wire'[o][k].id, wire'[o][k].val)
  BY <1>1 DEF LegalResps
<1>3. \A k \in DOMAIN got'[o] : Answering(m, k, got'[o][k])
  BY DEF Calling, Returned
<1>4. owner'[o].pc \in Asking => \A k \in DOMAIN edge'[o].slot :
        Answering(m, edge'[o].inflight, edge'[o].slot[k])
  <2> SUFFICES ASSUME owner'[o].pc \in Asking, NEW k \in DOMAIN edge'[o].slot
               PROVE  Answering(m, edge'[o].inflight, edge'[o].slot[k])
    OBVIOUS
  <2>1. CASE edge'[o].slot = <<>>
    <3>1. DOMAIN <<>> = {}
      OBVIOUS
    <3> QED BY <2>1, <3>1
  <2>2. CASE owner[o].pc \in Asking /\ edge'[o].slot = edge[o].slot /\ edge'[o].inflight = edge[o].inflight
    BY <2>2 DEF Returned
  <2> QED BY <2>1, <2>2 DEF Calling
<1> QED BY <1>2, <1>3, <1>4 DEF Returned, Answering

\* What an end does not touch stands for it.
LEMMA Untouched ==
  ASSUME Shape, NEW m \in N, Recorded(m), Beside(m), known'[m] = known[m], effects'[m] = effects[m]
  PROVE  Serving(m) /\ Calling(m)
<1>1. Recorded(m)'
  BY DEF Beside, Recorded, Effect
<1>2. edge'[m].next >= edge[m].next
  BY Parts, Constants DEF Beside
<1> QED BY <1>1, <1>2 DEF Beside, Serving, Calling

\* So it is enough to look at what the end that takes a step does.
LEMMA OneActor ==
  ASSUME Linked, Local', NEW n \in N, Serving(n), Calling(n), Legal(n), Legal(Other(n)),
         Beside(Other(n)), known'[Other(n)] = known[Other(n)], effects'[Other(n)] = effects[Other(n)]
  PROVE  Linked'
<1> DEFINE o == Other(n)
<1>1. o \in N /\ Other(o) = n /\ \A m \in N : m = n \/ m = o
  BY Peers
<1>2. Shape /\ Shape' /\ (\A m \in N : Effective(m) /\ Recorded(m) /\ Returned(m))
  BY DEF Linked, Peered, Local
<1>3. Serving(o) /\ Calling(o)
  BY <1>1, <1>2, Untouched
<1>4. ASSUME NEW m \in N PROVE Peered(m)'
  <2>1. Serving(m) /\ Calling(Other(m)) /\ Legal(m) /\ Legal(Other(m))
    BY <1>1, <1>3
  <2>2. Effective(m)'
    BY <1>2, <2>1, EffectiveStands DEF Calling, Legal
  <2>3. Returned(m)'
    BY <1>2, <2>1, ReturnedStands DEF Serving, Legal
  <2> QED BY <2>1, <2>2, <2>3 DEF Peered, Serving
<1> QED BY <1>4 DEF Linked

\* Frames that stay are legal as they were ...
LEMMA FramesKept ==
  ASSUME Linked, NEW m \in N,
         \A k \in DOMAIN wire'[m] : \E j \in DOMAIN wire[m] : wire'[m][k] = wire[m][j]
  PROVE  Legal(m)
<1>1. Other(m) \in N /\ Other(Other(m)) = m
  BY Peers
<1>2. LegalReqs(m)
  BY DEF Linked, Peered, Effective, LegalReqs
<1>3. LegalResps(m)
  BY <1>1 DEF Linked, Peered, Returned, LegalResps
<1> QED BY <1>2, <1>3 DEF Legal

\* ... and one more, if it obeys the rules.
LEMMA FrameAdded ==
  ASSUME Linked, NEW m \in N, NEW op \in {"tick", "done", "ack", "req", "resp"},
         NEW i \in Ids \cup {NoId}, NEW v \in Answers, wire'[m] = Append(wire[m], Frame(op, i, v)),
         op = "req" => i \in Ids /\ i < edge[Other(m)].next,
         op = "resp" => Answering(Other(m), i, v)
  PROVE  Legal(m)
<1>1. Other(m) \in N /\ Other(Other(m)) = m /\ wire[m] \in Seq(Frames)
  BY Peers, Parts DEF Linked, Local
<1>2. /\ Frame(op, i, v) \in Frames
      /\ Frame(op, i, v).op = op /\ Frame(op, i, v).id = i /\ Frame(op, i, v).val = v
  BY DEF Frame, Frames
<1> DEFINE f == Frame(op, i, v)
<1> HIDE DEF f
<1>3. \A k \in DOMAIN wire'[m] : wire'[m][k] = f \/ (k \in DOMAIN wire[m] /\ wire'[m][k] = wire[m][k])
  BY <1>1, <1>2, Appending DEF f
<1>4. f.op = op /\ f.id = i /\ f.val = v
  BY <1>2 DEF f
<1>5. LegalReqs(m)
  <2>1. \A k \in DOMAIN wire[m] : wire[m][k].op = "req" =>
          wire[m][k].id \in Ids /\ wire[m][k].id < edge[Other(m)].next
    BY DEF Linked, Peered, Effective
  <2> QED BY <1>3, <1>4, <2>1 DEF LegalReqs
<1>6. LegalResps(m)
  <2>1. \A k \in DOMAIN wire[m] : wire[m][k].op = "resp" =>
          Answering(Other(m), wire[m][k].id, wire[m][k].val)
    BY <1>1 DEF Linked, Peered, Returned
  <2> QED BY <1>3, <1>4, <2>1 DEF LegalResps
<1> QED BY <1>5, <1>6 DEF Legal

LEMMA SameLegal == ASSUME Linked, wire' = wire, NEW m \in N PROVE Legal(m)
BY FramesKept

LEMMA SentLegal ==
  ASSUME Linked, NEW n \in N, NEW op \in {"tick", "done", "ack", "req", "resp"},
         NEW i \in Ids \cup {NoId}, NEW v \in Answers, Send(n, Frame(op, i, v)),
         op = "req" => i \in Ids /\ i < edge[n].next,
         op = "resp" => Answering(n, i, v)
  PROVE  Legal(n) /\ Legal(Other(n))
<1>1. /\ wire'[n] = wire[n]
      /\ wire'[Other(n)] = IF closed[Other(n)] THEN wire[Other(n)]
                           ELSE Append(wire[Other(n)], Frame(op, i, v))
      /\ Other(n) \in N /\ Other(Other(n)) = n
  BY Peers, Sending DEF Linked, Local
<1>2. Legal(n)
  BY <1>1, FramesKept
<1>3. CASE closed[Other(n)]
  BY <1>1, <1>2, <1>3, FramesKept
<1>4. CASE ~closed[Other(n)]
  <2>1. wire'[Other(n)] = Append(wire[Other(n)], Frame(op, i, v))
    BY <1>1, <1>4
  <2>2. op = "req" => i \in Ids /\ i < edge[Other(Other(n))].next
    BY <1>1
  <2>3. op = "resp" => Answering(Other(Other(n)), i, v)
    BY <1>1
  <2>4. Legal(Other(n))
    BY <1>1, <2>1, <2>2, <2>3, FrameAdded
  <2> QED BY <1>2, <2>4
<1> QED BY <1>3, <1>4

LEMMA ReadLegal ==
  ASSUME Linked, NEW n \in N, wire[n] # <<>>, wire'[n] = Tail(wire[n])
  PROVE  Legal(n)
<1>1. wire[n] \in Seq(Frames)
  BY Parts DEF Linked, Local
<1>2. \A k \in DOMAIN Tail(wire[n]) : k + 1 \in DOMAIN wire[n] /\ Tail(wire[n])[k] = wire[n][k + 1]
  BY <1>1, Taking
<1> QED BY <1>2, FramesKept

LEMMA ReceivedLegal ==
  ASSUME Linked, NEW n \in N, wire[n] # <<>>, Received(n)
  PROVE  Legal(n) /\ Legal(Other(n))
<1>1. wire'[n] = Tail(wire[n]) /\ wire'[Other(n)] = wire[Other(n)] /\ Other(n) \in N
  BY Peers, Reading DEF Linked, Local
<1> QED BY <1>1, ReadLegal, FramesKept

LEMMA AnswerLegal ==
  ASSUME Linked, NEW n \in N, NEW i \in Ids \cup {NoId}, NEW v \in Answers, wire[n] # <<>>,
         Answer(n, Frame("resp", i, v)), Answering(n, i, v)
  PROVE  Legal(n) /\ Legal(Other(n))
<1>1. /\ wire'[n] = Tail(wire[n]) /\ Other(n) \in N /\ Other(Other(n)) = n
      /\ wire'[Other(n)] = IF closed[Other(n)] THEN wire[Other(n)]
                           ELSE Append(wire[Other(n)], Frame("resp", i, v))
  BY Peers, Replying DEF Linked, Local
<1>2. Legal(n)
  BY <1>1, ReadLegal
<1>3. CASE closed[Other(n)]
  BY <1>1, <1>2, <1>3, FramesKept
<1>4. CASE ~closed[Other(n)]
  <2>1. wire'[Other(n)] = Append(wire[Other(n)], Frame("resp", i, v))
    BY <1>1, <1>4
  <2>2. Answering(Other(Other(n)), i, v)
    BY <1>1
  <2>3. Legal(Other(n))
    BY <1>1, <2>1, <2>2, FrameAdded
  <2> QED BY <1>2, <2>3
<1> QED BY <1>3, <1>4

LEMMA ClosedLegal ==
  ASSUME Linked, NEW n \in N, wire' = [wire EXCEPT ![n] = <<>>]
  PROVE  Legal(n) /\ Legal(Other(n))
<1>1. wire'[n] = <<>> /\ wire'[Other(n)] = wire[Other(n)] /\ Other(n) \in N
  BY Peers DEF Linked, Local, Shape
<1>2. DOMAIN <<>> = {}
  OBVIOUS
<1> QED BY <1>1, <1>2, FramesKept

\* What an end holds moves from the hand to the queue of the worker and on.
LEMMA RecordedStands ==
  ASSUME NEW n \in N, Recorded(n), effects'[n] = effects[n],
         owner'[n].hand \in {owner[n].hand, NoRequest},
         inbox'[n].held \in {inbox[n].held, owner[n].hand, NoRequest},
         \A k \in DOMAIN inbox'[n].done :
           \/ \E j \in DOMAIN inbox[n].done : inbox'[n].done[k] = inbox[n].done[j]
           \/ inbox'[n].done[k] \in {inbox[n].held, owner[n].hand} \ {NoRequest},
         \A k \in DOMAIN known'[n].answered :
           \/ \E j \in DOMAIN known[n].answered : known'[n].answered[k] = known[n].answered[j]
           \/ Effect(n, known'[n].answered[k])
  PROVE  Recorded(n)'
<1>1. owner'[n].hand # NoRequest => Effect(n, owner'[n].hand)
  BY DEF Recorded
<1>2. inbox'[n].held # NoRequest => Effect(n, inbox'[n].held)
  BY DEF Recorded
<1>3. \A k \in DOMAIN inbox'[n].done : Effect(n, inbox'[n].done[k])
  BY DEF Recorded
<1>4. \A k \in DOMAIN known'[n].answered : Effect(n, known'[n].answered[k])
  BY DEF Recorded
<1> QED BY <1>1, <1>2, <1>3, <1>4 DEF Recorded, Effect

\* The owner of an end goes on, and nothing that it holds moves.
LEMMA OwnerPasses ==
  ASSUME Linked, Local', NEW n \in N, edge' = edge, inbox' = inbox, known' = known, worker' = worker,
         closed' = closed, got' = got, effects' = effects, core'[Other(n)] = core[Other(n)],
         owner'[Other(n)] = owner[Other(n)], owner'[n].hand \in {owner[n].hand, NoRequest},
         owner'[n].pc \in Asking => owner[n].pc \in Asking,
         Legal(n), Legal(Other(n))
  PROVE  Linked'
<1>1. Recorded(n) /\ Other(n) \in N /\ edge[n].next \in Nat
  BY Peers, Parts, Constants DEF Linked, Local, Peered
<1>2. Recorded(n)'
  BY <1>1, RecordedStands
<1>3. Serving(n) /\ Calling(n)
  BY <1>1, <1>2 DEF Serving, Calling
<1>4. Beside(Other(n))
  BY DEF Beside
<1> QED BY <1>3, <1>4, OneActor

\* Frames, their barrier, the game and the request of an edge.
LEMMA BeginTurnLinked == ASSUME Linked, NEW n \in N, BeginTurn(n) PROVE Linked'
<1>1. Local' /\ Shape /\ owner[n] \in Owners /\ owner \in [N -> Owners] /\ Other(n) # n /\ Other(n) \in N
  BY BeginTurnLocal, Peers, Parts DEF Linked, Local, Shape
<1>2. Legal(n) /\ Legal(Other(n))
  <2>1. CASE Send(n, Frame("tick", NoId, Idle))
    BY <2>1, SentLegal, Sources
  <2>2. CASE wire' = wire
    BY <1>1, <2>2, SameLegal
  <2> QED BY <2>1, <2>2 DEF BeginTurn
<1>3. /\ owner'[n].hand = owner[n].hand /\ owner'[n].pc = "pump"
      /\ owner'[Other(n)] = owner[Other(n)]
  BY <1>1 DEF BeginTurn, Owners
<1> QED BY <1>1, <1>2, <1>3, OwnerPasses DEF BeginTurn, Asking

LEMMA PumpDoneLinked == ASSUME Linked, NEW n \in N, PumpDone(n) PROVE Linked'
<1> DEFINE to == ServiceEnds(n, owner[n], inbox[n])
<1>1. /\ Local /\ Local' /\ Shape /\ Position(n) /\ owner[n] \in Owners /\ inbox[n] \in Inboxes
      /\ owner[n].pc = "pump" /\ owner \in [N -> Owners] /\ Other(n) # n /\ Other(n) \in N
  BY PumpDoneLocal, Peers, Parts DEF Linked, Local, Own, PumpDone, At, Shape
<1>2. owner[n].kind # "extra" /\ ~owner[n].inframe
  BY <1>1 DEF Position, Orderly
<1>3. to.hand = NoRequest /\ to.pc \in {"frame", "turn", "finish", "loop", "check"}
  BY <1>1, <1>2, ServiceReturns
<1>4. owner' = [owner EXCEPT ![n] = to]
  BY DEF PumpDone
<1> HIDE DEF to
<1>5. owner'[n] = to /\ owner'[Other(n)] = owner[Other(n)]
  BY <1>1, <1>4
<1>6. Legal(n) /\ Legal(Other(n))
  BY <1>1, SameLegal DEF PumpDone
<1> QED BY <1>1, <1>3, <1>5, <1>6, OwnerPasses DEF PumpDone, Asking

LEMMA FinishTurnLinked == ASSUME Linked, NEW n \in N, FinishTurn(n) PROVE Linked'
<1>1. Local' /\ Shape /\ "loop" \in Place /\ Other(n) \in N
  BY FinishTurnLocal, Peers DEF Linked, Local, Place, Waits
<1>2. Legal(n) /\ Legal(Other(n))
  BY SentLegal, Sources DEF FinishTurn
<1>3. owner'[n].hand = owner[n].hand /\ owner'[n].pc = "loop" /\ owner'[Other(n)] = owner[Other(n)]
  BY <1>1, Going DEF FinishTurn
<1> QED BY <1>1, <1>2, <1>3, OwnerPasses DEF FinishTurn, Asking

LEMMA ProgressLinked == ASSUME Linked, NEW n \in N, Progress(n) PROVE Linked'
<1>1. Local' /\ Shape /\ owner[n] \in Owners /\ owner \in [N -> Owners] /\ Other(n) # n /\ Other(n) \in N
  BY ProgressLocal, Peers, Parts DEF Linked, Local, Shape
<1>2. Legal(n) /\ Legal(Other(n))
  BY <1>1, SameLegal DEF Progress
<1>3. owner'[n].hand = owner[n].hand /\ owner'[n].pc = "pump" /\ owner'[Other(n)] = owner[Other(n)]
  <2> DEFINE some == inbox[n].pending > 0
  <2>1. owner' = [owner EXCEPT ![n].pc = "pump", ![n].kind = "loop", ![n].applied = FALSE,
                               ![n].before = some]
    BY DEF Progress
  <2> HIDE DEF some
  <2> QED BY <1>1, <2>1 DEF Owners
<1> QED BY <1>1, <1>2, <1>3, OwnerPasses DEF Progress, Asking

LEMMA CheckLinked == ASSUME Linked, NEW n \in N, Check(n) PROVE Linked'
<1>1. Local' /\ Shape /\ "loop" \in Place /\ "turn" \in Place /\ Other(n) \in N
  BY CheckLocal, Peers DEF Linked, Local, Place, Waits
<1>2. Legal(n) /\ Legal(Other(n))
  <2>1. CASE Send(n, Frame("ack", NoId, Idle))
    BY <2>1, SentLegal, Sources
  <2>2. CASE wire' = wire
    BY <1>1, <2>2, SameLegal
  <2> QED BY <2>1, <2>2 DEF Check
<1>3. GoTo(n, "loop") \/ GoTo(n, "turn")
  BY DEF Check
<1>4. owner'[n].hand = owner[n].hand /\ owner'[n].pc \in {"loop", "turn"} /\ owner'[Other(n)] = owner[Other(n)]
  BY <1>1, <1>3, Going
<1> QED BY <1>1, <1>2, <1>4, OwnerPasses DEF Check, Asking

LEMMA ArmLinked == ASSUME Linked, NEW n \in N, ArmMaster(n) \/ ArmSlave(n) PROVE Linked'
<1>1. Local' /\ core \in [N -> Cores] /\ Other(n) \in N /\ Other(n) # n
  BY ArmLocal, Peers DEF Linked, Local, Shape
<1>2. Legal(n) /\ Legal(Other(n))
  BY <1>1, SameLegal DEF ArmMaster, ArmSlave
<1>3. core'[Other(n)] = core[Other(n)] /\ owner' = owner
  BY <1>1 DEF ArmMaster, ArmSlave
<1> QED BY <1>1, <1>2, <1>3, OwnerPasses DEF ArmMaster, ArmSlave

LEMMA SendReqLinked == ASSUME Linked, NEW n \in N, SendReq(n) PROVE Linked'
<1>1. /\ Local /\ Local' /\ Shape /\ "await" \in Place /\ "answer" \in Place /\ Other(n) \in N
      /\ owner[n].pc = "send"
  BY SendReqLocal, Peers DEF Linked, Local, Place, Waits, SendReq, At
<1>2. edge[n].inflight \in Ids /\ edge[n].inflight < edge[n].next
  <2>1. edge[n].inflight \in Ids /\ edge[n].next = edge[n].inflight + 1
    BY <1>1, InFlight DEF Asking
  <2>2. \A i \in Ids : i < i + 1
    BY Constants DEF Ids
  <2> QED BY <2>1, <2>2
<1>3. Legal(n) /\ Legal(Other(n))
  BY <1>2, SentLegal, Sources DEF SendReq
<1>4. GoTo(n, "await") \/ GoTo(n, "answer")
  BY DEF SendReq
<1>5. owner'[n].hand = owner[n].hand /\ owner'[Other(n)] = owner[Other(n)]
  BY <1>1, <1>4, Going
<1> QED BY <1>1, <1>3, <1>5, OwnerPasses DEF SendReq, Asking

\* The owner goes on, and what it holds moves towards the wire.
LEMMA HoldingPasses ==
  ASSUME Linked, Local', NEW n \in N, effects' = effects, known' = known, got' = got, wire' = wire,
         Beside(Other(n)), Recorded(n)',
         inbox'[n].queue = inbox[n].queue \/ inbox'[n].queue = <<>>,
         edge' = edge, owner'[n].pc \in Asking => owner[n].pc \in Asking
  PROVE  Linked'
<1>1. Other(n) \in N /\ edge[n].next \in Nat
  BY Peers, Parts, Constants DEF Linked, Local
<1>2. Serving(n) /\ Calling(n)
  BY <1>1 DEF Serving, Calling
<1>3. Legal(n) /\ Legal(Other(n))
  BY <1>1, SameLegal
<1> QED BY <1>2, <1>3, OneActor

\* The response that is released is one that was held.
LEMMA ReleaseRecorded ==
  ASSUME Linked, NEW n \in N, inbox[n].held # NoRequest, inbox' = Release(n),
         effects' = effects, known' = known, owner'[n].hand \in {owner[n].hand, NoRequest}
  PROVE  Recorded(n)' /\ inbox'[n].queue = inbox[n].queue /\ inbox'[Other(n)] = inbox[Other(n)]
<1>1. /\ inbox'[n].held = NoRequest /\ inbox'[n].done = Append(inbox[n].done, inbox[n].held)
      /\ inbox'[n].queue = inbox[n].queue /\ inbox'[Other(n)] = inbox[Other(n)]
      /\ inbox[n].done \in Seq(Edge) /\ inbox[n].held \in Edge /\ Recorded(n)
  <2>1. inbox[n].held \in Response /\ inbox[n].done \in Seq(Edge) /\ Recorded(n) /\ Local
    BY Parts DEF Linked, Local, Peered
  <2> QED BY <2>1, Releasing, Requests
<1>2. \A k \in DOMAIN inbox'[n].done :
        \/ \E j \in DOMAIN inbox[n].done : inbox'[n].done[k] = inbox[n].done[j]
        \/ inbox'[n].done[k] \in {inbox[n].held, owner[n].hand} \ {NoRequest}
  BY <1>1, Appending
<1> QED BY <1>1, <1>2, RecordedStands

LEMMA FinishFrameLinked == ASSUME Linked, NEW n \in N, FinishFrame(n) PROVE Linked'
<1>1. /\ Local' /\ Shape /\ owner \in [N -> Owners] /\ owner[n] \in Owners /\ Other(n) \in N /\ Other(n) # n
      /\ Recorded(n)
  BY FinishFrameLocal, Peers, Parts DEF Linked, Local, Shape, Peered
<1>2. /\ owner'[n].hand = owner[n].hand /\ owner'[Other(n)] = owner[Other(n)]
      /\ owner'[n].pc \notin Asking
  <2> DEFINE pc == CASE owner[n].kind = "main" -> "pump"
                     [] owner[n].kind = "extra" -> FrameOver(n)
                     [] owner[n].kind = "loop" -> "check"
  <2>1. owner' = [owner EXCEPT ![n].token = NoId, ![n].pc = pc, ![n].kind = IF @ = "main" THEN "after" ELSE @]
    BY DEF FinishFrame
  <2>2. pc \in {"pump", "check", "turn", "finish", "loop"}
    <3>1. FrameOver(n) \in {"turn", "finish", "loop"}
      BY <1>1 DEF FrameOver, Shape
    <3>2. owner[n].kind \in {"main", "extra", "loop"}
      <4>1. owner[n].kind \in {"main", "after", "extra", "loop"} /\ Position(n) /\ owner[n].pc = "frame"
        BY <1>1 DEF Owners, Linked, Local, Own, FinishFrame, At
      <4> QED BY <4>1 DEF Position, Orderly
    <3> QED BY <3>1, <3>2
  <2> HIDE DEF pc
  <2>3. owner'[n].hand = owner[n].hand /\ owner'[Other(n)] = owner[Other(n)] /\ owner'[n].pc = pc
    BY <1>1, <2>1 DEF Owners
  <2> QED BY <2>2, <2>3 DEF Asking
<1>3. CASE owner[n].token # NoId /\ inbox[n].held.id = owner[n].token
  <2>1. inbox[n].held # NoRequest
    BY <1>3 DEF NoRequest
  <2>2. inbox' = Release(n)
    BY <1>3 DEF FinishFrame
  <2>3. Recorded(n)' /\ inbox'[n].queue = inbox[n].queue /\ inbox'[Other(n)] = inbox[Other(n)]
    BY <1>2, <2>1, <2>2, ReleaseRecorded DEF FinishFrame
  <2> QED BY <1>1, <1>2, <2>3, HoldingPasses DEF FinishFrame, Beside
<1>4. CASE ~(owner[n].token # NoId /\ inbox[n].held.id = owner[n].token)
  <2>1. inbox' = inbox
    BY <1>4 DEF FinishFrame
  <2>2. Recorded(n)'
    BY <1>1, <1>2, <2>1 DEF FinishFrame, Recorded, Effect
  <2> QED BY <1>1, <1>2, <2>1, <2>2, HoldingPasses DEF FinishFrame, Beside
<1> QED BY <1>3, <1>4

LEMMA ClockLinked == ASSUME Linked, NEW n \in N, Clock(n) PROVE Linked'
<1>1. Local' /\ Shape /\ Other(n) \in N /\ "settle" \in Place /\ Recorded(n)
  BY ClockLocal, Peers DEF Linked, Local, Place, Waits, Peered
<1>2. owner'[n].hand = owner[n].hand /\ owner'[Other(n)] = owner[Other(n)] /\ owner'[n].pc \notin Asking
  BY <1>1, Going DEF Clock, Asking
<1>3. CASE inbox[n].held # NoRequest
  <2>1. inbox' = Release(n)
    BY <1>3 DEF Clock
  <2>2. Recorded(n)' /\ inbox'[n].queue = inbox[n].queue /\ inbox'[Other(n)] = inbox[Other(n)]
    BY <1>2, <1>3, <2>1, ReleaseRecorded DEF Clock
  <2> QED BY <1>1, <1>2, <2>2, HoldingPasses DEF Clock, Beside
<1>4. CASE inbox[n].held = NoRequest
  <2>1. inbox' = inbox
    BY <1>4 DEF Clock
  <2>2. Recorded(n)'
    BY <1>1, <1>2, <2>1 DEF Clock, Recorded, Effect
  <2> QED BY <1>1, <1>2, <2>1, <2>2, HoldingPasses DEF Clock, Beside
<1> QED BY <1>3, <1>4

\* A queue of one is empty when its request is taken.
LEMMA QueueOfOne ==
  ASSUME Linked, NEW n \in N, inbox[n].queue # <<>>
  PROVE  Tail(inbox[n].queue) = <<>> /\ Head(inbox[n].queue) = known[n].highest
         /\ \A i \in DOMAIN effects[n] : effects[n][i].id < known[n].highest
<1>1. inbox[n].queue \in Seq(Ids) /\ Len(inbox[n].queue) <= 1 /\ Effective(n)
  BY Parts DEF Linked, Local, Peered, Effective
<1>2. /\ 1 \in DOMAIN inbox[n].queue /\ Head(inbox[n].queue) = inbox[n].queue[1]
      /\ Tail(inbox[n].queue) \in Seq(Ids) /\ Len(inbox[n].queue) = Len(Tail(inbox[n].queue)) + 1
      /\ Len(Tail(inbox[n].queue)) \in Nat
  BY <1>1, Elements, Taking
<1>3. \A a \in Nat : a + 1 <= 1 => a = 0
  OBVIOUS
<1>4. Len(Tail(inbox[n].queue)) = 0
  BY <1>1, <1>2, <1>3
<1>5. Tail(inbox[n].queue) = <<>>
  BY <1>2, <1>4, Elements
<1> QED BY <1>1, <1>2, <1>5 DEF Effective

LEMMA DeferLinked == ASSUME Linked, NEW n \in N, Defer(n) PROVE Linked'
<1> DEFINE to == ServiceEnds(n, owner[n], inbox[n])
<1>1. /\ Local /\ Local' /\ Shape /\ Position(n) /\ owner[n] \in Owners /\ inbox[n] \in Inboxes
      /\ owner[n].pc = "pump" /\ owner \in [N -> Owners] /\ inbox \in [N -> Inboxes]
      /\ Other(n) # n /\ Other(n) \in N /\ Recorded(n) /\ inbox[n].queue # <<>>
  BY DeferLocal, Peers, Parts DEF Linked, Local, Own, Defer, At, Shape, Peered
<1>2. owner[n].kind # "extra" /\ ~owner[n].inframe
  BY <1>1 DEF Position, Orderly
<1>3. to.hand = NoRequest /\ to.pc \in {"frame", "turn", "finish", "loop", "check"}
  BY <1>1, <1>2, ServiceReturns
<1>4. owner' = [owner EXCEPT ![n] = to]
  BY DEF Defer
<1> HIDE DEF to
<1>5. owner'[n] = to /\ owner'[Other(n)] = owner[Other(n)]
  BY <1>1, <1>4
<1>6. /\ inbox'[n].held = inbox[n].held /\ inbox'[n].done = inbox[n].done
      /\ inbox'[Other(n)] = inbox[Other(n)]
      /\ inbox'[n].queue = inbox[n].queue \/ inbox'[n].queue = <<>>
  <2>1. CASE closed[n]
    <3> DEFINE rest == Tail(inbox[n].queue)  less == Less(inbox[n].pending)
    <3>1. inbox' = [inbox EXCEPT ![n].queue = rest, ![n].pending = less]
      BY <1>1, <2>1 DEF Defer, Inboxes
    <3>2. rest = <<>>
      BY <1>1, QueueOfOne
    <3> HIDE DEF rest, less
    <3> QED BY <1>1, <3>1, <3>2 DEF Inboxes
  <2>2. CASE ~closed[n]
    BY <2>2 DEF Defer
  <2> QED BY <2>1, <2>2
<1>7. Recorded(n)'
  BY <1>1, <1>3, <1>5, <1>6 DEF Defer, Recorded, Effect
<1> QED BY <1>1, <1>3, <1>5, <1>6, <1>7, HoldingPasses DEF Defer, Beside, Asking

LEMMA PublishLinked == ASSUME Linked, NEW n \in N, Publish(n) PROVE Linked'
<1> DEFINE rec == [owner[n] EXCEPT !.applied = ~closed[n]]
           box == Published(n)
           r == owner[n].hand
           again == [rec EXCEPT !.pc = "pump", !.hand = NoRequest]
           ends == ServiceEnds(n, rec, box)
<1>1. /\ Local /\ Local' /\ Shape /\ Position(n) /\ owner[n] \in Owners /\ owner[n].pc = "publish"
      /\ Other(n) \in N /\ Other(n) # n /\ owner \in [N -> Owners] /\ inbox[n] \in Inboxes
      /\ inbox \in [N -> Inboxes] /\ r \in Response /\ inbox[n].done \in Seq(Edge)
      /\ closed[n] \in BOOLEAN /\ Recorded(n) /\ inbox' = [inbox EXCEPT ![n] = box]
  BY PublishLocal, Peers, Parts DEF Linked, Local, Own, Publish, At, Shape, Peered
<1>2. r \in Edge /\ r # NoRequest
  BY <1>1, Requests DEF Position
<1>3. /\ box.queue = inbox[n].queue /\ box.held \in {inbox[n].held, r} /\ box \in Inboxes
      /\ box.done = inbox[n].done \/ box.done = Append(inbox[n].done, r)
  <2>1. CASE closed[n]
    <3> DEFINE less == Less(inbox[n].pending)
    <3>1. box = [inbox[n] EXCEPT !.pending = less]
      BY <2>1 DEF Published
    <3>2. less \in Nat
      BY <1>1 DEF Inboxes, Less
    <3> HIDE DEF box, r, less
    <3> QED BY <1>1, <3>1, <3>2 DEF Inboxes
  <2>2. CASE ~closed[n] /\ r.completed
    <3>1. box = [inbox[n] EXCEPT !.held = r]
      BY <2>2 DEF Published
    <3> HIDE DEF r, box
    <3> QED BY <1>1, <2>2, <3>1 DEF Inboxes
  <2>3. CASE ~closed[n] /\ ~r.completed
    <3> DEFINE more == Append(inbox[n].done, r)
    <3>1. box = [inbox[n] EXCEPT !.done = more]
      BY <1>1, <2>3 DEF Published, Inboxes
    <3>2. more \in Seq(Edge)
      BY <1>1, <1>2, AppendProperties
    <3>3. box.queue = inbox[n].queue /\ box.held = inbox[n].held /\ box.done = more /\ box \in Inboxes
      <4> HIDE DEF more, box
      <4> QED BY <1>1, <3>1, <3>2 DEF Inboxes
    <3> HIDE DEF box, r
    <3> QED BY <3>3
  <2> QED BY <1>1, <2>1, <2>2, <2>3
<1>4. owner' = [owner EXCEPT ![n] = ends] \/ owner' = [owner EXCEPT ![n] = again]
  BY DEF Publish
<1>5. ends.hand = NoRequest /\ ends.pc \in {"frame", "turn", "finish", "loop", "check"}
  <2>1. rec \in Owners /\ rec.kind = owner[n].kind /\ rec.inframe = owner[n].inframe
    BY <1>1 DEF Owners
  <2>2. (rec.inframe => rec.kind # "after") /\ (~rec.inframe => rec.kind # "extra")
    BY <1>1, <2>1 DEF Position, Orderly
  <2> HIDE DEF rec, box
  <2> QED BY <1>1, <1>3, <2>1, <2>2, ServiceReturns
<1>6. again.hand = NoRequest /\ again.pc = "pump"
  BY <1>1 DEF Owners
<1> HIDE DEF again, ends, box
<1>7. owner'[n].hand = NoRequest /\ owner'[n].pc \notin Asking /\ owner'[Other(n)] = owner[Other(n)]
  BY <1>1, <1>4, <1>5, <1>6 DEF Asking
<1>8. inbox'[n] = box /\ inbox'[Other(n)] = inbox[Other(n)]
  BY <1>1
<1>9. Recorded(n)'
  <2>1. \A k \in DOMAIN inbox'[n].done :
          \/ \E j \in DOMAIN inbox[n].done : inbox'[n].done[k] = inbox[n].done[j]
          \/ inbox'[n].done[k] \in {inbox[n].held, r} \ {NoRequest}
    <3>1. CASE box.done = inbox[n].done
      BY <1>8, <3>1
    <3>2. CASE box.done = Append(inbox[n].done, r)
      <4> HIDE DEF r
      <4> QED BY <1>1, <1>2, <1>8, <3>2, Appending
    <3> QED BY <1>3, <3>1, <3>2
  <2>2. inbox'[n].held \in {inbox[n].held, owner[n].hand, NoRequest}
    BY <1>3, <1>8
  <2>3. known' = known /\ effects' = effects
    BY DEF Publish
  <2> QED BY <1>1, <1>7, <2>1, <2>2, <2>3, RecordedStands
<1> QED BY <1>1, <1>3, <1>7, <1>8, <1>9, HoldingPasses DEF Publish, Beside

\* An end closes.
LEMMA ClosesLinked ==
  ASSUME Linked, Local', NEW n \in N, MarkClosed(n), known' = known, core' = core, worker' = worker,
         got' = got, effects' = effects,
         owner'[Other(n)] = owner[Other(n)], edge'[Other(n)] = edge[Other(n)],
         owner'[n].hand \in {owner[n].hand, NoRequest}, edge'[n].next = edge[n].next,
         owner'[n].pc \in Asking => owner' = owner /\ edge' = edge
  PROVE  Linked'
<1>1. /\ Shape /\ (\A m \in N : Accounts(m)) /\ Recorded(n) /\ Other(n) \in N /\ edge[n].next \in Nat
  BY Peers, Parts, Constants DEF Linked, Local, Own, Peered
<1>2. /\ closed'[Other(n)] = closed[Other(n)] /\ inbox'[Other(n)] = inbox[Other(n)]
      /\ inbox'[n].queue = inbox[n].queue /\ inbox'[n].done = inbox[n].done
      /\ inbox'[n].held = NoRequest
  BY <1>1, Closing
<1>3. Legal(n) /\ Legal(Other(n))
  BY ClosedLegal DEF MarkClosed
<1>4. Recorded(n)'
  BY <1>1, <1>2 DEF Recorded, Effect
<1>5. Serving(n) /\ Calling(n) /\ Beside(Other(n))
  BY <1>1, <1>2, <1>4 DEF Serving, Calling, Beside
<1> QED BY <1>3, <1>5, OneActor

LEMMA AbortLinked == ASSUME Linked, NEW n \in N, Abort(n) PROVE Linked'
<1>1. /\ Local' /\ owner \in [N -> Owners] /\ edge \in [N -> Edges] /\ owner[n] \in Owners
      /\ edge[n] \in Edges /\ Other(n) # n /\ Other(n) \in N
  BY AbortLocal, Peers, Parts DEF Linked, Local, Shape
<1>2. /\ owner'[n].hand = NoRequest /\ owner'[n].pc = "down" /\ owner'[Other(n)] = owner[Other(n)]
      /\ edge'[n].next = edge[n].next /\ edge'[Other(n)] = edge[Other(n)]
  BY <1>1 DEF Abort, Owners, Edges
<1> QED BY <1>1, <1>2, ClosesLinked DEF Abort, Asking

LEMMA EndsLinked ==
  ASSUME Linked, NEW n \in N,
         OwnerStops(n) \/ Expire(n) \/ RejectReq(n) \/ Accuse(n) \/ ReadEnd(n) \/ Stop(n)
  PROVE  Linked'
<1>1. CASE OwnerStops(n) \/ Expire(n)
  BY <1>1, AbortLinked DEF OwnerStops, Expire
<1>2. CASE RejectReq(n) \/ Accuse(n) \/ ReadEnd(n) \/ Stop(n)
  <2>1. /\ MarkClosed(n) /\ owner' = owner /\ edge' = edge /\ known' = known /\ core' = core
        /\ worker' = worker /\ got' = got /\ effects' = effects
    BY <1>2 DEF RejectReq, Accuse, ReadEnd, Stop
  <2>2. Local'
    BY <1>2, EndsLocal DEF Linked
  <2> QED BY <2>1, <2>2, ClosesLinked
<1> QED BY <1>1, <1>2

\* The worker settles a response.
LEMMA WorkerSettleLinked == ASSUME Linked, NEW n \in N, WorkerSettle(n) PROVE Linked'
<1>1. /\ Local' /\ inbox \in [N -> Inboxes] /\ inbox[n] \in Inboxes /\ worker \in [N -> Response]
      /\ Other(n) # n /\ Other(n) \in N /\ Recorded(n)
  BY WorkerSettleLocal, Peers, Parts DEF Linked, Local, Shape, Peered
<1>2. /\ inbox'[n].queue = inbox[n].queue /\ inbox'[n].done = inbox[n].done
      /\ inbox'[n].held = inbox[n].held /\ inbox'[Other(n)] = inbox[Other(n)]
      /\ worker'[Other(n)] = worker[Other(n)]
  <2> DEFINE less == Less(inbox[n].pending)
             owed == IF worker[n].completed THEN Less(inbox[n].owed) ELSE inbox[n].owed
  <2>1. inbox' = [inbox EXCEPT ![n].pending = less, ![n].owed = owed]
    BY <1>1 DEF WorkerSettle, Inboxes
  <2>2. worker'[Other(n)] = worker[Other(n)]
    BY <1>1 DEF WorkerSettle
  <2> HIDE DEF less, owed
  <2> QED BY <1>1, <2>1, <2>2 DEF Inboxes
<1>3. Recorded(n)'
  BY <1>1, <1>2 DEF WorkerSettle, Recorded, Effect
<1> QED BY <1>1, <1>2, <1>3, HoldingPasses DEF WorkerSettle, Beside

\* The reader answers from the history, takes a signal, or a request comes again.
LEMMA ReaderPasses ==
  ASSUME Linked, Local', NEW n \in N, owner' = owner, edge' = edge, inbox' = inbox, known' = known,
         core' = core, worker' = worker, closed' = closed, got' = got, effects' = effects,
         Legal(n), Legal(Other(n))
  PROVE  Linked'
BY OwnerPasses

LEMMA ReplayLinked == ASSUME Linked, NEW n \in N, Replay(n) PROVE Linked'
<1> DEFINE k == CHOOSE k \in DOMAIN known[n].answered : known[n].answered[k].id = Front(n)
           v == known[n].answered[k].val
<1>1. /\ Shape /\ wire[n] # <<>> /\ known[n].answered \in Seq(Edge) /\ Front(n) \in Answered(n)
      /\ Local' /\ Recorded(n)
  BY Parts, ReplayLocal DEF Linked, Local, Replay, Requested, Reads, Peered
<1>2. k \in DOMAIN known[n].answered /\ known[n].answered[k] \in Edge /\ known[n].answered[k].id = Front(n)
  <2>1. \E j \in DOMAIN known[n].answered : known[n].answered[j].id = Front(n)
    BY <1>1 DEF Answered
  <2>2. k \in DOMAIN known[n].answered /\ known[n].answered[k].id = Front(n)
    BY <2>1
  <2> QED BY <1>1, <2>2, Elements
<1>3. v \in Answers /\ Front(n) \in Ids /\ Effect(n, known[n].answered[k])
  <2> HIDE DEF k
  <2>1. known[n].answered[k].id \in Ids /\ known[n].answered[k].val \in Answers
    BY <1>2, Requests
  <2>2. Effect(n, known[n].answered[k])
    BY <1>1, <1>2 DEF Recorded
  <2> QED BY <1>2, <2>1, <2>2
<1>4. Answering(n, Front(n), v)
  <2> HIDE DEF k
  <2> QED BY <1>2, <1>3 DEF Effect, Answering
<1>5. Answer(n, Frame("resp", Front(n), v))
  BY DEF Replay
<1> HIDE DEF v
<1>6. Legal(n) /\ Legal(Other(n))
  BY <1>1, <1>3, <1>4, <1>5, AnswerLegal
<1> QED BY <1>1, <1>6, ReaderPasses DEF Replay

LEMMA ReadTurnLinked == ASSUME Linked, NEW n \in N, ReadTurn(n) PROVE Linked'
<1>1. PICK op \in {"tick", "done", "ack"} :
        /\ Reads(n, op)
        /\ \/ Accuse(n)
           \/ /\ Received(n)
              /\ UNCHANGED <<barrier, owner, edge, inbox, known, core, worker, closed, accused, repeats, got, effects>>
  BY DEF ReadTurn
<1>2. CASE Accuse(n)
  BY <1>2, EndsLinked
<1>3. CASE ~Accuse(n)
  <2>1. Local' /\ wire[n] # <<>>
    BY <1>1, ReadTurnLocal DEF Linked, Reads
  <2>2. Legal(n) /\ Legal(Other(n))
    BY <1>1, <1>3, <2>1, ReceivedLegal
  <2> QED BY <1>1, <1>3, <2>1, <2>2, ReaderPasses
<1> QED BY <1>2, <1>3

LEMMA RepeatLinked == ASSUME Linked, NEW n \in N, Repeat(n) PROVE Linked'
<1>1. Local' /\ edge[n].next \in 1..(MaxEdges + 1)
  BY Parts, RepeatLocal DEF Linked, Local
<1>2. PICK i \in 1..(edge[n].next - 1) : Send(n, Frame("req", i, Idle))
  BY DEF Repeat
<1>3. i \in Ids /\ i < edge[n].next
  BY <1>1, <1>2, Constants DEF Ids
<1>4. Legal(n) /\ Legal(Other(n))
  BY <1>2, <1>3, SentLegal, Sources
<1> QED BY <1>1, <1>4, ReaderPasses DEF Repeat

\* The answer written is the effect it is remembered by.
LEMMA RespondLinked ==
  ASSUME Linked, Local', NEW n \in N, NEW r \in Edge, Effect(n, r), known' = Remembered(n, r),
         Send(n, Frame("resp", r.id, r.val)),
         owner'[n].hand \in {owner[n].hand, NoRequest}, inbox'[n].held = inbox[n].held,
         inbox'[n].queue = inbox[n].queue,
         \A k \in DOMAIN inbox'[n].done : \E j \in DOMAIN inbox[n].done : inbox'[n].done[k] = inbox[n].done[j],
         edge' = edge, got' = got, effects' = effects, Beside(Other(n)),
         owner'[n].pc \in Asking => owner[n].pc \in Asking
  PROVE  Linked'
<1>1. /\ Shape /\ Recorded(n) /\ Other(n) \in N /\ edge[n].next \in Nat
      /\ r.id \in Ids /\ r.val \in Answers
  BY Peers, Parts, Constants, Requests DEF Linked, Local, Peered
<1>2. /\ known'[Other(n)] = known[Other(n)] /\ known'[n].highest = known[n].highest
      /\ known'[n].claimed \subseteq known[n].claimed
      /\ \A k \in DOMAIN known'[n].answered :
           \/ known'[n].answered[k] = r
           \/ \E j \in DOMAIN known[n].answered : known'[n].answered[k] = known[n].answered[j]
  BY <1>1, Remembering
<1>3. Recorded(n)'
  BY <1>1, <1>2, RecordedStands
<1>4. Legal(n) /\ Legal(Other(n))
  <2>1. Answering(n, r.id, r.val)
    BY DEF Effect, Answering
  <2> QED BY <1>1, <2>1, SentLegal
<1>5. Serving(n) /\ Calling(n)
  BY <1>1, <1>2, <1>3 DEF Serving, Calling
<1> QED BY <1>2, <1>4, <1>5, OneActor

LEMMA AnswerReservedLinked == ASSUME Linked, NEW n \in N, AnswerReserved(n) PROVE Linked'
<1> DEFINE r == owner[n].hand
           less == Less(inbox[n].pending)
<1>1. /\ Local /\ Local' /\ Shape /\ Position(n) /\ owner \in [N -> Owners] /\ owner[n] \in Owners
      /\ inbox \in [N -> Inboxes] /\ inbox[n] \in Inboxes /\ Other(n) \in N /\ Other(n) # n
      /\ r \in Response /\ Recorded(n) /\ owner[n].pc = "answer"
  BY AnswerReservedLocal, Peers, Parts DEF Linked, Local, Own, Peered, Shape, AnswerReserved, At
<1>2. r \in Edge /\ Effect(n, r)
  BY <1>1, Requests DEF Position, Recorded
<1>3. /\ edge' = edge /\ core' = core /\ worker' = worker /\ closed' = closed /\ got' = got
      /\ effects' = effects /\ inbox' = [inbox EXCEPT ![n].pending = less]
      /\ owner' = [owner EXCEPT ![n].pc = "await", ![n].hand = NoRequest]
      /\ known' = Remembered(n, r) /\ Send(n, Frame("resp", r.id, r.val))
  BY <1>1 DEF AnswerReserved, Inboxes
<1> HIDE DEF r, less
<1>4. /\ inbox'[n].queue = inbox[n].queue /\ inbox'[n].done = inbox[n].done
      /\ inbox'[n].held = inbox[n].held /\ inbox'[Other(n)] = inbox[Other(n)]
  BY <1>1, <1>3 DEF Inboxes
<1>5. owner'[n].hand = NoRequest /\ owner'[Other(n)] = owner[Other(n)]
  BY <1>1, <1>3 DEF Owners
<1>6. owner'[n].pc \in Asking => owner[n].pc \in Asking
  BY <1>1 DEF Asking
<1>7. Beside(Other(n))
  BY <1>3, <1>4, <1>5 DEF Beside
<1>8. \A k \in DOMAIN inbox'[n].done : \E j \in DOMAIN inbox[n].done : inbox'[n].done[k] = inbox[n].done[j]
  BY <1>4
<1> QED BY <1>1, <1>2, <1>3, <1>4, <1>5, <1>6, <1>7, <1>8, RespondLinked

LEMMA WorkerSendLinked == ASSUME Linked, NEW n \in N, WorkerSend(n) PROVE Linked'
<1> DEFINE r == Head(inbox[n].done)
           rest == Tail(inbox[n].done)
<1>1. /\ Local' /\ Shape /\ inbox \in [N -> Inboxes] /\ inbox[n] \in Inboxes
      /\ worker \in [N -> Response] /\ Other(n) \in N /\ Other(n) # n /\ Recorded(n)
      /\ inbox[n].done \in Seq(Edge) /\ inbox[n].done # <<>>
  BY WorkerSendLocal, Peers, Parts DEF Linked, Local, Shape, WorkerSend, Peered
<1>2. /\ 1 \in DOMAIN inbox[n].done /\ r = inbox[n].done[1] /\ r \in Edge
      /\ \A k \in DOMAIN rest : k + 1 \in DOMAIN inbox[n].done /\ rest[k] = inbox[n].done[k + 1]
  BY <1>1, Elements, Taking
<1>3. Effect(n, r)
  BY <1>1, <1>2 DEF Recorded
<1>4. /\ edge' = edge /\ core' = core /\ owner' = owner /\ worker' = [worker EXCEPT ![n] = r]
      /\ closed' = closed /\ got' = got /\ effects' = effects
      /\ inbox' = [inbox EXCEPT ![n].done = rest]
      /\ known' = Remembered(n, r) /\ Send(n, Frame("resp", r.id, r.val))
  BY <1>1 DEF WorkerSend, Inboxes
<1> HIDE DEF r, rest
<1>5. /\ inbox'[n].queue = inbox[n].queue /\ inbox'[n].done = rest
      /\ inbox'[n].held = inbox[n].held /\ inbox'[Other(n)] = inbox[Other(n)]
      /\ worker'[Other(n)] = worker[Other(n)]
  BY <1>1, <1>4 DEF Inboxes
<1>6. Beside(Other(n))
  BY <1>4, <1>5 DEF Beside
<1>7. \A k \in DOMAIN inbox'[n].done : \E j \in DOMAIN inbox[n].done : inbox'[n].done[k] = inbox[n].done[j]
  BY <1>2, <1>5
<1> QED BY <1>1, <1>2, <1>3, <1>4, <1>5, <1>6, <1>7, RespondLinked

LEMMA ClearLinked == ASSUME Linked, NEW n \in N, Clear(n) PROVE Linked'
<1>1. /\ Local' /\ Shape /\ edge \in [N -> Edges] /\ edge[n] \in Edges /\ core \in [N -> Cores]
      /\ Other(n) \in N /\ Other(n) # n /\ "frame" \in Place /\ Recorded(n)
      /\ edge[n].next \in Nat
  <2>1. Local' /\ Shape /\ Other(n) \in N /\ Other(n) # n /\ Recorded(n)
    BY ClearLocal, Peers DEF Linked, Local, Peered
  <2>2. edge[n] \in Edges /\ edge[n].next \in Nat
    BY <2>1, Parts, Constants
  <2> QED BY <2>1, <2>2 DEF Shape, Place
<1>2. /\ owner'[n].pc = "frame" /\ owner'[n].hand = owner[n].hand /\ owner'[Other(n)] = owner[Other(n)]
  BY <1>1, Going DEF Clear
<1>3. /\ edge'[n].next = edge[n].next /\ edge'[Other(n)] = edge[Other(n)]
      /\ core'[Other(n)] = core[Other(n)]
  BY <1>1 DEF Clear, Edges
<1>4. Recorded(n)'
  BY <1>1, <1>2 DEF Clear, Recorded, Effect
<1>5. Serving(n) /\ Calling(n)
  BY <1>1, <1>2, <1>3, <1>4 DEF Clear, Serving, Calling, Asking
<1>6. Beside(Other(n))
  BY <1>2, <1>3 DEF Clear, Beside
<1>7. Legal(n) /\ Legal(Other(n))
  BY <1>1, SameLegal DEF Clear
<1> QED BY <1>1, <1>5, <1>6, <1>7, OneActor DEF Clear

\* An edge is admitted: its answer is still to come.
LEMMA AdmitLinked == ASSUME Linked, NEW n \in N, Admit(n) PROVE Linked'
<1>1. CASE edge[n].slot # <<>>
  BY <1>1, AbortLinked DEF Admit
<1>2. CASE edge[n].slot = <<>>
  <2> DEFINE on == [edge[n] EXCEPT !.inflight = edge[n].next, !.next = @ + 1, !.seen = FALSE, !.recip = FALSE]
  <2>1. /\ Local' /\ Shape /\ edge \in [N -> Edges] /\ edge[n] \in Edges
        /\ Other(n) \in N /\ Other(n) # n /\ "reserve" \in Place /\ Recorded(n) /\ edge[n].next \in Nat
    BY AdmitLocal, Peers, Parts, Constants DEF Linked, Local, Shape, Peered, Place
  <2>2. /\ owner'[n].hand = owner[n].hand /\ owner'[Other(n)] = owner[Other(n)]
    BY <1>2, <2>1, Going DEF Admit
  <2>3. edge' = [edge EXCEPT ![n] = on]
    BY <1>2, <2>1 DEF Admit, Edges
  <2>4. on.next = edge[n].next + 1 /\ on.slot = <<>>
    BY <1>2, <2>1 DEF Edges
  <2> HIDE DEF on
  <2>5. edge'[n].next = edge[n].next + 1 /\ edge'[n].slot = <<>> /\ edge'[Other(n)] = edge[Other(n)]
    BY <2>1, <2>3, <2>4
  <2>6. \A a \in Nat : a + 1 >= a
    OBVIOUS
  <2>7. /\ inbox' = inbox /\ known' = known /\ core' = core /\ worker' = worker /\ wire' = wire
        /\ closed' = closed /\ got' = got /\ effects' = effects
    BY <1>2 DEF Admit
  <2>8. Recorded(n)'
    BY <2>1, <2>2, <2>7 DEF Recorded, Effect
  <2>9. Serving(n) /\ Calling(n)
    BY <2>1, <2>5, <2>6, <2>7, <2>8 DEF Serving, Calling
  <2>10. Beside(Other(n))
    BY <2>2, <2>5, <2>7 DEF Beside
  <2>11. Legal(n) /\ Legal(Other(n))
    BY <2>1, <2>7, SameLegal
  <2> QED BY <2>1, <2>7, <2>9, <2>10, <2>11, OneActor
<1> QED BY <1>1, <1>2

\* What an effect answers it answers after any more effects.
LEMMA EffectsGrow ==
  ASSUME Shape, NEW n \in N, NEW r \in Edge, effects' = [effects EXCEPT ![n] = Append(@, r)]
  PROVE  /\ effects'[Other(n)] = effects[Other(n)]
         /\ Effect(n, r)' /\ \A x : Effect(n, x) => Effect(n, x)'
         /\ \A i, v : Answering(n, i, v) => Answering(n, i, v)'
         /\ \A k \in DOMAIN effects'[n] :
              \/ k = Len(effects[n]) + 1 /\ effects'[n][k] = r
              \/ k \in DOMAIN effects[n] /\ effects'[n][k] = effects[n][k] /\ k < Len(effects[n]) + 1
<1> DEFINE w == effects[n]
<1>1. w \in Seq(Edge) /\ Other(n) \in N /\ Other(n) # n /\ effects \in [N -> Seq(Edge)]
  BY Peers, Parts DEF Shape
<1>2. effects'[n] = Append(w, r) /\ effects'[Other(n)] = effects[Other(n)]
  BY <1>1
<1>3. /\ DOMAIN Append(w, r) = DOMAIN w \cup {Len(w) + 1}
      /\ \A k \in DOMAIN w : Append(w, r)[k] = w[k] /\ k < Len(w) + 1
      /\ Append(w, r)[Len(w) + 1] = r
  BY <1>1, Appending
<1>4. Effect(n, r)'
  BY <1>2, <1>3 DEF Effect
<1>5. \A x : Effect(n, x) => Effect(n, x)'
  <2> SUFFICES ASSUME NEW x, NEW k \in DOMAIN effects[n], effects[n][k] = x
               PROVE  \E j \in DOMAIN effects'[n] : effects'[n][j] = x
    BY DEF Effect
  <2> QED BY <1>2, <1>3
<1>6. \A i, v : Answering(n, i, v) => Answering(n, i, v)'
  <2> SUFFICES ASSUME NEW i, NEW v, NEW k \in DOMAIN effects[n], effects[n][k].id = i, effects[n][k].val = v
               PROVE  \E j \in DOMAIN effects'[n] : effects'[n][j].id = i /\ effects'[n][j].val = v
    BY DEF Answering
  <2> QED BY <1>2, <1>3
<1>7. \A k \in DOMAIN effects'[n] :
        \/ k = Len(effects[n]) + 1 /\ effects'[n][k] = r
        \/ k \in DOMAIN effects[n] /\ effects'[n][k] = effects[n][k] /\ k < Len(effects[n]) + 1
  BY <1>2, <1>3
<1> QED BY <1>2, <1>4, <1>5, <1>6, <1>7

\* One end takes an edge or an answer; the other stands aside.
LEMMA Acting ==
  ASSUME Linked, Local', NEW n \in N, Effective(n)', Recorded(n)', Returned(n)', Returned(Other(n))',
         edge'[n].next >= edge[n].next, LegalReqs(Other(n)),
         Beside(Other(n)), known'[Other(n)] = known[Other(n)], effects'[Other(n)] = effects[Other(n)]
  PROVE  Linked'
<1> DEFINE o == Other(n)
<1>1. o \in N /\ Other(o) = n /\ \A m \in N : m = n \/ m = o
  BY Peers
<1>2. Shape /\ Shape' /\ Effective(o) /\ Recorded(o)
  BY <1>1 DEF Linked, Peered, Local
<1>3. Serving(o)
  BY <1>1, <1>2, Untouched
<1>4. Effective(o)'
  BY <1>1, <1>2, <1>3, EffectiveStands
<1>5. Peered(o)' /\ Peered(n)'
  BY <1>3, <1>4 DEF Peered, Serving
<1> QED BY <1>1, <1>5 DEF Linked

\* A new effect answers what the effects before it answered.
LEMMA ReturnedGrows ==
  ASSUME Linked, NEW n \in N, NEW r \in Edge, effects' = [effects EXCEPT ![n] = Append(@, r)],
         Beside(Other(n)),
         \A k \in DOMAIN wire'[Other(n)] :
           \/ wire'[Other(n)][k].op # "resp"
           \/ \E j \in DOMAIN wire[Other(n)] : wire'[Other(n)][k] = wire[Other(n)][j]
           \/ wire'[Other(n)][k].id = r.id /\ wire'[Other(n)][k].val = r.val
  PROVE  Returned(n)'
<1> DEFINE o == Other(n)
<1>1. Shape /\ Returned(n) /\ o \in N
  BY Peers DEF Linked, Local, Peered
<1>2. /\ \E k \in DOMAIN effects'[n] : effects'[n][k] = r
      /\ \A i, v : Answering(n, i, v) => Answering(n, i, v)'
  BY <1>1, EffectsGrow DEF Effect
<1>3. \A k \in DOMAIN wire'[o] : wire'[o][k].op = "resp" =>
        \E j \in DOMAIN effects'[n] : effects'[n][j].id = wire'[o][k].id /\ effects'[n][j].val = wire'[o][k].val
  <2> SUFFICES ASSUME NEW k \in DOMAIN wire'[o], wire'[o][k].op = "resp"
               PROVE  \E j \in DOMAIN effects'[n] : effects'[n][j].id = wire'[o][k].id
                                                   /\ effects'[n][j].val = wire'[o][k].val
    OBVIOUS
  <2>1. CASE \E j \in DOMAIN wire[o] : wire'[o][k] = wire[o][j]
    <3>1. PICK j \in DOMAIN wire[o] : wire'[o][k] = wire[o][j]
      BY <2>1
    <3> DEFINE i == wire[o][j].id  v == wire[o][j].val
    <3>2. Answering(n, i, v)
      BY <1>1, <3>1 DEF Returned
    <3>3. i = wire'[o][k].id /\ v = wire'[o][k].val
      BY <3>1
    <3> HIDE DEF i, v
    <3>4. \E x \in DOMAIN effects'[n] : effects'[n][x].id = i /\ effects'[n][x].val = v
      <4>1. \A a, b : Answering(n, a, b) =>
               \E x \in DOMAIN effects'[n] : effects'[n][x].id = a /\ effects'[n][x].val = b
        BY <1>2 DEF Answering
      <4> QED BY ONLY <3>2, <4>1
    <3> QED BY <3>3, <3>4
  <2>2. CASE wire'[o][k].id = r.id /\ wire'[o][k].val = r.val
    BY <1>2, <2>2
  <2> QED BY <2>1, <2>2
<1>4. \A k \in DOMAIN got[o] : Answering(n, k, got[o][k])'
  <2>1. \A k \in DOMAIN got[o] : Answering(n, k, got[o][k])
    BY <1>1 DEF Returned
  <2>2. \A k \in DOMAIN got[o] :
          \E x \in DOMAIN effects'[n] : effects'[n][x].id = k /\ effects'[n][x].val = got[o][k]
    <3>1. \A a, b : Answering(n, a, b) =>
             \E x \in DOMAIN effects'[n] : effects'[n][x].id = a /\ effects'[n][x].val = b
      BY <1>2 DEF Answering
    <3> QED BY ONLY <2>1, <3>1
  <2> QED BY <2>2 DEF Beside, Answering
<1>5. owner'[o].pc \in Asking => \A k \in DOMAIN edge'[o].slot :
        \E x \in DOMAIN effects'[n] : effects'[n][x].id = edge'[o].inflight
                                     /\ effects'[n][x].val = edge'[o].slot[k]
  <2>1. owner[o].pc \in Asking => \A k \in DOMAIN edge[o].slot : Answering(n, edge[o].inflight, edge[o].slot[k])
    BY <1>1 DEF Returned
  <2>2. owner[o].pc \in Asking => \A k \in DOMAIN edge[o].slot :
          \E x \in DOMAIN effects'[n] : effects'[n][x].id = edge[o].inflight
                                       /\ effects'[n][x].val = edge[o].slot[k]
    <3>1. \A a, b : Answering(n, a, b) =>
             \E x \in DOMAIN effects'[n] : effects'[n][x].id = a /\ effects'[n][x].val = b
      BY <1>2 DEF Answering
    <3> QED BY ONLY <2>1, <3>1
  <2> QED BY <2>2 DEF Beside
<1> QED BY <1>3, <1>4, <1>5 DEF Beside, Returned, Answering

\* A new effect is that of the last edge taken.
LEMMA EffectiveGrows ==
  ASSUME Linked, Local', NEW n \in N, NEW r \in Edge, effects' = [effects EXCEPT ![n] = Append(@, r)],
         \A k \in DOMAIN effects[n] : effects[n][k].id < r.id,
         known'[n].highest = r.id, known[n].highest <= r.id,
         known'[n].claimed \subseteq known[n].claimed,
         inbox'[n].queue = <<>>, edge'[Other(n)] = edge[Other(n)], r.id < edge[Other(n)].next, LegalReqs(n)
  PROVE  Effective(n)'
<1>1. /\ Shape /\ Effective(n) /\ effects[n] \in Seq(Edge) /\ known[n].highest \in Nat /\ r.id \in Nat
  <2>1. Shape /\ known[n].highest \in Ids \cup {NoId} /\ r.id \in Ids
    BY Parts, Requests DEF Linked, Local
  <2> QED BY <2>1, Parts, Constants DEF Linked, Peered, Ids, NoId
<1>2. \A k \in DOMAIN effects'[n] :
        \/ k = Len(effects[n]) + 1 /\ effects'[n][k] = r
        \/ k \in DOMAIN effects[n] /\ effects'[n][k] = effects[n][k] /\ k < Len(effects[n]) + 1
  BY <1>1, EffectsGrow
<1>3. /\ Len(effects[n]) \in Nat /\ DOMAIN effects[n] = 1..Len(effects[n])
      /\ \A k \in DOMAIN effects[n] : effects[n][k].id \in Nat
  <2>1. Len(effects[n]) \in Nat /\ DOMAIN effects[n] = 1..Len(effects[n])
        /\ \A k \in DOMAIN effects[n] : effects[n][k] \in Edge
    BY <1>1, Elements
  <2>2. \A x \in Edge : x.id \in Nat
    BY Requests DEF Ids
  <2> QED BY <2>1, <2>2
<1>4. \A i, j \in DOMAIN effects'[n] : i < j => effects'[n][i].id < effects'[n][j].id
  <2> SUFFICES ASSUME NEW i \in DOMAIN effects'[n], NEW j \in DOMAIN effects'[n], i < j
               PROVE  effects'[n][i].id < effects'[n][j].id
    OBVIOUS
  <2>1. ~(i = Len(effects[n]) + 1)
    <3>1. \A l \in Nat : ~(l + 1 < l + 1) /\ \A k \in 1..l : ~(l + 1 < k)
      OBVIOUS
    <3> QED BY <1>2, <1>3, <3>1
  <2>2. i \in DOMAIN effects[n] /\ effects'[n][i] = effects[n][i]
    BY <1>2, <2>1
  <2>3. CASE effects'[n][j] = r
    BY <2>2, <2>3
  <2>4. CASE j \in DOMAIN effects[n] /\ effects'[n][j] = effects[n][j]
    BY <1>1, <2>2, <2>4 DEF Effective
  <2> QED BY <1>2, <2>3, <2>4
<1>5. \A k \in DOMAIN effects'[n] : effects'[n][k].id <= r.id
  <2>1. \A a, b \in Nat : (a < b => a <= b) /\ a <= a
    OBVIOUS
  <2> QED BY <1>1, <1>2, <1>3, <2>1
<1>6. known'[n].claimed \subseteq 1..r.id
  <2>1. \A a, b \in Nat : a <= b => 1..a \subseteq 1..b
    OBVIOUS
  <2> QED BY <1>1, <2>1 DEF Effective
<1>7. Len(inbox'[n].queue) <= 1 /\ DOMAIN inbox'[n].queue = {}
  BY EmptySeq
<1> QED BY <1>4, <1>5, <1>6, <1>7 DEF Effective, LegalReqs

\* What is held is that effect or an effect before it.
LEMMA RecordedGrows ==
  ASSUME Linked, NEW n \in N, NEW r \in Edge, effects' = [effects EXCEPT ![n] = Append(@, r)],
         owner'[n].hand \in {owner[n].hand, r}, inbox'[n].held = inbox[n].held,
         inbox'[n].done = inbox[n].done,
         \A k \in DOMAIN known'[n].answered :
           \/ known'[n].answered[k] = r
           \/ \E j \in DOMAIN known[n].answered : known'[n].answered[k] = known[n].answered[j]
  PROVE  Recorded(n)'
<1>1. Shape /\ Recorded(n)
  BY DEF Linked, Local, Peered
<1>2. /\ \E j \in DOMAIN effects'[n] : effects'[n][j] = r
      /\ \A x : Effect(n, x) => \E j \in DOMAIN effects'[n] : effects'[n][j] = x
  BY <1>1, EffectsGrow DEF Effect
<1>3. owner'[n].hand # NoRequest => \E j \in DOMAIN effects'[n] : effects'[n][j] = owner'[n].hand
  BY <1>1, <1>2 DEF Recorded
<1>4. inbox'[n].held # NoRequest => \E j \in DOMAIN effects'[n] : effects'[n][j] = inbox'[n].held
  BY <1>1, <1>2 DEF Recorded
<1>5. \A k \in DOMAIN inbox'[n].done : \E j \in DOMAIN effects'[n] : effects'[n][j] = inbox'[n].done[k]
  BY <1>1, <1>2 DEF Recorded
<1>6. \A k \in DOMAIN known'[n].answered : \E j \in DOMAIN effects'[n] : effects'[n][j] = known'[n].answered[k]
  <2>1. \A k \in DOMAIN known[n].answered : Effect(n, known[n].answered[k])
    BY <1>1 DEF Recorded
  <2> QED BY <1>2, <2>1
<1> QED BY <1>3, <1>4, <1>5, <1>6 DEF Recorded, Effect

\* The owner takes the queued edge.
LEMMA OwnerTakes ==
  ASSUME Linked, Local', NEW n \in N, inbox[n].queue # <<>>, NEW r \in Edge, r.id = Head(inbox[n].queue),
         effects' = [effects EXCEPT ![n] = Append(@, r)], inbox' = [inbox EXCEPT ![n].queue = Tail(@)],
         owner'[n].hand = r, known' = known, wire' = wire, got' = got,
         edge'[n].next = edge[n].next, edge'[n].slot = edge[n].slot, edge'[n].inflight = edge[n].inflight,
         owner'[n].pc \in Asking => owner[n].pc \in Asking, Beside(Other(n))
  PROVE  Linked'
<1>1. Local /\ Shape /\ Effective(n) /\ Returned(Other(n)) /\ Other(n) \in N /\ Other(Other(n)) = n
  BY Peers DEF Linked, Local, Peered
<1>2. /\ Tail(inbox[n].queue) = <<>> /\ r.id = known[n].highest
      /\ \A i \in DOMAIN effects[n] : effects[n][i].id < known[n].highest
  BY QueueOfOne
<1>3. inbox'[n].queue = <<>> /\ inbox'[n].held = inbox[n].held /\ inbox'[n].done = inbox[n].done
  BY <1>1, <1>2, QueueTaken
<1>4. Legal(n) /\ Legal(Other(n))
  BY <1>1, SameLegal
<1>5. Effective(n)'
  <2>1. known[n].highest <= r.id
    <3>1. r.id \in Nat
      BY Requests DEF Ids
    <3> QED BY <1>2, <3>1
  <2> QED BY SMTT(30), <1>1, <1>2, <1>3, <1>4, <2>1, EffectiveGrows DEF Effective, Beside, Legal
<1>6. Recorded(n)'
  BY <1>3, RecordedGrows
<1>7. Returned(n)'
  BY ReturnedGrows
<1>8. Returned(Other(n))'
  <2>1. Calling(n)
    <3>1. edge[n].next \in Nat
      BY <1>1, Parts, Constants
    <3> QED BY <3>1 DEF Calling
  <2>2. effects'[Other(n)] = effects[Other(n)]
    BY <1>1, EffectsGrow
  <2> QED BY <1>1, <1>4, <2>1, <2>2, ReturnedStands DEF Legal
<1>9. effects'[Other(n)] = effects[Other(n)] /\ edge'[n].next >= edge[n].next
  <2>1. edge[n].next \in Nat
    BY <1>1, Parts, Constants
  <2>2. \A a \in Nat : a >= a
    OBVIOUS
  <2>3. effects'[Other(n)] = effects[Other(n)]
    BY <1>1, EffectsGrow
  <2> QED BY <2>1, <2>2, <2>3
<1> QED BY <1>4, <1>5, <1>6, <1>7, <1>8, <1>9, Acting DEF Legal

LEMMA ServeLinked == ASSUME Linked, NEW n \in N, Serve(n) PROVE Linked'
<1> DEFINE r == Applied(n, Head(inbox[n].queue))
           fr == At(n, "frame")
<1>1. /\ Local /\ Local' /\ Shape /\ owner \in [N -> Owners] /\ owner[n] \in Owners /\ core \in [N -> Cores]
      /\ inbox \in [N -> Inboxes] /\ inbox[n] \in Inboxes /\ Other(n) \in N /\ Other(n) # n
      /\ inbox[n].queue \in Seq(Ids) /\ inbox[n].queue # <<>>
  BY ServeLocal, Peers, Parts DEF Linked, Local, Shape, Serve
<1>2. r \in Edge /\ r.id = Head(inbox[n].queue)
  <2>1. Head(inbox[n].queue) \in Ids
    BY <1>1, Elements
  <2>2. Idle \in Answers /\ Slave \in Answers /\ (core[n].left = 1) \in BOOLEAN /\ FALSE \in BOOLEAN
    BY Sources
  <2>3. r = Request(Head(inbox[n].queue), Idle, FALSE)
        \/ r = Request(Head(inbox[n].queue), Slave, core[n].left = 1)
    BY DEF Applied
  <2> DEFINE h == Head(inbox[n].queue)  c == (core[n].left = 1)
  <2>4. h \in Ids /\ c \in BOOLEAN /\ (r = Request(h, Idle, FALSE) \/ r = Request(h, Slave, c))
    BY <2>1, <2>2, <2>3
  <2> HIDE DEF r, h, c
  <2>5. \A i \in Ids, v \in Answers, b \in BOOLEAN : Request(i, v, b) \in Edge /\ Request(i, v, b).id = i
    BY Requests
  <2>6. r \in Edge /\ r.id = h
    <3>1. Request(h, Idle, FALSE) \in Edge /\ Request(h, Idle, FALSE).id = h
      BY ONLY <2>2, <2>4, <2>5
    <3>2. Request(h, Slave, c) \in Edge /\ Request(h, Slave, c).id = h
      BY ONLY <2>2, <2>4, <2>5
    <3> QED BY ONLY <2>4, <3>1, <3>2
  <2> QED BY <2>6 DEF h
<1>3. /\ effects' = [effects EXCEPT ![n] = Append(@, r)] /\ inbox' = [inbox EXCEPT ![n].queue = Tail(@)]
      /\ owner' = [owner EXCEPT ![n].pc = "publish", ![n].hand = r, ![n].inframe = fr]
      /\ known' = known /\ wire' = wire /\ got' = got /\ edge' = edge /\ worker' = worker /\ closed' = closed
      /\ core'[Other(n)] = core[Other(n)]
  BY <1>1 DEF Serve
<1> HIDE DEF r, fr
<1>4. owner'[n].hand = r /\ owner'[n].pc = "publish" /\ owner'[Other(n)] = owner[Other(n)]
  BY <1>1, <1>3 DEF Owners
<1>5. inbox'[Other(n)] = inbox[Other(n)]
  BY <1>1, <1>3
<1>6. Beside(Other(n))
  BY <1>3, <1>4, <1>5 DEF Beside
<1> QED BY <1>1, <1>2, <1>3, <1>4, <1>6, OwnerTakes DEF Asking

LEMMA ReserveLinked == ASSUME Linked, NEW n \in N, Reserve(n) PROVE Linked'
<1>1. /\ Local /\ Local' /\ Shape /\ owner \in [N -> Owners] /\ owner[n] \in Owners
      /\ edge \in [N -> Edges] /\ edge[n] \in Edges /\ owner[n].pc = "reserve" /\ "send" \in Place
      /\ inbox \in [N -> Inboxes] /\ inbox[n] \in Inboxes /\ Other(n) \in N /\ Other(n) # n
      /\ inbox[n].queue \in Seq(Ids)
  BY ReserveLocal, Peers, Parts DEF Linked, Local, Shape, Reserve, At, Place, Waits
<1>2. /\ known' = known /\ core' = core /\ worker' = worker /\ wire' = wire /\ closed' = closed /\ got' = got
  BY DEF Reserve
<1>3. CASE inbox[n].queue = <<>> \/ edge[n].recip
  <2>1. GoTo(n, "send") /\ inbox' = inbox /\ edge' = edge /\ effects' = effects
    BY <1>3 DEF Reserve
  <2>2. owner'[n].hand = owner[n].hand /\ owner'[Other(n)] = owner[Other(n)]
    BY <1>1, <2>1, Going
  <2>3. Legal(n) /\ Legal(Other(n))
    BY <1>1, <1>2, SameLegal
  <2>4. owner'[n].pc \in Asking => owner[n].pc \in Asking
    BY <1>1 DEF Asking
  <2> QED BY <1>1, <1>2, <2>1, <2>2, <2>3, <2>4, OwnerPasses
<1>4. CASE ~(inbox[n].queue = <<>> \/ edge[n].recip)
  <2> DEFINE r == Request(Head(inbox[n].queue), edge[n].inflight, FALSE)
  <2>1. /\ owner' = [owner EXCEPT ![n].pc = "send", ![n].hand = r]
        /\ inbox' = [inbox EXCEPT ![n].queue = Tail(@)]
        /\ edge' = [edge EXCEPT ![n].recip = TRUE]
        /\ effects' = [effects EXCEPT ![n] = Append(@, r)] /\ inbox[n].queue # <<>>
    BY <1>4 DEF Reserve
  <2>2. r \in Edge /\ r.id = Head(inbox[n].queue)
    <3> DEFINE h == Head(inbox[n].queue)  v == edge[n].inflight
    <3>1. h \in Ids
      BY <1>1, <1>4, Elements
    <3>2. v \in Answers
      BY <1>1, InFlight, Sources DEF Asking
    <3> HIDE DEF h, v
    <3>3. Request(h, v, FALSE) \in Edge /\ Request(h, v, FALSE).id = h
      BY <3>1, <3>2, Requests
    <3> QED BY <3>3 DEF h, v
  <2> HIDE DEF r
  <2>3. owner'[n].hand = r /\ owner'[Other(n)] = owner[Other(n)]
    BY <1>1, <2>1 DEF Owners
  <2>4. /\ edge'[n].next = edge[n].next /\ edge'[n].slot = edge[n].slot /\ edge'[n].inflight = edge[n].inflight
        /\ edge'[Other(n)] = edge[Other(n)] /\ inbox'[Other(n)] = inbox[Other(n)]
    BY <1>1, <2>1 DEF Edges
  <2>5. Beside(Other(n))
    BY <1>2, <2>3, <2>4 DEF Beside
  <2>6. owner'[n].pc \in Asking => owner[n].pc \in Asking
    BY <1>1 DEF Asking
  <2> QED BY <1>1, <1>2, <2>1, <2>2, <2>3, <2>4, <2>5, <2>6, OwnerTakes
<1> QED BY <1>3, <1>4

\* A slot holds the answer it was filled with.
LEMMA Slots ==
  ASSUME Shape, NEW n \in N
  PROVE  /\ edge[n].slot # <<>> => /\ Head(edge[n].slot) \in Answers /\ 1 \in DOMAIN edge[n].slot
                                   /\ Head(edge[n].slot) = edge[n].slot[1]
         /\ \A v : DOMAIN <<v>> = {1} /\ <<v>>[1] = v
<1>1. edge[n].slot = <<>> \/ \E v \in Answers : edge[n].slot = <<v>>
  BY Parts DEF Edges
<1>2. \A v : DOMAIN <<v>> = {1} /\ <<v>>[1] = v /\ Head(<<v>>) = v
  OBVIOUS
<1>3. CASE edge[n].slot # <<>>
  <2>1. PICK v \in Answers : edge[n].slot = <<v>>
    BY <1>1, <1>3
  <2> QED BY <1>2, <2>1
<1> QED BY <1>2, <1>3

\* An end takes an answer, or one comes for it.
LEMMA TakesAnswer ==
  ASSUME Linked, Local', NEW n \in N, known' = known, effects' = effects, inbox' = inbox,
         owner'[n].hand = owner[n].hand, edge'[n].next = edge[n].next,
         Legal(n), Legal(Other(n)), Returned(Other(n))', Beside(Other(n))
  PROVE  Linked'
<1>1. /\ Shape /\ Shape' /\ Effective(n) /\ Recorded(n) /\ Returned(n) /\ Other(n) \in N
      /\ Other(Other(n)) = n /\ edge[n].next \in Nat /\ Recorded(Other(n))
  BY Peers, Parts, Constants DEF Linked, Local, Peered
<1>2. Recorded(n)'
  BY <1>1 DEF Recorded, Effect
<1>3. Serving(n)
  BY <1>2 DEF Serving
<1>4. Serving(Other(n)) /\ Calling(Other(n))
  BY <1>1, Untouched
<1>5. edge'[n].next >= edge[n].next /\ edge'[Other(n)].next >= edge[Other(n)].next
  BY <1>1, <1>4 DEF Calling
<1>6. Effective(n)'
  BY <1>1, <1>3, <1>5, EffectiveStands DEF Legal
<1>7. Returned(n)'
  BY <1>1, <1>4, ReturnedStands DEF Legal
<1> QED BY <1>2, <1>5, <1>6, <1>7, Acting DEF Legal

LEMMA AwaitLinked == ASSUME Linked, NEW n \in N, Await(n) PROVE Linked'
<1> DEFINE o == Other(n)
           v == Head(edge[n].slot)
           to == [edge[n] EXCEPT !.slot = <<>>, !.seen = TRUE]
<1>1. /\ Local /\ Local' /\ Shape /\ edge \in [N -> Edges] /\ edge[n] \in Edges /\ got \in [N -> Seq(Answers)]
      /\ got[n] \in Seq(Answers) /\ o \in N /\ o # n /\ Other(o) = n /\ "clear" \in Place
      /\ owner[n].pc = "await" /\ edge[n].slot # <<>> /\ Returned(o)
  BY AwaitLocal, Peers, Parts DEF Linked, Local, Shape, Await, At, Place, Peered
<1>2. /\ edge' = [edge EXCEPT ![n] = to] /\ got' = [got EXCEPT ![n] = Append(@, v)]
      /\ inbox' = inbox /\ known' = known /\ core' = core /\ worker' = worker
      /\ wire' = wire /\ closed' = closed /\ effects' = effects
  BY <1>1 DEF Await
<1>3. v \in Answers /\ 1 \in DOMAIN edge[n].slot /\ v = edge[n].slot[1]
  BY <1>1, Slots
<1>4. Answering(o, edge[n].inflight, v) /\ Len(got[n]) + 1 = edge[n].inflight
  <2>1. Answering(o, edge[n].inflight, edge[n].slot[1])
    BY <1>1, <1>3 DEF Returned, Asking
  <2>2. Len(got[n]) = edge[n].inflight - 1 /\ edge[n].inflight \in Ids
    BY <1>1, InFlight DEF Asking
  <2>3. \A x \in Ids : (x - 1) + 1 = x
    BY DEF Ids
  <2> QED BY <1>3, <2>1, <2>2, <2>3
<1>5. to.next = edge[n].next /\ to.slot = <<>>
  BY <1>1 DEF Edges
<1> HIDE DEF v, to
<1>6. edge'[n].next = edge[n].next /\ edge'[o] = edge[o] /\ edge'[n].slot = <<>> /\ got'[o] = got[o]
      /\ got'[n] = Append(got[n], v)
  BY <1>1, <1>2, <1>5
<1>7. owner'[n].hand = owner[n].hand /\ owner'[o] = owner[o] /\ owner'[n].pc = "clear"
  BY <1>1, Going DEF Await
<1>8. Returned(o)'
  <2>1. \A k \in DOMAIN got'[n] : Answering(o, k, got'[n][k])
    <3> SUFFICES ASSUME NEW k \in DOMAIN got'[n] PROVE Answering(o, k, got'[n][k])
      OBVIOUS
    <3>1. (k = Len(got[n]) + 1 /\ got'[n][k] = v) \/ (k \in DOMAIN got[n] /\ got'[n][k] = got[n][k])
      BY <1>1, <1>3, <1>6, Appending
    <3> QED BY <1>1, <1>4, <3>1 DEF Returned
  <2>2. \A k \in DOMAIN wire[n] : wire[n][k].op = "resp" => Answering(o, wire[n][k].id, wire[n][k].val)
    BY <1>1 DEF Returned
  <2>3. Other(o) = n /\ owner'[n].pc \notin Asking
    BY <1>1, <1>7 DEF Asking
  <2> QED BY <1>2, <2>1, <2>2, <2>3 DEF Returned, Answering
<1>9. Legal(n) /\ Legal(o)
  BY <1>1, <1>2, SameLegal
<1>10. Beside(o)
  BY <1>2, <1>6, <1>7 DEF Beside
<1> QED BY <1>1, <1>2, <1>6, <1>7, <1>8, <1>9, <1>10, TakesAnswer

LEMMA ReadRespLinked == ASSUME Linked, NEW n \in N, ReadResp(n) PROVE Linked'
<1>1. CASE ~(edge[n].inflight = Front(n) /\ edge[n].slot = <<>>)
  BY <1>1, EndsLinked DEF ReadResp
<1>2. CASE edge[n].inflight = Front(n) /\ edge[n].slot = <<>>
  <2> DEFINE o == Other(n)
             v == Head(wire[n]).val
             to == [edge[n] EXCEPT !.slot = <<v>>, !.seen = TRUE]
  <2>1. /\ Local' /\ Shape /\ edge \in [N -> Edges] /\ edge[n] \in Edges /\ o \in N /\ o # n /\ Other(o) = n
        /\ Returned(o) /\ wire[n] # <<>> /\ Head(wire[n]).op = "resp"
    BY ReadRespLocal, Peers, Parts DEF Linked, Local, Shape, Peered, ReadResp, Reads
  <2>2. /\ edge' = [edge EXCEPT ![n] = to] /\ Received(n) /\ owner' = owner
        /\ inbox' = inbox /\ known' = known /\ core' = core /\ worker' = worker
        /\ closed' = closed /\ got' = got /\ effects' = effects
    BY <1>2, <2>1 DEF ReadResp
  <2>3. Answering(o, edge[n].inflight, v)
    <3>1. Head(wire[n]) = wire[n][1] /\ 1 \in DOMAIN wire[n]
      BY <2>1, Reading
    <3>2. Answering(o, wire[n][1].id, wire[n][1].val)
      BY <2>1, <3>1 DEF Returned
    <3> QED BY <1>2, <3>1, <3>2 DEF Front
  <2>4. to.next = edge[n].next /\ to.slot = <<v>> /\ to.inflight = edge[n].inflight
    BY <2>1 DEF Edges
  <2> HIDE DEF v, to
  <2>5. edge'[n].next = edge[n].next /\ edge'[o] = edge[o] /\ edge'[n].slot = <<v>>
        /\ edge'[n].inflight = edge[n].inflight
    BY <2>1, <2>2, <2>4
  <2>6. Legal(n) /\ Legal(o)
    BY <2>1, <2>2, ReceivedLegal
  <2>7. Returned(o)'
    <3>1. \A k \in DOMAIN edge'[n].slot : Answering(o, edge'[n].inflight, edge'[n].slot[k])
      <4>1. DOMAIN <<v>> = {1} /\ <<v>>[1] = v
        BY <2>1, Slots
      <4> QED BY <2>3, <2>5, <4>1
    <3>2. \A k \in DOMAIN wire'[n] : wire'[n][k].op = "resp" => Answering(o, wire'[n][k].id, wire'[n][k].val)
      BY <2>6 DEF Legal, LegalResps
    <3>3. \A k \in DOMAIN got[n] : Answering(o, k, got[n][k])
      BY <2>1 DEF Returned
    <3> QED BY <2>1, <2>2, <3>1, <3>2, <3>3 DEF Returned, Answering
  <2>8. Beside(o)
    BY <2>2, <2>5 DEF Beside
  <2> QED BY <2>1, <2>2, <2>5, <2>6, <2>7, <2>8, TakesAnswer
<1> QED BY <1>1, <1>2

\* A request that is new is one after every effect, and finds the queue empty: the other end made
\* it after the answer to the edge before it, which is that of an effect.
LEMMA NewRequest ==
  ASSUME Linked, NEW n \in N, Requested(n), New(n)
  PROVE  /\ Front(n) \in Ids /\ Front(n) \in Nat /\ Front(n) < edge[Other(n)].next
         /\ known[n].highest \in Nat /\ known[n].highest < Front(n) /\ known[n].highest <= Front(n)
         /\ inbox[n].queue = <<>>
         /\ \A k \in DOMAIN effects[n] : effects[n][k].id < Front(n)
<1> DEFINE o == Other(n)
           next == edge[o].next
           h == known[n].highest
           f == Front(n)
           l == Len(got[o])
<1>1. /\ Local /\ Shape /\ o \in N /\ wire[n] # <<>> /\ Head(wire[n]).op = "req" /\ Effective(n) /\ Returned(n)
      /\ f > h /\ effects[n] \in Seq(Edge) /\ inbox[n].queue \in Seq(Ids)
      /\ Numbering(o) /\ got[o] \in Seq(Answers)
  BY Peers, Parts DEF Linked, Local, Own, Peered, Requested, Reads, New
<1>2. f \in Ids /\ f < next
  <2>1. Head(wire[n]) = wire[n][1] /\ 1 \in DOMAIN wire[n]
    BY <1>1, Reading
  <2> QED BY <1>1, <2>1 DEF Effective, Front
<1>3. f \in Nat /\ h \in Nat /\ next \in Nat /\ l \in Nat /\ DOMAIN got[o] = 1..l
  <2>1. h \in Ids \cup {NoId} /\ next \in 1..(MaxEdges + 1)
    BY <1>1, Parts
  <2>2. l \in Nat /\ DOMAIN got[o] = 1..l
    BY <1>1, Elements
  <2> QED BY <1>2, <2>1, <2>2, Constants DEF Ids, NoId
<1>4. h < f /\ h <= f
  <2> HIDE DEF h, f
  <2> QED BY <1>1, <1>3
<1>5. \A k \in DOMAIN effects[n] : effects[n][k].id < f
  <2>1. \A k \in DOMAIN effects[n] : effects[n][k].id <= h /\ effects[n][k] \in Edge
    BY <1>1, Elements DEF Effective
  <2>2. \A x \in Edge : x.id \in Nat
    BY Requests DEF Ids
  <2>3. \A a \in Nat : a <= h => a < f
    <3> HIDE DEF h, f
    <3> QED BY <1>3, <1>4
  <2> QED BY <2>1, <2>2, <2>3
<1>6. inbox[n].queue = <<>>
  <2> SUFFICES ASSUME inbox[n].queue # <<>> PROVE FALSE
    OBVIOUS
  <2>1. Head(inbox[n].queue) = h /\ \A i \in DOMAIN effects[n] : effects[n][i].id < h
    BY QueueOfOne
  <2>2. h > 0
    <3>1. Head(inbox[n].queue) \in Ids
      BY <1>1, Elements
    <3> HIDE DEF h
    <3> QED BY <2>1, <3>1 DEF Ids
  <2>3. l = next - 1 \/ l = next - 2
    BY <1>1 DEF Numbering
  <2>4. h \in 1..l
    <3>1. \A a, b, c, d \in Nat : a > 0 /\ a < b /\ b < c /\ (d = c - 1 \/ d = c - 2) => a \in 1..d
      OBVIOUS
    <3> HIDE DEF h, f, l, next
    <3> QED BY <1>2, <1>3, <1>4, <2>2, <2>3, <3>1
  <2>5. PICK i \in DOMAIN effects[n] : effects[n][i].id = h
    BY <1>1, <1>3, <2>4 DEF Returned, Answering
  <2>6. h < h
    BY <2>1, <2>5
  <2> HIDE DEF h
  <2> QED BY <1>3, <2>6
<1> QED BY <1>2, <1>3, <1>4, <1>5, <1>6

\* It is queued ...
LEMMA EnqueueLinked == ASSUME Linked, NEW n \in N, Enqueue(n) PROVE Linked'
<1> DEFINE o == Other(n)
           f == Front(n)
           more == inbox[n].pending + 1
           claims == known[n].claimed \cup {f}
<1>1. /\ Local' /\ Shape /\ Effective(n) /\ Recorded(n) /\ Returned(n) /\ Returned(o) /\ o \in N /\ o # n /\ Other(o) = n
      /\ inbox \in [N -> Inboxes] /\ inbox[n] \in Inboxes /\ known \in [N -> Memory] /\ known[n] \in Memory
      /\ edge[n].next \in Nat /\ wire[n] # <<>>
  <2>1. Shape /\ Local' /\ o \in N /\ o # n /\ Other(o) = n
    BY EnqueueLocal, Peers DEF Linked, Local
  <2>2. edge[n].next \in Nat
    BY <2>1, Parts, Constants
  <2> QED BY <2>1, <2>2, Parts DEF Shape, Linked, Peered, Enqueue, Requested, Reads
<1>2. /\ f \in Ids /\ f \in Nat /\ f < edge[o].next /\ known[n].highest \in Nat
      /\ known[n].highest <= f /\ inbox[n].queue = <<>>
      /\ \A k \in DOMAIN effects[n] : effects[n][k].id < f
  BY NewRequest DEF Enqueue
<1>3. /\ known' = [known EXCEPT ![n].claimed = claims, ![n].highest = f]
      /\ inbox' = [inbox EXCEPT ![n].queue = <<f>>, ![n].pending = more]
      /\ Received(n) /\ owner' = owner /\ edge' = edge /\ core' = core /\ worker' = worker
      /\ closed' = closed /\ got' = got /\ effects' = effects
  <2>1. Append(inbox[n].queue, f) = <<f>>
    <3>1. Append(<<>>, f) = <<f>>
      OBVIOUS
    <3> QED BY <1>2, <3>1
  <2> QED BY <1>1, <2>1 DEF Enqueue, Claim, Inboxes, Memory
<1> HIDE DEF f, more, claims
<1>4. /\ known'[n].claimed = claims /\ known'[n].highest = f /\ known'[n].answered = known[n].answered
      /\ known'[o] = known[o]
  BY <1>1, <1>3 DEF Memory
<1>5. /\ inbox'[n].queue = <<f>> /\ inbox'[n].held = inbox[n].held /\ inbox'[n].done = inbox[n].done
      /\ inbox'[o] = inbox[o]
  BY <1>1, <1>3 DEF Inboxes
<1>6. Legal(n) /\ Legal(o)
  BY <1>1, <1>3, ReceivedLegal
<1>7. Effective(n)'
  <2>1. Len(<<f>>) = 1 /\ DOMAIN <<f>> = {1} /\ <<f>>[1] = f
    OBVIOUS
  <2>2. claims \subseteq 1..f
    <3>1. \A a, b \in Nat : a <= b => 1..a \subseteq 1..b
      OBVIOUS
    <3>2. f \in 1..f
      BY <1>2 DEF Ids
    <3> QED BY <1>1, <1>2, <3>1, <3>2 DEF Effective, claims
  <2>3. \A i, j \in DOMAIN effects[n] : i < j => effects[n][i].id < effects[n][j].id
    BY <1>1 DEF Effective
  <2>4. \A k \in DOMAIN effects[n] : effects[n][k].id <= f
    <3>1. \A k \in DOMAIN effects[n] : effects[n][k].id \in Nat
      <4>1. effects[n] \in Seq(Edge)
        BY <1>1, Parts
      <4>2. \A x \in Edge : x.id \in Nat
        BY Requests DEF Ids
      <4> QED BY <4>1, <4>2, Elements
    <3>2. \A a, b \in Nat : a < b => a <= b
      OBVIOUS
    <3> QED BY <1>2, <3>1, <3>2
  <2>5. Len(inbox'[n].queue) <= 1 /\ \A k \in DOMAIN inbox'[n].queue : inbox'[n].queue[k] = f
    BY <1>5, <2>1
  <2> QED BY <1>2, <1>3, <1>4, <1>6, <2>2, <2>3, <2>4, <2>5 DEF Effective, Legal, LegalReqs
<1>8. Recorded(n)'
  BY <1>1, <1>3, <1>4, <1>5 DEF Recorded, Effect
<1>9. Calling(n) /\ Calling(o) /\ edge'[n].next >= edge[n].next
  <2>1. edge[o].next \in Nat
    BY <1>1, Parts, Constants
  <2> QED BY <1>1, <1>3, <2>1 DEF Calling
<1>10. Returned(n)' /\ Returned(o)'
  BY <1>1, <1>3, <1>6, <1>9, ReturnedStands DEF Legal
<1>11. Beside(o)
  BY <1>3, <1>5 DEF Beside
<1> QED BY <1>1, <1>3, <1>4, <1>6, <1>7, <1>8, <1>9, <1>10, <1>11, Acting DEF Legal

\* ... or answered with the edge in flight.
LEMMA ReciprocateLinked == ASSUME Linked, NEW n \in N, Reciprocate(n) PROVE Linked'
<1> DEFINE o == Other(n)
           f == Front(n)
           r == Request(f, edge[n].inflight, FALSE)
           mem == Remembered(n, r)
<1>1. /\ Local' /\ Shape /\ Returned(o) /\ o \in N /\ o # n /\ Other(o) = n
      /\ edge \in [N -> Edges] /\ edge[n] \in Edges /\ edge[n].next \in Nat /\ wire[n] # <<>>
      /\ edge[n].inflight \in Ids /\ wire[o] \in Seq(Frames)
  <2>1. Shape /\ Local' /\ o \in N /\ o # n /\ Other(o) = n
    BY ReciprocateLocal, Peers DEF Linked, Local
  <2>2. edge[n].next \in Nat /\ edge[n].inflight \in Ids
    BY <2>1, Parts, Constants DEF Reciprocate, Crossing
  <2> QED BY <2>1, <2>2, Parts DEF Shape, Linked, Peered, Reciprocate, Requested, Reads
<1>2. /\ f \in Ids /\ f < edge[o].next /\ known[n].highest <= f /\ inbox[n].queue = <<>>
      /\ \A k \in DOMAIN effects[n] : effects[n][k].id < f
  BY NewRequest DEF Reciprocate
<1> HIDE DEF f
<1>3. r \in Edge /\ r.id = f /\ r.val = edge[n].inflight /\ r.val \in Answers
  <2>1. edge[n].inflight \in Answers /\ FALSE \in BOOLEAN
    BY <1>1, Sources
  <2>2. \A i \in Ids, v \in Answers, c \in BOOLEAN :
          Request(i, v, c) \in Edge /\ Request(i, v, c).id = i /\ Request(i, v, c).val = v
    BY Requests
  <2> DEFINE e == edge[n].inflight
  <2>3. e \in Answers /\ r = Request(f, e, FALSE)
    BY <2>1
  <2> HIDE DEF e, r
  <2>4. Request(f, e, FALSE) \in Edge /\ Request(f, e, FALSE).id = f /\ Request(f, e, FALSE).val = e
    BY ONLY <1>2, <2>1, <2>2, <2>3
  <2> QED BY <2>3, <2>4 DEF e
<1>4. /\ effects' = [effects EXCEPT ![n] = Append(@, r)] /\ known' = [mem EXCEPT ![n].highest = f]
      /\ Answer(n, Frame("resp", r.id, r.val)) /\ edge' = [edge EXCEPT ![n].recip = TRUE]
      /\ owner' = owner /\ inbox' = inbox /\ core' = core /\ worker' = worker
      /\ closed' = closed /\ got' = got
  BY DEF Reciprocate, f
<1> HIDE DEF r
<1>5. /\ mem \in [N -> Memory] /\ mem[n] \in Memory /\ mem[o] = known[o]
      /\ mem[n].claimed \subseteq known[n].claimed
      /\ \A k \in DOMAIN mem[n].answered :
           \/ mem[n].answered[k] = r
           \/ \E j \in DOMAIN known[n].answered : mem[n].answered[k] = known[n].answered[j]
  BY <1>1, <1>3, RememberedParts
<1> HIDE DEF mem
<1>6. /\ known'[n].highest = f /\ known'[n].claimed = mem[n].claimed /\ known'[n].answered = mem[n].answered
      /\ known'[o] = known[o]
  BY <1>1, <1>4, <1>5 DEF Memory
<1>7. /\ edge'[n].next = edge[n].next /\ edge'[n].slot = edge[n].slot
      /\ edge'[n].inflight = edge[n].inflight /\ edge'[o] = edge[o]
  BY <1>1, <1>4 DEF Edges
<1>8. Beside(o)
  BY <1>4, <1>7 DEF Beside
<1>9. wire'[n] = Tail(wire[n])
      /\ wire'[o] = IF closed[o] THEN wire[o] ELSE Append(wire[o], Frame("resp", r.id, r.val))
  BY <1>1, <1>2, <1>3, <1>4, Replying
<1>10. Legal(n)
  BY <1>1, <1>9, ReadLegal
<1>11. \A k \in DOMAIN wire'[o] :
         \/ \E j \in DOMAIN wire[o] : wire'[o][k] = wire[o][j]
         \/ wire'[o][k].op = "resp" /\ wire'[o][k].id = r.id /\ wire'[o][k].val = r.val
  <2> DEFINE x == Frame("resp", r.id, r.val)
  <2>1. x \in Frames /\ x.op = "resp" /\ x.id = r.id /\ x.val = r.val
    BY <1>2, <1>3, FrameParts
  <2>2. wire'[o] = IF closed[o] THEN wire[o] ELSE Append(wire[o], x)
    BY <1>9
  <2> HIDE DEF x
  <2>3. CASE closed[o]
    BY <2>2, <2>3
  <2>4. CASE ~closed[o]
    <3>1. \A k \in DOMAIN wire'[o] : wire'[o][k] = x \/ (k \in DOMAIN wire[o] /\ wire'[o][k] = wire[o][k])
      BY <1>1, <2>1, <2>2, <2>4, Appending
    <3> QED BY <2>1, <3>1
  <2> QED BY <2>3, <2>4
<1>12. LegalReqs(o)
  <2>1. \A k \in DOMAIN wire[o] : wire[o][k].op = "req" =>
          wire[o][k].id \in Ids /\ wire[o][k].id < edge[Other(o)].next
    BY <1>1 DEF Linked, Peered, Effective
  <2> QED BY <1>11, <2>1 DEF LegalReqs
<1>13. Effective(n)'
  BY <1>1, <1>2, <1>3, <1>4, <1>5, <1>6, <1>7, <1>10, EffectiveGrows DEF Legal
<1>14. Recorded(n)'
  <2>1. \A k \in DOMAIN known'[n].answered :
          \/ known'[n].answered[k] = r
          \/ \E j \in DOMAIN known[n].answered : known'[n].answered[k] = known[n].answered[j]
    BY <1>5, <1>6
  <2>2. owner'[n].hand \in {owner[n].hand, r} /\ inbox'[n].held = inbox[n].held
        /\ inbox'[n].done = inbox[n].done
    BY <1>4
  <2> QED BY <1>3, <1>4, <2>1, <2>2, RecordedGrows
<1>15. Returned(n)'
  BY <1>3, <1>4, <1>8, <1>11, ReturnedGrows
<1>16. effects'[o] = effects[o]
  BY <1>1, <1>3, <1>4, EffectsGrow
<1>17. edge'[n].next >= edge[n].next /\ Calling(n)
  <2>1. \A a \in Nat : a >= a
    OBVIOUS
  <2> QED BY <1>1, <1>4, <1>7, <2>1 DEF Calling
<1>18. Returned(o)'
  BY <1>1, <1>10, <1>16, <1>17, ReturnedStands DEF Legal
<1> QED BY <1>1, <1>6, <1>8, <1>12, <1>13, <1>14, <1>15, <1>16, <1>17, <1>18, Acting

-----------------------------------------------------------------------------
(* Every edge takes effect once *)

LEMMA InitLinked == Init => Linked
<1> SUFFICES ASSUME Init PROVE Linked
  OBVIOUS
<1>1. Local
  BY InitLocal
<1>2. ASSUME NEW n \in N PROVE Peered(n)
  <2>1. DOMAIN <<>> = {} /\ Len(<<>>) = 0
    BY EmptySeq
  <2>2. /\ effects[n] = <<>> /\ wire[n] = <<>> /\ inbox[n].queue = <<>> /\ inbox[n].done = <<>>
        /\ inbox[n].held = NoRequest /\ owner[n].hand = NoRequest /\ known[n].answered = <<>>
        /\ known[n].claimed = {} /\ known[n].highest = 0
    BY <1>2 DEF Init
  <2>3. Other(n) \in N /\ edge[Other(n)].next = 1 /\ wire[Other(n)] = <<>> /\ got[Other(n)] = <<>>
        /\ edge[Other(n)].slot = <<>>
    BY <1>2, Peers DEF Init
  <2>4. Effective(n)
    BY <2>1, <2>2, <2>3 DEF Effective
  <2>5. Recorded(n)
    BY <2>1, <2>2 DEF Recorded
  <2>6. Returned(n)
    BY <2>1, <2>3 DEF Returned
  <2> QED BY <2>4, <2>5, <2>6 DEF Peered
<1> QED BY <1>1, <1>2 DEF Linked

\* Every step keeps what is between the ends.
LEMMA NextLinked == ASSUME Linked, [Next]_vars PROVE Linked'
<1>1. ASSUME NEW n \in N, OwnerStep(n) PROVE Linked'
  <2>1. CASE BeginTurn(n) \/ PumpDone(n) \/ FinishFrame(n) \/ FinishTurn(n) \/ Progress(n) \/ Check(n)
    BY <2>1, BeginTurnLinked, PumpDoneLinked, FinishFrameLinked, FinishTurnLinked, ProgressLinked, CheckLinked
  <2>2. CASE OwnerStops(n) \/ Serve(n) \/ Defer(n) \/ Publish(n) \/ ArmMaster(n) \/ ArmSlave(n)
    BY <2>2, EndsLinked, ServeLinked, DeferLinked, PublishLinked, ArmLinked
  <2>3. CASE Clock(n) \/ Admit(n) \/ Reserve(n) \/ SendReq(n) \/ AnswerReserved(n) \/ Await(n) \/ Clear(n)
    BY <2>3, ClockLinked, AdmitLinked, ReserveLinked, SendReqLinked, AnswerReservedLinked, AwaitLinked, ClearLinked
  <2> QED BY <1>1, <2>1, <2>2, <2>3 DEF OwnerStep
<1>2. ASSUME NEW n \in N, WorkerStep(n) PROVE Linked'
  BY <1>2, WorkerSendLinked, WorkerSettleLinked DEF WorkerStep
<1>3. ASSUME NEW n \in N, ReaderStep(n) PROVE Linked'
  BY <1>3, ReplayLinked, EndsLinked, ReciprocateLinked, EnqueueLinked, ReadRespLinked, ReadTurnLinked DEF ReaderStep
<1>4. ASSUME NEW n \in N, Expire(n) \/ Repeat(n) \/ Stop(n) PROVE Linked'
  BY <1>4, EndsLinked, RepeatLinked
<1>5. CASE UNCHANGED vars
  <2>1. Local'
    BY <1>5, NextLocal DEF Linked
  <2>2. \A n \in N : Peered(n)'
    BY <1>5 DEF vars, Linked, Peered, Effective, Recorded, Returned, Effect, Answering
  <2> QED BY <2>1, <2>2 DEF Linked
<1>6. CASE Ended
  BY <1>5, <1>6 DEF Ended
<1> QED BY <1>1, <1>2, <1>3, <1>4, <1>5, <1>6 DEF Next

LEMMA LinkedExactlyOnce == Linked => ExactlyOnce
<1> SUFFICES ASSUME Linked, NEW n \in N
             PROVE  /\ \A i, j \in DOMAIN effects[n] : i < j => effects[n][i].id < effects[n][j].id
                    /\ \A k \in DOMAIN got[n] : \E i \in DOMAIN effects[Other(n)] :
                         effects[Other(n)][i].id = k /\ effects[Other(n)][i].val = got[n][k]
  BY DEF ExactlyOnce
<1>1. Other(n) \in N /\ Other(Other(n)) = n
  BY Peers
<1>2. Effective(n) /\ Returned(Other(n))
  BY <1>1 DEF Linked, Peered
<1> QED BY <1>1, <1>2 DEF Effective, Returned, Answering

\* Every identified edge takes effect once, in the order the peer made them, and on_edge returns
\* the bit the peer recorded for that edge: whatever was repeated, crossed, queued, held or evicted
\* from the replay history, whatever its length, and whoever was stopped.
THEOREM EdgesTakeEffectOnce == Spec => []ExactlyOnce
<1>1. Init => Linked
  BY InitLinked
<1>2. Linked /\ [Next]_vars => Linked'
  BY NextLinked
<1>3. Linked => ExactlyOnce
  BY LinkedExactlyOnce
<1> QED BY <1>1, <1>2, <1>3, PTL DEF Spec

-----------------------------------------------------------------------------
(* Without repetition an edge is at one stage *)

\* What is on a wire after a change that adds no frame of a kind.
Fewer(w, v, op) ==
  /\ Has(v, op) => Has(w, op)
  /\ Lone(w, op) => Lone(v, op)
  /\ \A i : Marked(w, op, i) => Marked(v, op, i)
Passing(w, v) == Fewer(w, v, "req") /\ Fewer(w, v, "resp") /\ (Ahead(v) => Ahead(w))

\* Frames are taken or lost ...
LEMMA Dropping ==
  ASSUME NEW w \in Seq(Frames)
  PROVE  \A op : Fewer(w, w, op) /\ Fewer(w, <<>>, op) /\ (w # <<>> => Fewer(w, Tail(w), op))
<1>1. DOMAIN <<>> = {}
  OBVIOUS
<1>2. \A op : Fewer(w, w, op) /\ Fewer(w, <<>>, op)
  BY <1>1 DEF Fewer, Has, Lone, Marked
<1>3. ASSUME w # <<>>, NEW op PROVE Fewer(w, Tail(w), op)
  <2> DEFINE v == Tail(w)
  <2>1. \A k \in DOMAIN v : k \in Nat /\ k + 1 \in DOMAIN w /\ v[k] = w[k + 1]
    BY <1>3, Taking
  <2>2. \A j, k \in Nat : j + 1 = k + 1 => j = k
    OBVIOUS
  <2> HIDE DEF v
  <2>3. Has(v, op) => Has(w, op)
    BY <2>1 DEF Has
  <2>4. ASSUME Lone(w, op) PROVE Lone(v, op)
    <3> SUFFICES ASSUME NEW j \in DOMAIN v, NEW k \in DOMAIN v, v[j].op = op, v[k].op = op PROVE j = k
      BY DEF Lone
    <3>1. j + 1 = k + 1
      BY <2>1, <2>4 DEF Lone
    <3> QED BY <2>1, <2>2, <3>1
  <2>5. \A i : Marked(w, op, i) => Marked(v, op, i)
    BY <2>1 DEF Marked
  <2> QED BY <2>3, <2>4, <2>5 DEF Fewer, v
<1> QED BY <1>2, <1>3

LEMMA Losing ==
  ASSUME NEW w \in Seq(Frames)
  PROVE  /\ Passing(w, w) /\ Passing(w, <<>>) /\ (w # <<>> => Passing(w, Tail(w)))
         /\ \A op : ~Has(<<>>, op) /\ Lone(<<>>, op) /\ ~Ahead(<<>>)
<1>1. DOMAIN <<>> = {}
  OBVIOUS
<1>2. Passing(w, w) /\ Passing(w, <<>>)
  BY <1>1, Dropping DEF Passing, Ahead
<1>3. \A op : ~Has(<<>>, op) /\ Lone(<<>>, op) /\ ~Ahead(<<>>)
  BY <1>1 DEF Has, Lone, Ahead
<1>4. ASSUME w # <<>> PROVE Passing(w, Tail(w))
  <2> DEFINE v == Tail(w)
  <2>1. \A k \in DOMAIN v : k \in Nat /\ k + 1 \in DOMAIN w /\ v[k] = w[k + 1]
    BY <1>4, Taking
  <2>2. \A j, k \in Nat : j < k => j + 1 < k + 1
    OBVIOUS
  <2>3. Fewer(w, v, "req") /\ Fewer(w, v, "resp")
    BY <1>4, Dropping
  <2> HIDE DEF v
  <2>4. Ahead(v) => Ahead(w)
    <3> SUFFICES ASSUME NEW j \in DOMAIN v, NEW k \in DOMAIN v, j < k, v[j].op = "req", v[k].op = "resp"
                 PROVE  Ahead(w)
      BY DEF Ahead
    <3>1. j + 1 < k + 1 /\ j + 1 \in DOMAIN w /\ k + 1 \in DOMAIN w /\ w[j + 1].op = "req" /\ w[k + 1].op = "resp"
      BY <2>1, <2>2
    <3> QED BY ONLY <3>1 DEF Ahead
  <2> QED BY <2>3, <2>4 DEF Passing, v
<1> QED BY <1>2, <1>3, <1>4

\* ... or one is added.
LEMMA Gaining ==
  ASSUME NEW w \in Seq(Frames), NEW f \in Frames
  PROVE  /\ \A op : f.op # op => Fewer(w, Append(w, f), op)
         /\ \A op : Has(Append(w, f), op) <=> Has(w, op) \/ f.op = op
         /\ \A op : ~Has(w, op) => Lone(Append(w, f), op) /\ Marked(Append(w, f), op, f.id)
         /\ Ahead(Append(w, f)) => Ahead(w) \/ (f.op = "resp" /\ Has(w, "req"))
<1> DEFINE v == Append(w, f)
           last == Len(w) + 1
<1>1. /\ DOMAIN v = DOMAIN w \cup {last} /\ last \notin DOMAIN w /\ v[last] = f
      /\ \A k \in DOMAIN w : v[k] = w[k] /\ k < last
  BY Appending
<1>2. \A k \in DOMAIN w : k \in Nat /\ last \in Nat
  BY Elements
<1>3. \A k, m \in Nat : ~(k < m /\ m < k)
  OBVIOUS
<1> HIDE DEF v, last
<1>4. \A op : f.op # op => Fewer(w, v, op)
  BY <1>1 DEF Fewer, Has, Lone, Marked
<1>5. \A op : Has(v, op) <=> Has(w, op) \/ f.op = op
  BY <1>1 DEF Has
<1>6. \A op : ~Has(w, op) => Lone(v, op) /\ Marked(v, op, f.id)
  BY <1>1 DEF Has, Lone, Marked
<1>7. Ahead(v) => Ahead(w) \/ (f.op = "resp" /\ Has(w, "req"))
  <2> SUFFICES ASSUME NEW j \in DOMAIN v, NEW k \in DOMAIN v, j < k, v[j].op = "req", v[k].op = "resp"
               PROVE  Ahead(w) \/ (f.op = "resp" /\ Has(w, "req"))
    BY DEF Ahead
  <2>1. CASE k \in DOMAIN w
    <3>1. j \in DOMAIN w
      <4>1. ASSUME j = last PROVE FALSE
        BY <1>1, <1>2, <1>3, <2>1, <4>1
      <4> QED BY <1>1, <4>1
    <3> QED BY <1>1, <2>1, <3>1 DEF Ahead
  <2>2. CASE k = last
    <3>1. j \in DOMAIN w
      <4>1. last \in Nat => ~(last < last)
        OBVIOUS
      <4>2. last \in Nat
        BY Elements DEF last
      <4> QED BY <1>1, <2>2, <4>1, <4>2
    <3> QED BY <1>1, <2>2, <3>1 DEF Has
  <2> QED BY <1>1, <2>1, <2>2
<1> QED BY <1>4, <1>5, <1>6, <1>7 DEF v

\* The first frame is read.
LEMMA First ==
  ASSUME NEW w \in Seq(Frames), w # <<>>, NEW op, Head(w).op = op
  PROVE  /\ Has(w, op) /\ (Lone(w, op) => ~Has(Tail(w), op))
         /\ \A i : Marked(w, op, i) => Head(w).id = i
<1>1. 1 \in DOMAIN w /\ Head(w) = w[1]
  BY Elements
<1>2. Has(w, op) /\ \A i : Marked(w, op, i) => Head(w).id = i
  BY <1>1 DEF Has, Marked
<1>3. ASSUME Lone(w, op), NEW k \in DOMAIN Tail(w), Tail(w)[k].op = op PROVE FALSE
  <2>1. k + 1 \in DOMAIN w /\ k + 1 # 1 /\ Tail(w)[k] = w[k + 1]
    BY Taking
  <2> QED BY <1>1, <1>3, <2>1 DEF Lone
<1> QED BY <1>2, <1>3 DEF Has

\* An end takes nothing on for the other ...
Quiet(m) ==
  /\ owner'[m].hand \in {owner[m].hand, NoRequest} /\ inbox'[m].held \in {inbox[m].held, NoRequest}
  /\ inbox'[m].done = inbox[m].done /\ inbox'[m].queue \in {inbox[m].queue, <<>>}
  /\ known'[m].highest = known[m].highest /\ effects'[m] = effects[m]
  /\ owner'[m].pc \in Clocking => owner[m].pc \in Clocking \/ ~Completing(m)
  /\ Has(wire'[Other(m)], "req") => Has(wire[Other(m)], "req") \/ ~Completing(m)
  /\ Fewer(wire[m], wire'[m], "req")

\* ... and the other asks for nothing.
Calm(m) ==
  /\ edge'[m].slot = edge[m].slot /\ edge'[m].next = edge[m].next /\ got'[m] = got[m]
  /\ owner'[m].pc \in {"reserve", "send"} => owner[m].pc \in {"reserve", "send"}
  /\ Fewer(wire[m], wire'[m], "resp")
  /\ Ahead(wire'[m]) => Ahead(wire[m])

\* What each stage is.
LEMMA StageNames ==
  ASSUME NEW n
  PROVE  /\ In(n, "send") <=> owner[Other(n)].pc \in {"reserve", "send"}
         /\ In(n, "req") <=> Has(wire[n], "req")
         /\ In(n, "queue") <=> inbox[n].queue # <<>>
         /\ In(n, "hand") <=> owner[n].hand # NoRequest
         /\ In(n, "held") <=> inbox[n].held # NoRequest
         /\ In(n, "done") <=> inbox[n].done # <<>>
         /\ In(n, "resp") <=> Has(wire[Other(n)], "resp")
         /\ In(n, "slot") <=> edge[Other(n)].slot # <<>>
         /\ {"send", "req", "queue", "hand", "held", "done", "resp", "slot"} = Stages
BY DEF In, Stages

\* Then an edge is at its stage or gone.
LEMMA OnceStands ==
  ASSUME NEW m \in N, Once(m), Quiet(m), Calm(Other(m))
  PROVE  Once(m)'
<1> DEFINE o == Other(m)
<1>1. Single(m) /\ Lagging(m) /\ Numbered(m) /\ Behind(m)
  BY DEF Once
<1>2. /\ inbox'[m].done = inbox[m].done /\ inbox'[m].queue \in {inbox[m].queue, <<>>}
      /\ known'[m].highest = known[m].highest /\ effects'[m] = effects[m]
      /\ owner'[m].hand \in {owner[m].hand, NoRequest} /\ inbox'[m].held \in {inbox[m].held, NoRequest}
      /\ owner'[m].pc \in Clocking => owner[m].pc \in Clocking \/ ~Completing(m)
      /\ Has(wire'[o], "req") => Has(wire[o], "req") \/ ~Completing(m)
      /\ Has(wire'[m], "req") => Has(wire[m], "req")
      /\ Lone(wire[m], "req") => Lone(wire'[m], "req")
      /\ \A i : Marked(wire[m], "req", i) => Marked(wire'[m], "req", i)
  BY DEF Quiet, Fewer
<1>3. /\ edge'[o].slot = edge[o].slot /\ edge'[o].next = edge[o].next /\ got'[o] = got[o]
      /\ owner'[o].pc \in {"reserve", "send"} => owner[o].pc \in {"reserve", "send"}
      /\ Has(wire'[o], "resp") => Has(wire[o], "resp")
      /\ Lone(wire[o], "resp") => Lone(wire'[o], "resp")
      /\ \A i : Marked(wire[o], "resp", i) => Marked(wire'[o], "resp", i)
      /\ Ahead(wire'[o]) => Ahead(wire[o])
  BY DEF Calm, Fewer
<1>4. \A p \in Stages : In(m, p)' => In(m, p)
  BY ONLY <1>2, <1>3 DEF In, Stages
<1>5. Single(m)'
  BY ONLY <1>1, <1>2, <1>3, <1>4 DEF Single
<1>6. Lagging(m)'
  BY ONLY <1>1, <1>3, <1>4 DEF Lagging
<1>7. Numbered(m)'
  <2>1. (In(m, "send") \/ In(m, "req"))' => In(m, "send") \/ In(m, "req")
    BY ONLY <1>4 DEF Stages
  <2>2. DOMAIN <<>> = {}
    OBVIOUS
  <2>3. \A k \in DOMAIN inbox'[m].queue : k \in DOMAIN inbox[m].queue /\ inbox'[m].queue[k] = inbox[m].queue[k]
    BY ONLY <1>2, <2>2
  <2> QED BY ONLY <1>1, <1>2, <1>3, <2>1, <2>3 DEF Numbered
<1>8. Behind(m)'
  <2>1. Completing(m)' => Completing(m)
    BY ONLY <1>2, Requests DEF Completing, Completed
  <2> QED BY ONLY <1>1, <1>2, <1>3, <2>1 DEF Behind
<1> QED BY <1>5, <1>6, <1>7, <1>8 DEF Once

\* An end that stands aside takes nothing on and asks for nothing.
LEMMA Aside ==
  ASSUME NEW m \in N, Beside(m), known'[m] = known[m], effects'[m] = effects[m]
  PROVE  /\ Fewer(wire[m], wire'[m], "req") /\ (Has(wire'[Other(m)], "req") => Has(wire[Other(m)], "req"))
              => Quiet(m)
         /\ Passing(wire[m], wire'[m]) => Calm(m)
BY DEF Beside, Quiet, Calm, Passing, Fewer

\* So it is enough to look at what the end that takes a step does.
LEMMA OnceQuiet ==
  ASSUME NEW n \in N, Once(n), Once(Other(n)), Quiet(n), Calm(n), Passing(wire[n], wire'[n]),
         Passing(wire[Other(n)], wire'[Other(n)]), Beside(Other(n)),
         known'[Other(n)] = known[Other(n)], effects'[Other(n)] = effects[Other(n)]
  PROVE  Once(n)' /\ Once(Other(n))'
<1>1. Other(n) \in N /\ Other(Other(n)) = n
  BY Peers
<1>2. Quiet(Other(n)) /\ Calm(Other(n))
  BY <1>1, Aside DEF Passing, Fewer
<1> QED BY <1>1, <1>2, OnceStands

\* The owner goes on, or what it has to do does; the wires carry no more than before.
LEMMA OncePasses ==
  ASSUME Linked, NEW n \in N, Once(n), Once(Other(n)), Beside(Other(n)),
         known' = known, effects' = effects, got' = got,
         edge'[n].slot = edge[n].slot, edge'[n].next = edge[n].next,
         owner'[n].hand \in {owner[n].hand, NoRequest}, inbox'[n].held \in {inbox[n].held, NoRequest},
         inbox'[n].done = inbox[n].done, inbox'[n].queue \in {inbox[n].queue, <<>>},
         owner'[n].pc \in Clocking => owner[n].pc \in Clocking,
         owner'[n].pc \in {"reserve", "send"} => owner[n].pc \in {"reserve", "send"},
         \A m \in N : Passing(wire[m], wire'[m])
  PROVE  Once(n)' /\ Once(Other(n))'
<1>1. Other(n) \in N /\ Other(Other(n)) = n
  BY Peers
<1>2. Passing(wire[n], wire'[n]) /\ Passing(wire[Other(n)], wire'[Other(n)])
  BY <1>1
<1>3. Quiet(n) /\ Calm(n)
  BY <1>2 DEF Quiet, Calm, Passing, Fewer
<1> QED BY <1>1, <1>2, <1>3, OnceQuiet

\* Signals pass the requests and responses by.
LEMMA WiresPass ==
  ASSUME Linked, NEW n \in N
  PROVE  /\ wire' = wire => \A m \in N : Passing(wire[m], wire'[m])
         /\ wire[n] # <<>> /\ Received(n) => \A m \in N : Passing(wire[m], wire'[m])
         /\ wire' = [wire EXCEPT ![n] = <<>>] => \A m \in N : Passing(wire[m], wire'[m])
         /\ \A op \in {"tick", "done", "ack"} :
              Send(n, Frame(op, NoId, Idle)) => \A m \in N : Passing(wire[m], wire'[m])
<1>1. /\ Shape /\ Other(n) \in N /\ Other(n) # n /\ (\A m \in N : m = n \/ m = Other(n))
      /\ wire \in [N -> Seq(Frames)] /\ (\A m \in N : wire[m] \in Seq(Frames))
  BY Peers DEF Linked, Local, Shape
<1>2. \A m \in N : Passing(wire[m], wire[m]) /\ Passing(wire[m], <<>>)
                   /\ (wire[m] # <<>> => Passing(wire[m], Tail(wire[m])))
  BY <1>1, Losing
<1>3. ASSUME wire[n] # <<>>, Received(n) PROVE \A m \in N : Passing(wire[m], wire'[m])
  BY <1>1, <1>2, <1>3, Reading
<1>4. ASSUME wire' = [wire EXCEPT ![n] = <<>>] PROVE \A m \in N : Passing(wire[m], wire'[m])
  BY <1>1, <1>2, <1>4
<1>5. ASSUME NEW op \in {"tick", "done", "ack"}, Send(n, Frame(op, NoId, Idle))
      PROVE  \A m \in N : Passing(wire[m], wire'[m])
  <2> DEFINE f == Frame(op, NoId, Idle)
  <2>1. f \in Frames /\ f.op = op
    BY FrameParts, Sources
  <2>2. wire'[n] = wire[n] /\ wire'[Other(n)] = IF closed[Other(n)] THEN wire[Other(n)] ELSE Append(wire[Other(n)], f)
    BY <1>1, <1>5, Sending, Sources
  <2> HIDE DEF f
  <2>3. Passing(wire[Other(n)], Append(wire[Other(n)], f))
    BY <1>1, <2>1, Gaining DEF Passing
  <2> QED BY <1>1, <1>2, <2>2, <2>3
<1> QED BY <1>2, <1>3, <1>4, <1>5

\* Frames of the owner, their barrier and the game.
LEMMA BeginTurnOnce ==
  ASSUME Linked, NEW n \in N, Once(n), Once(Other(n)), BeginTurn(n) PROVE Once(n)' /\ Once(Other(n))'
<1>1. Shape /\ owner[n] \in Owners /\ owner \in [N -> Owners] /\ Other(n) # n /\ Other(n) \in N
  BY Peers, Parts DEF Linked, Local, Shape
<1>2. \A m \in N : Passing(wire[m], wire'[m])
  <2>1. wire' = wire \/ Send(n, Frame("tick", NoId, Idle))
    BY DEF BeginTurn
  <2> QED BY <2>1, WiresPass
<1>3. /\ owner'[n].hand = owner[n].hand /\ owner'[n].pc = "pump"
      /\ owner'[Other(n)] = owner[Other(n)]
  BY <1>1 DEF BeginTurn, Owners
<1> QED BY <1>1, <1>2, <1>3, OncePasses DEF BeginTurn, Clocking, Asking, Beside

LEMMA PumpDoneOnce ==
  ASSUME Linked, NEW n \in N, Once(n), Once(Other(n)), PumpDone(n) PROVE Once(n)' /\ Once(Other(n))'
<1> DEFINE to == ServiceEnds(n, owner[n], inbox[n])
<1>1. /\ Local /\ Shape /\ Position(n) /\ owner[n] \in Owners /\ inbox[n] \in Inboxes
      /\ owner[n].pc = "pump" /\ owner \in [N -> Owners] /\ Other(n) # n /\ Other(n) \in N
  BY Peers, Parts DEF Linked, Local, Own, PumpDone, At, Shape
<1>2. owner[n].kind # "extra" /\ ~owner[n].inframe
  BY <1>1 DEF Position, Orderly
<1>3. to.hand = NoRequest /\ to.pc \in {"frame", "turn", "finish", "loop", "check"}
  BY <1>1, <1>2, ServiceReturns
<1>4. owner' = [owner EXCEPT ![n] = to]
  BY DEF PumpDone
<1> HIDE DEF to
<1>5. owner'[n] = to /\ owner'[Other(n)] = owner[Other(n)]
  BY <1>1, <1>4
<1>6. \A m \in N : Passing(wire[m], wire'[m])
  BY WiresPass DEF PumpDone
<1> QED BY <1>1, <1>3, <1>5, <1>6, OncePasses DEF PumpDone, Clocking, Asking, Beside

LEMMA FinishTurnOnce ==
  ASSUME Linked, NEW n \in N, Once(n), Once(Other(n)), FinishTurn(n) PROVE Once(n)' /\ Once(Other(n))'
<1>1. Shape /\ "loop" \in Place /\ Other(n) \in N
  BY Peers DEF Linked, Local, Place, Waits
<1>2. \A m \in N : Passing(wire[m], wire'[m])
  BY WiresPass DEF FinishTurn
<1>3. owner'[n].hand = owner[n].hand /\ owner'[n].pc = "loop" /\ owner'[Other(n)] = owner[Other(n)]
  BY <1>1, Going DEF FinishTurn
<1> QED BY <1>1, <1>2, <1>3, OncePasses DEF FinishTurn, Clocking, Asking, Beside

LEMMA ProgressOnce ==
  ASSUME Linked, NEW n \in N, Once(n), Once(Other(n)), Progress(n) PROVE Once(n)' /\ Once(Other(n))'
<1>1. Shape /\ owner[n] \in Owners /\ owner \in [N -> Owners] /\ Other(n) # n /\ Other(n) \in N
  BY Peers, Parts DEF Linked, Local, Shape
<1>2. \A m \in N : Passing(wire[m], wire'[m])
  BY WiresPass DEF Progress
<1>3. owner'[n].hand = owner[n].hand /\ owner'[n].pc = "pump" /\ owner'[Other(n)] = owner[Other(n)]
  <2> DEFINE some == inbox[n].pending > 0
  <2>1. owner' = [owner EXCEPT ![n].pc = "pump", ![n].kind = "loop", ![n].applied = FALSE,
                               ![n].before = some]
    BY DEF Progress
  <2> HIDE DEF some
  <2> QED BY <1>1, <2>1 DEF Owners
<1> QED BY <1>1, <1>2, <1>3, OncePasses DEF Progress, Clocking, Asking, Beside

LEMMA CheckOnce ==
  ASSUME Linked, NEW n \in N, Once(n), Once(Other(n)), Check(n) PROVE Once(n)' /\ Once(Other(n))'
<1>1. Shape /\ "loop" \in Place /\ "turn" \in Place /\ Other(n) \in N
  BY Peers DEF Linked, Local, Place, Waits
<1>2. \A m \in N : Passing(wire[m], wire'[m])
  <2>1. wire' = wire \/ Send(n, Frame("ack", NoId, Idle))
    BY DEF Check
  <2> QED BY <2>1, WiresPass
<1>3. GoTo(n, "loop") \/ GoTo(n, "turn")
  BY DEF Check
<1>4. owner'[n].hand = owner[n].hand /\ owner'[n].pc \in {"loop", "turn"} /\ owner'[Other(n)] = owner[Other(n)]
  BY <1>1, <1>3, Going
<1> QED BY <1>1, <1>2, <1>4, OncePasses DEF Check, Clocking, Asking, Beside

LEMMA ArmOnce ==
  ASSUME Linked, NEW n \in N, Once(n), Once(Other(n)), ArmMaster(n) \/ ArmSlave(n)
  PROVE  Once(n)' /\ Once(Other(n))'
<1>1. core \in [N -> Cores] /\ Other(n) \in N /\ Other(n) # n
  BY Peers DEF Linked, Local, Shape
<1>2. core'[Other(n)] = core[Other(n)] /\ owner' = owner
  BY <1>1 DEF ArmMaster, ArmSlave
<1>3. \A m \in N : Passing(wire[m], wire'[m])
  BY WiresPass DEF ArmMaster, ArmSlave
<1> QED BY <1>1, <1>2, <1>3, OncePasses DEF ArmMaster, ArmSlave, Beside

LEMMA DeferOnce ==
  ASSUME Linked, NEW n \in N, Once(n), Once(Other(n)), Defer(n) PROVE Once(n)' /\ Once(Other(n))'
<1> DEFINE to == ServiceEnds(n, owner[n], inbox[n])
<1>1. /\ Local /\ Shape /\ Position(n) /\ owner[n] \in Owners /\ inbox[n] \in Inboxes
      /\ owner[n].pc = "pump" /\ owner \in [N -> Owners] /\ inbox \in [N -> Inboxes]
      /\ Other(n) # n /\ Other(n) \in N /\ inbox[n].queue # <<>>
  BY Peers, Parts DEF Linked, Local, Own, Defer, At, Shape
<1>2. owner[n].kind # "extra" /\ ~owner[n].inframe
  BY <1>1 DEF Position, Orderly
<1>3. to.hand = NoRequest /\ to.pc \in {"frame", "turn", "finish", "loop", "check"}
  BY <1>1, <1>2, ServiceReturns
<1>4. owner' = [owner EXCEPT ![n] = to]
  BY DEF Defer
<1> HIDE DEF to
<1>5. owner'[n] = to /\ owner'[Other(n)] = owner[Other(n)]
  BY <1>1, <1>4
<1>6. /\ inbox'[n].held = inbox[n].held /\ inbox'[n].done = inbox[n].done
      /\ inbox'[Other(n)] = inbox[Other(n)] /\ inbox'[n].queue \in {inbox[n].queue, <<>>}
  <2>1. CASE closed[n]
    <3> DEFINE rest == Tail(inbox[n].queue)  less == Less(inbox[n].pending)
    <3>1. inbox' = [inbox EXCEPT ![n].queue = rest, ![n].pending = less]
      BY <1>1, <2>1 DEF Defer, Inboxes
    <3>2. rest = <<>>
      BY <1>1, QueueOfOne
    <3> HIDE DEF rest, less
    <3> QED BY <1>1, <3>1, <3>2 DEF Inboxes
  <2>2. CASE ~closed[n]
    BY <2>2 DEF Defer
  <2> QED BY <2>1, <2>2
<1>7. \A m \in N : Passing(wire[m], wire'[m])
  BY WiresPass DEF Defer
<1> QED BY <1>1, <1>3, <1>5, <1>6, <1>7, OncePasses DEF Defer, Clocking, Asking, Beside

LEMMA ClearOnce ==
  ASSUME Linked, NEW n \in N, Once(n), Once(Other(n)), Clear(n) PROVE Once(n)' /\ Once(Other(n))'
<1>1. /\ Shape /\ edge \in [N -> Edges] /\ edge[n] \in Edges /\ core \in [N -> Cores]
      /\ Other(n) \in N /\ Other(n) # n /\ "frame" \in Place
  BY Peers, Parts DEF Linked, Local, Shape, Place
<1>2. owner'[n].hand = owner[n].hand /\ owner'[n].pc = "frame" /\ owner'[Other(n)] = owner[Other(n)]
  BY <1>1, Going DEF Clear
<1>3. edge'[n].slot = edge[n].slot /\ edge'[n].next = edge[n].next /\ edge'[Other(n)] = edge[Other(n)]
  BY <1>1 DEF Clear, Edges
<1>4. core'[Other(n)] = core[Other(n)]
  BY <1>1 DEF Clear
<1>5. \A m \in N : Passing(wire[m], wire'[m])
  BY WiresPass DEF Clear
<1> QED BY <1>1, <1>2, <1>3, <1>4, <1>5, OncePasses DEF Clear, Clocking, Asking, Beside

\* The worker settles a response, the reader takes a signal.
LEMMA WorkerSettleOnce ==
  ASSUME Linked, NEW n \in N, Once(n), Once(Other(n)), WorkerSettle(n) PROVE Once(n)' /\ Once(Other(n))'
<1>1. /\ inbox \in [N -> Inboxes] /\ inbox[n] \in Inboxes /\ worker \in [N -> Response]
      /\ Other(n) # n /\ Other(n) \in N
  BY Peers, Parts DEF Linked, Local, Shape
<1>2. /\ inbox'[n].queue = inbox[n].queue /\ inbox'[n].done = inbox[n].done
      /\ inbox'[n].held = inbox[n].held /\ inbox'[Other(n)] = inbox[Other(n)]
      /\ worker'[Other(n)] = worker[Other(n)]
  <2> DEFINE less == Less(inbox[n].pending)
             owed == IF worker[n].completed THEN Less(inbox[n].owed) ELSE inbox[n].owed
  <2>1. inbox' = [inbox EXCEPT ![n].pending = less, ![n].owed = owed]
    BY <1>1 DEF WorkerSettle, Inboxes
  <2>2. worker'[Other(n)] = worker[Other(n)]
    BY <1>1 DEF WorkerSettle
  <2> HIDE DEF less, owed
  <2> QED BY <1>1, <2>1, <2>2 DEF Inboxes
<1>3. \A m \in N : Passing(wire[m], wire'[m])
  BY WiresPass DEF WorkerSettle
<1> QED BY <1>1, <1>2, <1>3, OncePasses DEF WorkerSettle, Beside

LEMMA ReadTurnOnce ==
  ASSUME Linked, NEW n \in N, Once(n), Once(Other(n)), ReadTurn(n), ~Accuse(n)
  PROVE  Once(n)' /\ Once(Other(n))'
<1>1. /\ wire[n] # <<>> /\ Received(n)
      /\ UNCHANGED <<barrier, owner, edge, inbox, known, core, worker, closed, accused, repeats, got, effects>>
  BY DEF ReadTurn, Reads
<1>2. \A m \in N : Passing(wire[m], wire'[m])
  BY <1>1, WiresPass
<1> QED BY <1>1, <1>2, OncePasses DEF Beside

\* An end closes.
LEMMA ClosesOnce ==
  ASSUME Linked, NEW n \in N, Once(n), Once(Other(n)), MarkClosed(n), known' = known, core' = core,
         worker' = worker, got' = got, effects' = effects,
         owner'[Other(n)] = owner[Other(n)], edge'[Other(n)] = edge[Other(n)],
         owner'[n].hand \in {owner[n].hand, NoRequest},
         edge'[n].next = edge[n].next, edge'[n].slot = edge[n].slot,
         owner'[n].pc \in {owner[n].pc, "down"}
  PROVE  Once(n)' /\ Once(Other(n))'
<1>1. /\ Shape /\ (\A m \in N : Accounts(m)) /\ Other(n) \in N
  BY Peers DEF Linked, Local, Own
<1>2. /\ closed'[Other(n)] = closed[Other(n)] /\ inbox'[Other(n)] = inbox[Other(n)]
      /\ inbox'[n].queue = inbox[n].queue /\ inbox'[n].done = inbox[n].done
      /\ inbox'[n].held = NoRequest
  BY <1>1, Closing
<1>3. \A m \in N : Passing(wire[m], wire'[m])
  BY WiresPass DEF MarkClosed
<1> QED BY <1>1, <1>2, <1>3, OncePasses DEF Clocking, Asking, Beside

LEMMA AbortOnce ==
  ASSUME Linked, NEW n \in N, Once(n), Once(Other(n)), Abort(n) PROVE Once(n)' /\ Once(Other(n))'
<1>1. /\ owner \in [N -> Owners] /\ edge \in [N -> Edges] /\ owner[n] \in Owners
      /\ edge[n] \in Edges /\ Other(n) # n /\ Other(n) \in N
  BY Peers, Parts DEF Linked, Local, Shape
<1>2. /\ owner'[n].hand = NoRequest /\ owner'[n].pc = "down" /\ owner'[Other(n)] = owner[Other(n)]
      /\ edge'[n].next = edge[n].next /\ edge'[n].slot = edge[n].slot /\ edge'[Other(n)] = edge[Other(n)]
  BY <1>1 DEF Abort, Owners, Edges
<1> QED BY <1>1, <1>2, ClosesOnce DEF Abort

LEMMA EndsOnce ==
  ASSUME Linked, NEW n \in N, Once(n), Once(Other(n)),
         OwnerStops(n) \/ Expire(n) \/ RejectReq(n) \/ Accuse(n) \/ ReadEnd(n) \/ Stop(n)
  PROVE  Once(n)' /\ Once(Other(n))'
<1>1. CASE OwnerStops(n) \/ Expire(n)
  BY <1>1, AbortOnce DEF OwnerStops, Expire
<1>2. CASE RejectReq(n) \/ Accuse(n) \/ ReadEnd(n) \/ Stop(n)
  <2>1. /\ MarkClosed(n) /\ owner' = owner /\ edge' = edge /\ known' = known /\ core' = core
        /\ worker' = worker /\ got' = got /\ effects' = effects
    BY <1>2 DEF RejectReq, Accuse, ReadEnd, Stop
  <2> QED BY <2>1, ClosesOnce
<1> QED BY <1>1, <1>2

\* From one stage to another.
LEMMA StageMoves ==
  ASSUME NEW m \in N, Single(m), Lagging(m), NEW a \in Stages, NEW b, In(m, a),
         \A p \in Stages : In(m, p)' => p = b \/ (p # a /\ In(m, p)),
         got'[Other(m)] = got[Other(m)], edge'[Other(m)].next = edge[Other(m)].next
  PROVE  /\ \A p \in Stages : In(m, p) => p = a
         /\ \A p \in Stages : In(m, p)' => p = b
         /\ \A p, q \in Stages : In(m, p)' /\ In(m, q)' => p = q
         /\ Lagging(m)'
<1>1. \A p \in Stages : In(m, p) => p = a
  BY DEF Single
<1>2. \A p \in Stages : In(m, p)' => p = b
  BY <1>1
<1>3. Lagging(m)'
  BY DEF Lagging
<1> QED BY <1>1, <1>2, <1>3

\* A queue of the worker with one response.
LEMMA OneResponse ==
  ASSUME NEW w \in Seq(Edge), w = <<>>, NEW r \in Edge
  PROVE  /\ Append(w, r) # <<>> /\ Len(Append(w, r)) <= 1
         /\ \A k \in DOMAIN Append(w, r) : Append(w, r)[k] = r
         /\ Finished(Append(w, r)) # {} => r.completed
<1>1. /\ Append(w, r) # <<>> /\ Len(Append(w, r)) = Len(w) + 1
      /\ DOMAIN Append(w, r) = DOMAIN w \cup {Len(w) + 1} /\ Append(w, r)[Len(w) + 1] = r
  BY Appending
<1>2. Len(w) = 0 /\ DOMAIN w = {}
  OBVIOUS
<1>3. \A k \in DOMAIN Append(w, r) : Append(w, r)[k] = r
  BY <1>1, <1>2
<1> QED BY <1>1, <1>2, <1>3 DEF Finished

\* What an end holds moves on: the held response is released, or the request in hand published.
LEMMA HoldingMoves ==
  ASSUME Linked, NEW n \in N, Once(n), Once(Other(n)), Beside(Other(n)), wire' = wire, edge' = edge,
         known' = known, effects' = effects, got' = got, inbox'[n].queue = inbox[n].queue,
         owner'[n].pc \notin Clocking,
         NEW a \in {"hand", "held"}, NEW b \in {"held", "done"}, NEW r \in Edge,
         r = IF a = "hand" THEN owner[n].hand ELSE inbox[n].held,
         a = "hand" => owner'[n].hand = NoRequest, a = "held" => owner'[n].hand = owner[n].hand,
         b = "held" => /\ a = "hand" /\ r.completed
                       /\ inbox'[n].held = r /\ inbox'[n].done = inbox[n].done,
         b = "done" => /\ inbox'[n].held = IF a = "hand" THEN inbox[n].held ELSE NoRequest
                       /\ inbox'[n].done = Append(inbox[n].done, r)
  PROVE  Once(n)' /\ Once(Other(n))'
<1> DEFINE o == Other(n)
<1>1. /\ o \in N /\ Other(o) = n /\ o # n /\ inbox[n].done \in Seq(Edge)
      /\ Single(n) /\ Lagging(n) /\ Numbered(n) /\ Behind(n) /\ r # NoRequest
  BY Peers, Parts, Requests DEF Linked, Local, Once
<1>2. In(n, a) /\ a \in Stages /\ b \in Stages
  BY <1>1 DEF In, Stages
<1>3. /\ owner'[o] = owner[o] /\ edge'[o] = edge[o]
  BY DEF Beside
<1>4. \A p \in Stages : In(n, p)' => p = b \/ (p # a /\ In(n, p))
  BY <1>3 DEF In, Stages
<1>5. /\ \A p \in Stages : In(n, p) => p = a
      /\ \A p \in Stages : In(n, p)' => p = b
      /\ \A p, q \in Stages : In(n, p)' /\ In(n, q)' => p = q
      /\ Lagging(n)'
  BY <1>1, <1>2, <1>3, <1>4, StageMoves
<1>6. inbox[n].done = <<>> /\ (a = "hand" => inbox[n].held = NoRequest) /\ (a = "held" => owner[n].hand = NoRequest)
  BY <1>5 DEF In, Stages
<1>7. /\ Append(inbox[n].done, r) # <<>> /\ Len(Append(inbox[n].done, r)) <= 1
      /\ \A k \in DOMAIN Append(inbox[n].done, r) : Append(inbox[n].done, r)[k] = r
      /\ Finished(Append(inbox[n].done, r)) # {} => r.completed
  BY <1>1, <1>6, OneResponse
<1>8. Single(n)'
  BY <1>1, <1>3, <1>5, <1>7 DEF Single
<1>9. Numbered(n)'
  <2>1. r.id = edge[o].next - 1
    BY <1>1 DEF Numbered
  <2>2. (In(n, "send") \/ In(n, "req"))' => In(n, "send") \/ In(n, "req")
    BY <1>3 DEF In
  <2>3. /\ owner'[n].hand # NoRequest => owner'[n].hand.id = edge[o].next - 1
        /\ inbox'[n].held # NoRequest => inbox'[n].held.id = edge[o].next - 1
        /\ \A k \in DOMAIN inbox'[n].done : inbox'[n].done[k].id = edge[o].next - 1
    BY <1>1, <1>6, <1>7, <2>1 DEF Numbered
  <2> QED BY <1>1, <1>3, <2>2, <2>3 DEF Numbered
<1>10. Behind(n)'
  <2>1. Completing(n)' => r.completed \/ a = "held"
    <3>1. ~NoRequest.completed /\ Finished(inbox[n].done) = {}
      BY <1>6, Requests DEF Finished
    <3> QED BY <1>6, <1>7, <3>1 DEF Completing, Completed
  <2>2. Completing(n)' => Completing(n)
    BY <1>1, <2>1 DEF Completing
  <2> QED BY <1>1, <1>3, <2>2 DEF Behind
<1>11. Once(o)'
  <2>1. wire[n] \in Seq(Frames) /\ wire[o] \in Seq(Frames)
    BY <1>1, Parts DEF Linked, Local
  <2>2. Passing(wire[n], wire'[n]) /\ Passing(wire[o], wire'[o])
    BY <2>1, Losing
  <2>3. Quiet(o)
    BY <1>1, <2>2, Aside DEF Passing, Fewer
  <2>4. Calm(n)
    BY <2>2 DEF Calm, Passing, Clocking, Asking
  <2> QED BY <1>1, <2>3, <2>4, OnceStands
<1> QED BY <1>5, <1>8, <1>9, <1>10, <1>11 DEF Once

\* The held response is released.
LEMMA ReleaseOnce ==
  ASSUME Linked, NEW n \in N, Once(n), Once(Other(n)), inbox[n].held # NoRequest, inbox' = Release(n),
         wire' = wire, edge' = edge, known' = known, effects' = effects, got' = got, core' = core,
         worker' = worker, closed' = closed, owner'[Other(n)] = owner[Other(n)],
         owner'[n].hand = owner[n].hand, owner'[n].pc \notin Clocking
  PROVE  Once(n)' /\ Once(Other(n))'
<1>1. inbox[n].held \in Edge
  BY Parts, Requests DEF Linked, Local
<1>2. /\ inbox'[Other(n)] = inbox[Other(n)] /\ inbox'[n].queue = inbox[n].queue
      /\ inbox'[n].held = NoRequest /\ inbox'[n].done = Append(inbox[n].done, inbox[n].held)
  BY Releasing DEF Linked
<1>3. Beside(Other(n))
  BY <1>2 DEF Beside
<1> DEFINE r == inbox[n].held
<1>4. "held" \in {"hand", "held"} /\ "done" \in {"held", "done"} /\ r \in Edge
      /\ r = IF "held" = "hand" THEN owner[n].hand ELSE inbox[n].held
  BY <1>1
<1>5. inbox'[n].held = (IF "held" = "hand" THEN inbox[n].held ELSE NoRequest)
  BY <1>2
<1> QED BY <1>2, <1>3, <1>4, <1>5, HoldingMoves

LEMMA FinishFrameOnce ==
  ASSUME Linked, NEW n \in N, Once(n), Once(Other(n)), FinishFrame(n) PROVE Once(n)' /\ Once(Other(n))'
<1>1. /\ Shape /\ owner \in [N -> Owners] /\ owner[n] \in Owners /\ Other(n) \in N /\ Other(n) # n
  BY Peers, Parts DEF Linked, Local, Shape
<1>2. /\ owner'[n].hand = owner[n].hand /\ owner'[Other(n)] = owner[Other(n)]
      /\ owner'[n].pc \notin Clocking
  <2> DEFINE pc == CASE owner[n].kind = "main" -> "pump"
                     [] owner[n].kind = "extra" -> FrameOver(n)
                     [] owner[n].kind = "loop" -> "check"
  <2>1. owner' = [owner EXCEPT ![n].token = NoId, ![n].pc = pc, ![n].kind = IF @ = "main" THEN "after" ELSE @]
    BY DEF FinishFrame
  <2>2. pc \in {"pump", "check", "turn", "finish", "loop"}
    <3>1. FrameOver(n) \in {"turn", "finish", "loop"}
      BY <1>1 DEF FrameOver, Shape
    <3>2. owner[n].kind \in {"main", "extra", "loop"}
      <4>1. owner[n].kind \in {"main", "after", "extra", "loop"} /\ Position(n) /\ owner[n].pc = "frame"
        BY <1>1 DEF Owners, Linked, Local, Own, FinishFrame, At
      <4> QED BY <4>1 DEF Position, Orderly
    <3> QED BY <3>1, <3>2
  <2> HIDE DEF pc
  <2>3. owner'[n].hand = owner[n].hand /\ owner'[Other(n)] = owner[Other(n)] /\ owner'[n].pc = pc
    BY <1>1, <2>1 DEF Owners
  <2> QED BY <2>2, <2>3 DEF Clocking, Asking
<1>3. CASE owner[n].token # NoId /\ inbox[n].held.id = owner[n].token
  <2>1. inbox[n].held # NoRequest
    BY <1>3 DEF NoRequest
  <2>2. inbox' = Release(n)
    BY <1>3 DEF FinishFrame
  <2> QED BY <1>2, <2>1, <2>2, ReleaseOnce DEF FinishFrame
<1>4. CASE ~(owner[n].token # NoId /\ inbox[n].held.id = owner[n].token)
  <2>1. inbox' = inbox
    BY <1>4 DEF FinishFrame
  <2>2. \A m \in N : Passing(wire[m], wire'[m])
    BY WiresPass DEF FinishFrame
  <2>3. owner'[n].pc \in {"reserve", "send"} => owner[n].pc \in {"reserve", "send"}
    BY <1>2 DEF Clocking, Asking
  <2> QED BY <1>2, <2>1, <2>2, <2>3, OncePasses DEF FinishFrame, Beside
<1> QED BY <1>3, <1>4

LEMMA ClockOnce ==
  ASSUME Linked, NEW n \in N, Once(n), Once(Other(n)), Clock(n) PROVE Once(n)' /\ Once(Other(n))'
<1>1. Shape /\ Other(n) \in N /\ "settle" \in Place
  BY Peers DEF Linked, Local, Place, Waits
<1>2. owner'[n].hand = owner[n].hand /\ owner'[Other(n)] = owner[Other(n)] /\ owner'[n].pc = "settle"
      /\ owner'[n].pc \notin Clocking
  BY <1>1, Going DEF Clock, Clocking, Asking
<1>3. CASE inbox[n].held # NoRequest
  <2>1. inbox' = Release(n)
    BY <1>3 DEF Clock
  <2> QED BY <1>2, <1>3, <2>1, ReleaseOnce DEF Clock
<1>4. CASE inbox[n].held = NoRequest
  <2>1. inbox' = inbox
    BY <1>4 DEF Clock
  <2>2. \A m \in N : Passing(wire[m], wire'[m])
    BY WiresPass DEF Clock
  <2> QED BY <1>2, <2>1, <2>2, OncePasses DEF Clock, Beside
<1> QED BY <1>3, <1>4

LEMMA PublishOnce ==
  ASSUME Linked, NEW n \in N, Once(n), Once(Other(n)), Publish(n) PROVE Once(n)' /\ Once(Other(n))'
<1> DEFINE rec == [owner[n] EXCEPT !.applied = ~closed[n]]
           box == Published(n)
           r == owner[n].hand
           again == [rec EXCEPT !.pc = "pump", !.hand = NoRequest]
           ends == ServiceEnds(n, rec, box)
<1>1. /\ Local /\ Shape /\ Position(n) /\ owner[n] \in Owners /\ owner[n].pc = "publish"
      /\ Other(n) \in N /\ Other(n) # n /\ owner \in [N -> Owners] /\ inbox[n] \in Inboxes
      /\ inbox \in [N -> Inboxes] /\ r \in Response /\ inbox[n].done \in Seq(Edge)
      /\ closed[n] \in BOOLEAN /\ inbox' = [inbox EXCEPT ![n] = box]
  BY Peers, Parts DEF Linked, Local, Own, Publish, At, Shape
<1>2. r \in Edge /\ r # NoRequest
  BY <1>1, Requests DEF Position
<1>3. /\ box.queue = inbox[n].queue /\ box \in Inboxes
      /\ \/ closed[n] /\ box.held = inbox[n].held /\ box.done = inbox[n].done
         \/ ~closed[n] /\ r.completed /\ box.held = r /\ box.done = inbox[n].done
         \/ ~closed[n] /\ ~r.completed /\ box.held = inbox[n].held /\ box.done = Append(inbox[n].done, r)
  <2>1. CASE closed[n]
    <3> DEFINE less == Less(inbox[n].pending)
    <3>1. box = [inbox[n] EXCEPT !.pending = less]
      BY <2>1 DEF Published
    <3>2. less \in Nat
      BY <1>1 DEF Inboxes, Less
    <3> HIDE DEF box, r, less
    <3> QED BY <1>1, <2>1, <3>1, <3>2 DEF Inboxes
  <2>2. CASE ~closed[n] /\ r.completed
    <3>1. box = [inbox[n] EXCEPT !.held = r]
      BY <2>2 DEF Published
    <3> HIDE DEF r, box
    <3> QED BY <1>1, <2>2, <3>1 DEF Inboxes
  <2>3. CASE ~closed[n] /\ ~r.completed
    <3> DEFINE more == Append(inbox[n].done, r)
    <3>1. box = [inbox[n] EXCEPT !.done = more]
      BY <1>1, <2>3 DEF Published, Inboxes
    <3>2. more \in Seq(Edge)
      BY <1>1, <1>2, AppendProperties
    <3>3. box.queue = inbox[n].queue /\ box.held = inbox[n].held /\ box.done = more /\ box \in Inboxes
      <4> HIDE DEF more, box
      <4> QED BY <1>1, <3>1, <3>2 DEF Inboxes
    <3> HIDE DEF box, r
    <3> QED BY <2>3, <3>3
  <2> QED BY <1>1, <2>1, <2>2, <2>3
<1>4. owner' = [owner EXCEPT ![n] = ends] \/ owner' = [owner EXCEPT ![n] = again]
  BY DEF Publish
<1>5. ends.hand = NoRequest /\ ends.pc \in {"frame", "turn", "finish", "loop", "check"}
  <2>1. rec \in Owners /\ rec.kind = owner[n].kind /\ rec.inframe = owner[n].inframe
    BY <1>1 DEF Owners
  <2>2. (rec.inframe => rec.kind # "after") /\ (~rec.inframe => rec.kind # "extra")
    BY <1>1, <2>1 DEF Position, Orderly
  <2> HIDE DEF rec, box
  <2> QED BY <1>1, <1>3, <2>1, <2>2, ServiceReturns
<1>6. again.hand = NoRequest /\ again.pc = "pump"
  BY <1>1 DEF Owners
<1> HIDE DEF again, ends, box
<1>7. /\ owner'[n].hand = NoRequest /\ owner'[n].pc \notin Clocking /\ owner'[Other(n)] = owner[Other(n)]
      /\ owner'[n].pc \notin {"reserve", "send"}
  BY <1>1, <1>4, <1>5, <1>6 DEF Clocking, Asking
<1>8. inbox'[n] = box /\ inbox'[Other(n)] = inbox[Other(n)]
  BY <1>1
<1>9. /\ wire' = wire /\ edge' = edge /\ known' = known /\ effects' = effects /\ got' = got
      /\ Beside(Other(n))
  BY <1>7, <1>8 DEF Publish, Beside
<1>10. CASE closed[n]
  <2>1. \A m \in N : Passing(wire[m], wire'[m])
    BY <1>9, WiresPass
  <2> QED BY <1>3, <1>7, <1>8, <1>9, <1>10, <2>1, OncePasses
<1>11. CASE ~closed[n] /\ r.completed
  <2>1. "hand" \in {"hand", "held"} /\ "held" \in {"held", "done"}
        /\ r = IF "hand" = "hand" THEN owner[n].hand ELSE inbox[n].held
    OBVIOUS
  <2> HIDE DEF r
  <2> QED BY <1>2, <1>3, <1>7, <1>8, <1>9, <1>11, <2>1, HoldingMoves
<1>12. CASE ~closed[n] /\ ~r.completed
  <2>1. "hand" \in {"hand", "held"} /\ "done" \in {"held", "done"}
        /\ r = IF "hand" = "hand" THEN owner[n].hand ELSE inbox[n].held
    OBVIOUS
  <2>2. inbox'[n].held = IF "hand" = "hand" THEN inbox[n].held ELSE NoRequest
    BY <1>3, <1>8, <1>12
  <2> HIDE DEF r
  <2> QED BY <1>2, <1>3, <1>7, <1>8, <1>9, <1>12, <2>1, <2>2, HoldingMoves
<1> QED BY <1>10, <1>11, <1>12

\* An end that is not asking has nothing at any stage.
LEMMA NotAsking ==
  ASSUME Linked, NEW n \in N, Lagging(Other(n)), owner[n].pc \notin Asking \cup {"down"}
  PROVE  \A p \in Stages : ~In(Other(n), p)
<1>1. Other(n) \in N /\ Other(Other(n)) = n /\ Numbering(n)
  BY Peers DEF Linked, Local, Own
<1>2. edge[n].next \in Int
  BY Parts, Constants DEF Linked, Local
<1>3. Len(got[n]) = edge[n].next - 1
  BY <1>1 DEF Numbering
<1>4. \A a \in Int : a - 1 # a - 2
  OBVIOUS
<1>5. Len(got[n]) # edge[n].next - 2
  BY <1>2, <1>3, <1>4
<1> QED BY <1>1, <1>5 DEF Lagging

\* The queued edge is taken in hand.
LEMMA TakesOnce ==
  ASSUME Linked, NEW n \in N, Once(n), Once(Other(n)), inbox[n].queue # <<>>, NEW r \in Edge,
         r.id = Head(inbox[n].queue), effects' = [effects EXCEPT ![n] = Append(@, r)],
         inbox' = [inbox EXCEPT ![n].queue = Tail(@)],
         owner'[n].hand = r, known' = known, wire' = wire, got' = got,
         edge'[n].next = edge[n].next, edge'[n].slot = edge[n].slot, Beside(Other(n)),
         owner'[n].pc \in Clocking => owner[n].pc \in Clocking,
         owner'[n].pc \in {"reserve", "send"} => owner[n].pc \in {"reserve", "send"},
         r.completed => owner[n].pc \in {"pump", "frame"} /\ owner'[n].pc \notin Clocking
  PROVE  Once(n)' /\ Once(Other(n))'
<1> DEFINE o == Other(n)
<1>1. /\ o \in N /\ Other(o) = n /\ o # n /\ inbox[n].queue \in Seq(Ids)
      /\ Single(n) /\ Lagging(n) /\ Numbered(n) /\ Behind(n) /\ Lagging(o) /\ r # NoRequest
      /\ wire[n] \in Seq(Frames) /\ wire[o] \in Seq(Frames)
  BY Peers, Parts, Requests DEF Linked, Local, Once
<1>2. /\ inbox'[n].held = inbox[n].held /\ inbox'[n].done = inbox[n].done /\ inbox'[n].queue = <<>>
  <2>1. Local /\ Tail(inbox[n].queue) = <<>>
    BY QueueOfOne DEF Linked
  <2> QED BY <2>1, QueueTaken
<1>3. /\ owner'[o] = owner[o] /\ edge'[o] = edge[o]
  BY DEF Beside
<1>4. "queue" \in Stages /\ In(n, "queue")
  BY DEF In, Stages
<1>5. \A p \in Stages : In(n, p)' => p = "hand" \/ (p # "queue" /\ In(n, p))
  BY <1>2, <1>3 DEF In, Stages
<1>6. /\ \A p \in Stages : In(n, p) => p = "queue"
      /\ \A p \in Stages : In(n, p)' => p = "hand"
      /\ \A p, q \in Stages : In(n, p)' /\ In(n, q)' => p = q
      /\ Lagging(n)'
  BY <1>1, <1>3, <1>4, <1>5, StageMoves
<1>7. inbox[n].held = NoRequest /\ inbox[n].done = <<>> /\ ~Has(wire[o], "resp")
  BY <1>6 DEF In, Stages
<1>8. Single(n)'
  BY <1>1, <1>2, <1>3, <1>6 DEF Single
<1>9. r.id = edge[o].next - 1
  <2>1. 1 \in DOMAIN inbox[n].queue /\ Head(inbox[n].queue) = inbox[n].queue[1]
    BY <1>1, Elements
  <2> QED BY <1>1, <2>1 DEF Numbered
<1>10. Numbered(n)'
  <2>1. (In(n, "send") \/ In(n, "req"))' => In(n, "send") \/ In(n, "req")
    BY <1>3 DEF In
  <2>2. DOMAIN <<>> = {}
    OBVIOUS
  <2> QED BY <1>1, <1>2, <1>3, <1>7, <1>9, <2>1, <2>2 DEF Numbered
<1>11. Behind(n)'
  <2>1. Completing(n)' => r.completed
    <3>1. Finished(inbox[n].done) = {}
      BY <1>7 DEF Finished
    <3> QED BY <1>2, <1>7, <3>1 DEF Completing, Completed
  <2>2. r.completed => ~Has(wire[o], "req")
    <3>1. ASSUME r.completed PROVE \A p \in Stages : ~In(o, p)
      <4>1. owner[n].pc \notin Asking \cup {"down"}
        BY <3>1 DEF Asking
      <4> QED BY <1>1, <4>1, NotAsking
    <3> QED BY <3>1 DEF In, Stages
  <2>3. ~Ahead(wire[o])
    BY <1>7 DEF Ahead, Has
  <2> QED BY <1>3, <2>1, <2>2, <2>3 DEF Behind
<1>12. Once(o)'
  <2>1. Passing(wire[n], wire'[n]) /\ Passing(wire[o], wire'[o])
    BY <1>1, Losing
  <2>2. Quiet(o)
    <3>1. effects'[o] = effects[o]
      BY <1>1 DEF Linked, Local, Shape
    <3> QED BY <1>1, <2>1, <3>1, Aside DEF Passing, Fewer
  <2>3. Calm(n)
    BY <2>1 DEF Calm, Passing
  <2> QED BY <1>1, <2>2, <2>3, OnceStands
<1> QED BY <1>6, <1>8, <1>10, <1>11, <1>12 DEF Once

LEMMA ServeOnce ==
  ASSUME Linked, NEW n \in N, Once(n), Once(Other(n)), Serve(n) PROVE Once(n)' /\ Once(Other(n))'
<1> DEFINE r == Applied(n, Head(inbox[n].queue))
           fr == At(n, "frame")
<1>1. /\ Shape /\ owner \in [N -> Owners] /\ owner[n] \in Owners /\ core \in [N -> Cores]
      /\ inbox \in [N -> Inboxes] /\ inbox[n] \in Inboxes /\ Other(n) \in N /\ Other(n) # n
      /\ inbox[n].queue \in Seq(Ids) /\ inbox[n].queue # <<>>
  BY Peers, Parts DEF Linked, Local, Shape, Serve
<1>2. r \in Edge /\ r.id = Head(inbox[n].queue)
  <2>1. Head(inbox[n].queue) \in Ids
    BY <1>1, Elements
  <2>2. Idle \in Answers /\ Slave \in Answers /\ (core[n].left = 1) \in BOOLEAN /\ FALSE \in BOOLEAN
    BY Sources
  <2>3. r = Request(Head(inbox[n].queue), Idle, FALSE)
        \/ r = Request(Head(inbox[n].queue), Slave, core[n].left = 1)
    BY DEF Applied
  <2> DEFINE h == Head(inbox[n].queue)  c == (core[n].left = 1)
  <2>4. h \in Ids /\ c \in BOOLEAN /\ (r = Request(h, Idle, FALSE) \/ r = Request(h, Slave, c))
    BY <2>1, <2>2, <2>3
  <2> HIDE DEF r, h, c
  <2>5. \A i \in Ids, v \in Answers, b \in BOOLEAN : Request(i, v, b) \in Edge /\ Request(i, v, b).id = i
    BY Requests
  <2>6. r \in Edge /\ r.id = h
    <3>1. Request(h, Idle, FALSE) \in Edge /\ Request(h, Idle, FALSE).id = h
      BY ONLY <2>2, <2>4, <2>5
    <3>2. Request(h, Slave, c) \in Edge /\ Request(h, Slave, c).id = h
      BY ONLY <2>2, <2>4, <2>5
    <3> QED BY ONLY <2>4, <3>1, <3>2
  <2> QED BY <2>6 DEF h
<1>3. /\ effects' = [effects EXCEPT ![n] = Append(@, r)] /\ inbox' = [inbox EXCEPT ![n].queue = Tail(@)]
      /\ owner' = [owner EXCEPT ![n].pc = "publish", ![n].hand = r, ![n].inframe = fr]
      /\ known' = known /\ wire' = wire /\ got' = got /\ edge' = edge /\ worker' = worker /\ closed' = closed
      /\ core'[Other(n)] = core[Other(n)]
  BY <1>1 DEF Serve
<1> HIDE DEF r, fr
<1>4. owner'[n].hand = r /\ owner'[n].pc = "publish" /\ owner'[Other(n)] = owner[Other(n)]
  BY <1>1, <1>3 DEF Owners
<1>5. inbox'[Other(n)] = inbox[Other(n)]
  BY <1>1, <1>3
<1>6. Beside(Other(n))
  BY <1>3, <1>4, <1>5 DEF Beside
<1>7. owner[n].pc \in {"pump", "frame"}
  BY DEF Serve
<1>8. /\ owner'[n].pc \notin Clocking /\ owner'[n].pc \notin {"reserve", "send"}
      /\ edge'[n].next = edge[n].next /\ edge'[n].slot = edge[n].slot
  BY <1>3, <1>4 DEF Clocking, Asking
<1> QED BY <1>1, <1>2, <1>3, <1>4, <1>6, <1>7, <1>8, TakesOnce

LEMMA ReserveOnce ==
  ASSUME Linked, NEW n \in N, Once(n), Once(Other(n)), Reserve(n) PROVE Once(n)' /\ Once(Other(n))'
<1>1. /\ Local /\ Shape /\ owner \in [N -> Owners] /\ owner[n] \in Owners
      /\ edge \in [N -> Edges] /\ edge[n] \in Edges /\ owner[n].pc = "reserve" /\ "send" \in Place
      /\ inbox \in [N -> Inboxes] /\ inbox[n] \in Inboxes /\ Other(n) \in N /\ Other(n) # n
      /\ inbox[n].queue \in Seq(Ids)
  BY Peers, Parts DEF Linked, Local, Shape, Reserve, At, Place, Waits
<1>2. /\ known' = known /\ core' = core /\ worker' = worker /\ wire' = wire /\ closed' = closed /\ got' = got
  BY DEF Reserve
<1>3. CASE inbox[n].queue = <<>> \/ edge[n].recip
  <2>1. GoTo(n, "send") /\ inbox' = inbox /\ edge' = edge /\ effects' = effects
    BY <1>3 DEF Reserve
  <2>2. owner'[n].hand = owner[n].hand /\ owner'[Other(n)] = owner[Other(n)]
    BY <1>1, <2>1, Going
  <2>3. Beside(Other(n)) /\ \A m \in N : Passing(wire[m], wire'[m])
    BY <1>2, <2>1, <2>2, WiresPass DEF Beside
  <2> QED BY <1>1, <1>2, <2>1, <2>2, <2>3, OncePasses DEF Clocking, Asking
<1>4. CASE ~(inbox[n].queue = <<>> \/ edge[n].recip)
  <2> DEFINE r == Request(Head(inbox[n].queue), edge[n].inflight, FALSE)
  <2>1. /\ owner' = [owner EXCEPT ![n].pc = "send", ![n].hand = r]
        /\ inbox' = [inbox EXCEPT ![n].queue = Tail(@)]
        /\ edge' = [edge EXCEPT ![n].recip = TRUE]
        /\ effects' = [effects EXCEPT ![n] = Append(@, r)] /\ inbox[n].queue # <<>>
    BY <1>4 DEF Reserve
  <2>2. r \in Edge /\ r.id = Head(inbox[n].queue)
    <3> DEFINE h == Head(inbox[n].queue)  v == edge[n].inflight
    <3>1. h \in Ids
      BY <1>1, <1>4, Elements
    <3>2. v \in Answers
      BY <1>1, InFlight, Sources DEF Asking
    <3> HIDE DEF h, v
    <3>3. Request(h, v, FALSE) \in Edge /\ Request(h, v, FALSE).id = h
      BY <3>1, <3>2, Requests
    <3> QED BY <3>3 DEF h, v
  <2> HIDE DEF r
  <2>3. owner'[n].hand = r /\ owner'[Other(n)] = owner[Other(n)]
    BY <1>1, <2>1 DEF Owners
  <2>4. /\ edge'[n].next = edge[n].next /\ edge'[n].slot = edge[n].slot /\ edge'[n].inflight = edge[n].inflight
        /\ edge'[Other(n)] = edge[Other(n)] /\ inbox'[Other(n)] = inbox[Other(n)]
    BY <1>1, <2>1 DEF Edges
  <2>5. Beside(Other(n))
    BY <1>2, <2>3, <2>4 DEF Beside
  <2>6. ~r.completed
    <3> DEFINE h == Head(inbox[n].queue)  v == edge[n].inflight
    <3>1. h \in Ids
      BY <1>1, <1>4, Elements
    <3>2. v \in Answers
      BY <1>1, InFlight, Sources DEF Asking
    <3> HIDE DEF h, v
    <3>3. ~Request(h, v, FALSE).completed
      BY <3>1, <3>2, Requests
    <3> QED BY <3>3 DEF h, v, r
  <2> QED BY <1>1, <1>2, <2>1, <2>2, <2>3, <2>4, <2>5, <2>6, TakesOnce DEF Clocking, Asking
<1> QED BY <1>3, <1>4

\* An edge is admitted: every byte has been answered, and nothing of the last edge is left.
LEMMA AdmitOnce ==
  ASSUME Linked, NEW n \in N, Once(n), Once(Other(n)), Admit(n) PROVE Once(n)' /\ Once(Other(n))'
<1>1. CASE edge[n].slot # <<>>
  BY <1>1, AbortOnce DEF Admit
<1>2. CASE edge[n].slot = <<>>
  <2> DEFINE o == Other(n)
             on == [edge[n] EXCEPT !.inflight = edge[n].next, !.next = @ + 1, !.seen = FALSE, !.recip = FALSE]
  <2>1. /\ Shape /\ edge \in [N -> Edges] /\ edge[n] \in Edges /\ o \in N /\ o # n /\ Other(o) = n
        /\ "reserve" \in Place /\ edge[n].next \in Nat /\ wire[n] \in Seq(Frames) /\ wire[o] \in Seq(Frames)
        /\ owner[n].pc = "settle" /\ ~closed[n] /\ inbox[n].owed = 0 /\ inbox[n].done \in Seq(Edge)
    <3>1. Shape /\ o \in N /\ o # n /\ Other(o) = n
      BY Peers DEF Linked, Local
    <3>2. edge \in [N -> Edges]
      BY <3>1 DEF Shape
    <3>3. /\ edge[n] \in Edges /\ edge[n].next \in Nat
          /\ wire[n] \in Seq(Frames) /\ wire[o] \in Seq(Frames) /\ inbox[n].done \in Seq(Edge)
      BY <3>1, Parts, Constants
    <3>4. "reserve" \in Place
      BY DEF Place
    <3>5. owner[n].pc = "settle" /\ ~closed[n] /\ inbox[n].owed = 0
      BY <1>2 DEF Admit, At
    <3> QED BY <3>1, <3>2, <3>3, <3>4, <3>5
  <2>2. /\ owner'[n].pc = "reserve" /\ owner'[n].hand = owner[n].hand /\ owner'[o] = owner[o]
    BY <1>2, <2>1, Going DEF Admit
  <2>3. edge' = [edge EXCEPT ![n] = on]
    BY <1>2, <2>1 DEF Admit, Edges
  <2>4. on.next = edge[n].next + 1 /\ on.slot = <<>>
    BY <1>2, <2>1 DEF Edges
  <2> HIDE DEF on
  <2>5. edge'[n].next = edge[n].next + 1 /\ edge'[n].slot = <<>> /\ edge'[o] = edge[o]
    BY <2>1, <2>3, <2>4
  <2>6. inbox' = inbox /\ known' = known /\ wire' = wire /\ got' = got /\ effects' = effects
    BY <1>2 DEF Admit
  <2>7. ~Completing(n)
    <3>1. Position(n) /\ Accounts(n)
      BY DEF Linked, Local, Own
    <3>2. owner[n].hand = NoRequest /\ inbox[n].held = NoRequest
      BY <2>1, <3>1 DEF Position
    <3>3. IsFiniteSet(Completed(n)) /\ Cardinality(Completed(n)) \in Nat
      <4>1. IsFiniteSet(1..Len(inbox[n].done)) /\ Completed(n) \subseteq 1..Len(inbox[n].done)
        <5>1. Len(inbox[n].done) \in Nat /\ DOMAIN inbox[n].done = 1..Len(inbox[n].done)
          BY <2>1, Elements
        <5>2. IsFiniteSet(1..Len(inbox[n].done))
          BY <5>1, FS_Interval
        <5> QED BY <5>1, <5>2 DEF Completed, Finished
      <4> QED BY <4>1, FS_Subset, FS_CardinalityType
    <3>4. inbox[n].owed = Cardinality(Completed(n)) + (IF worker[n].completed THEN 1 ELSE 0)
      BY <2>1, <3>1 DEF Accounts
    <3>5. Cardinality(Completed(n)) = 0
      BY <2>1, <3>3, <3>4
    <3>6. Completed(n) = {}
      BY <3>3, <3>5, FS_EmptySet
    <3> QED BY <3>2, <3>6, Requests DEF Completing
  <2>8. Passing(wire[n], wire[n]) /\ Passing(wire[o], wire[o])
    BY <2>1, Losing
  <2>9. Once(n)'
    <3>1. Quiet(n)
      BY <2>2, <2>6, <2>7, <2>8 DEF Quiet, Passing
    <3>2. Calm(o)
      BY <2>2, <2>5, <2>6, <2>8 DEF Calm, Passing
    <3> QED BY <3>1, <3>2, OnceStands
  <2>10. \A p \in Stages : ~In(o, p)
    <3>1. owner[n].pc \notin Asking \cup {"down"} /\ Lagging(o)
      BY <2>1 DEF Asking, Once
    <3> QED BY <3>1, NotAsking
  <2>11. /\ ~Has(wire[o], "req") /\ inbox[o].queue = <<>> /\ owner[o].hand = NoRequest
         /\ inbox[o].held = NoRequest /\ inbox[o].done = <<>> /\ ~Has(wire[n], "resp")
    BY <2>1, <2>10 DEF In, Stages
  <2>12. \A p \in Stages : In(o, p)' => p = "send"
    BY <2>1, <2>2, <2>5, <2>6, <2>11 DEF In, Stages
  <2>13. Single(o)'
    <3>1. Len(inbox[o].done) <= 1 /\ Lone(wire[o], "req") /\ Lone(wire[n], "resp")
      BY <2>1 DEF Once, Single
    <3> QED BY <2>1, <2>6, <2>12, <3>1 DEF Single
  <2>14. Lagging(o)'
    <3>1. Len(got[n]) = edge[n].next - 1
      BY <2>1 DEF Linked, Local, Own, Numbering, Asking
    <3>2. Len(got'[n]) = edge'[n].next - 2
      BY <2>1, <2>5, <2>6, <3>1
    <3> QED BY <2>1, <3>2 DEF Lagging
  <2>15. Numbered(o)'
    <3>1. known'[o].highest < edge'[n].next - 1
      <4>1. known[o].highest < edge[n].next
        BY <2>1 DEF Linked, Peered, Effective
      <4>2. edge'[n].next - 1 = edge[n].next
        BY <2>1, <2>5
      <4> QED BY <2>6, <4>1, <4>2
    <3>2. DOMAIN <<>> = {}
      OBVIOUS
    <3> QED BY <2>1, <2>2, <2>6, <2>11, <3>1, <3>2 DEF Numbered, Marked, Has
  <2>16. Behind(o)'
    <3>1. ~Completing(o)'
      <4>1. ~NoRequest.completed /\ Finished(<<>>) = {}
        BY Requests DEF Finished
      <4> QED BY <2>2, <2>6, <2>11, <4>1 DEF Completing, Completed
    <3>2. ~Ahead(wire'[n])
      BY <2>6, <2>11 DEF Ahead, Has
    <3> QED BY <2>1, <3>1, <3>2 DEF Behind
  <2> QED BY <2>9, <2>13, <2>14, <2>15, <2>16 DEF Once
<1> QED BY <1>1, <1>2

\* It is asked for.
LEMMA SendReqOnce ==
  ASSUME Linked, NEW n \in N, Once(n), Once(Other(n)), SendReq(n) PROVE Once(n)' /\ Once(Other(n))'
<1> DEFINE o == Other(n)
           f == Frame("req", edge[n].inflight, Idle)
           pc == IF owner[n].hand = NoRequest THEN "await" ELSE "answer"
<1>1. /\ Local /\ Shape /\ o \in N /\ o # n /\ Other(o) = n /\ owner[n].pc = "send"
      /\ wire[n] \in Seq(Frames) /\ wire[o] \in Seq(Frames) /\ pc \in Place /\ pc \in {"await", "answer"}
  BY Peers, Parts DEF Linked, Local, Place, Waits, SendReq, At
<1>2. edge[n].inflight \in Ids /\ edge[n].inflight = edge[n].next - 1
  BY <1>1, InFlight DEF Asking
<1>3. f \in Frames /\ f.op = "req" /\ f.id = edge[n].next - 1
  BY <1>2, FrameParts, Sources
<1>4. /\ edge' = edge /\ inbox' = inbox /\ known' = known /\ got' = got /\ effects' = effects
      /\ Send(n, f) /\ GoTo(n, pc)
  BY DEF SendReq
<1>5. wire'[n] = wire[n] /\ wire'[o] = IF closed[o] THEN wire[o] ELSE Append(wire[o], f)
  BY <1>1, <1>2, <1>4, Sending, Sources
<1> HIDE DEF f, pc
<1>6. owner'[n].pc = pc /\ owner'[n].hand = owner[n].hand /\ owner'[o] = owner[o]
  BY <1>1, <1>4, Going
<1>7. /\ Fewer(wire[o], wire'[o], "resp") /\ (Ahead(wire'[o]) => Ahead(wire[o]))
      /\ ~Has(wire[o], "req") => Lone(wire'[o], "req") /\ Marked(wire'[o], "req", edge[n].next - 1)
  BY <1>1, <1>3, <1>5, Gaining, Losing DEF Passing, Lone, Marked, Has
<1>8. Passing(wire[n], wire'[n])
  BY <1>1, <1>5, Losing
<1>9. Once(n)'
  <2>1. ~Completing(n)
    BY <1>1 DEF Once, Behind, Clocking, Asking
  <2>2. Quiet(n)
    BY <1>4, <1>6, <1>8, <2>1 DEF Quiet, Passing
  <2>3. Calm(o)
    BY <1>4, <1>6, <1>7 DEF Calm
  <2> QED BY <1>1, <2>2, <2>3, OnceStands
<1>10. Single(o) /\ Lagging(o) /\ Numbered(o) /\ Behind(o)
  BY DEF Once
<1>11. "send" \in Stages /\ In(o, "send")
  BY <1>1 DEF In, Stages
<1>12. \A p \in Stages : In(o, p)' => p = "req" \/ (p # "send" /\ In(o, p))
  BY <1>1, <1>4, <1>5, <1>6 DEF In, Stages
<1>13. /\ \A p \in Stages : In(o, p) => p = "send"
       /\ \A p, q \in Stages : In(o, p)' /\ In(o, q)' => p = q
       /\ Lagging(o)'
  BY SMTT(30), <1>1, <1>4, <1>10, <1>11, <1>12, StageMoves
<1>14. ~Has(wire[o], "req")
  BY <1>13 DEF In, Stages
<1>15. Single(o)'
  BY <1>1, <1>4, <1>5, <1>7, <1>10, <1>13, <1>14 DEF Single
<1>16. Numbered(o)'
  BY <1>1, <1>4, <1>5, <1>6, <1>7, <1>10, <1>11, <1>14 DEF Numbered
<1>17. Behind(o)'
  <2>1. Completing(o)' => Completing(o)
    BY <1>4, <1>6 DEF Completing, Completed
  <2> QED BY <1>1, <1>4, <1>5, <1>6, <1>10, <2>1 DEF Behind
<1> QED BY <1>9, <1>13, <1>15, <1>16, <1>17 DEF Once

\* The effects are distinct edges.
LEMMA OneEffect ==
  ASSUME Linked, NEW n \in N, NEW j \in DOMAIN effects[n], NEW k \in DOMAIN effects[n],
         effects[n][j].id = effects[n][k].id
  PROVE  j = k
<1>1. \A a, b \in DOMAIN effects[n] : a < b => effects[n][a].id < effects[n][b].id
  BY DEF Linked, Peered, Effective
<1>2. /\ j \in Nat /\ k \in Nat /\ effects[n][j].id \in Nat /\ effects[n][k].id \in Nat
  <2>1. effects[n] \in Seq(Edge)
    BY Parts DEF Linked, Local
  <2>2. DOMAIN effects[n] = 1..Len(effects[n]) /\ effects[n][j] \in Edge /\ effects[n][k] \in Edge
    BY <2>1, Elements
  <2> QED BY <2>2, Requests DEF Ids
<1>3. \A a, b \in Nat : a < b \/ b < a \/ a = b
  OBVIOUS
<1>4. \A a \in Nat : ~(a < a)
  OBVIOUS
<1>5. j < k \/ k < j \/ j = k
  BY ONLY <1>2, <1>3
<1>6. ~(j < k)
  BY <1>1, <1>2, <1>4
<1>7. ~(k < j)
  BY <1>1, <1>2, <1>4
<1> QED BY ONLY <1>5, <1>6, <1>7

\* The owner or the worker answers: the response may only follow a request of this end
\* if it does not complete a byte.
LEMMA RespondOnce ==
  ASSUME Linked, NEW n \in N, Once(n), Once(Other(n)), NEW a \in {"hand", "done"}, NEW r \in Edge,
         Effect(n, r), Send(n, Frame("resp", r.id, r.val)), known' = Remembered(n, r),
         a = "hand" => /\ owner[n].hand = r /\ owner'[n].hand = NoRequest
                       /\ inbox'[n].done = inbox[n].done,
         a = "done" => /\ inbox[n].done # <<>> /\ r = Head(inbox[n].done)
                       /\ inbox'[n].done = Tail(inbox[n].done) /\ owner'[n].hand = owner[n].hand,
         Has(wire[Other(n)], "req") => ~r.completed,
         inbox'[n].held = inbox[n].held, inbox'[n].queue = inbox[n].queue, edge' = edge, got' = got,
         effects' = effects, Beside(Other(n)),
         owner'[n].pc \in Clocking => owner[n].pc \in Clocking,
         owner'[n].pc \in {"reserve", "send"} => owner[n].pc \in {"reserve", "send"}
  PROVE  Once(n)' /\ Once(Other(n))'
<1> DEFINE o == Other(n)
           f == Frame("resp", r.id, r.val)
           i == edge[o].next - 1
<1>1. /\ Shape /\ o \in N /\ o # n /\ Other(o) = n /\ inbox[n].done \in Seq(Edge)
      /\ wire[n] \in Seq(Frames) /\ wire[o] \in Seq(Frames) /\ r # NoRequest
      /\ Single(n) /\ Lagging(n) /\ Numbered(n) /\ Behind(n) /\ r.id \in Ids /\ r.val \in Answers
  BY Peers, Parts, Requests DEF Linked, Local, Once
<1>2. f \in Frames /\ f.op = "resp" /\ f.id = r.id
  BY <1>1, FrameParts
<1>3. wire'[n] = wire[n] /\ wire'[o] = IF closed[o] THEN wire[o] ELSE Append(wire[o], f)
  BY <1>1, Sending
<1>4. known'[o] = known[o] /\ known'[n].highest = known[n].highest
  BY <1>1, Remembering
<1> HIDE DEF f
<1>5. owner'[o] = owner[o] /\ edge'[o] = edge[o] /\ inbox'[o] = inbox[o]
  BY DEF Beside
<1>6. inbox'[n].done = IF a = "hand" THEN inbox[n].done ELSE <<>>
  <2>1. ASSUME a = "done" PROVE Tail(inbox[n].done) = <<>>
    <3>1. Len(inbox[n].done) <= 1 /\ Len(inbox[n].done) = Len(Tail(inbox[n].done)) + 1
          /\ Len(Tail(inbox[n].done)) \in Nat /\ Tail(inbox[n].done) \in Seq(Edge)
      BY <1>1, <2>1, Taking DEF Single
    <3>2. \A b, c \in Nat : b <= 1 /\ b = c + 1 => c = 0
      OBVIOUS
    <3>3. Len(inbox[n].done) \in Nat
      BY <1>1, Elements
    <3>4. Len(Tail(inbox[n].done)) = 0
      BY ONLY <3>1, <3>2, <3>3
    <3> QED BY <3>1, <3>4, Elements
  <2> QED BY <2>1
<1>7. In(n, a) /\ a \in Stages
  BY <1>1 DEF In, Stages
<1>8. \A p \in Stages : In(n, p)' => p = "resp" \/ (p # a /\ In(n, p))
  BY <1>1, <1>3, <1>5, <1>6 DEF In, Stages
<1>9. /\ \A p \in Stages : In(n, p) => p = a
      /\ \A p \in Stages : In(n, p)' => p = "resp"
      /\ \A p, q \in Stages : In(n, p)' /\ In(n, q)' => p = q
      /\ Lagging(n)'
  BY <1>1, <1>5, <1>7, <1>8, StageMoves
<1>10. ~Has(wire[o], "resp")
  BY <1>9 DEF In, Stages
<1>11. /\ Fewer(wire[o], wire'[o], "req")
       /\ Ahead(wire'[o]) => Ahead(wire[o]) \/ Has(wire[o], "req")
       /\ Lone(wire'[o], "resp") /\ Marked(wire'[o], "resp", r.id)
  BY <1>1, <1>2, <1>3, <1>10, Gaining, Losing DEF Passing, Lone, Marked, Has
<1>12. Passing(wire[n], wire'[n])
  BY <1>1, <1>3, Losing
<1>13. r.id = i
  <2>1. CASE a = "hand"
    BY <1>1, <2>1 DEF Numbered
  <2>2. CASE a = "done"
    <3>1. 1 \in DOMAIN inbox[n].done /\ r = inbox[n].done[1]
      BY <1>1, <2>2, Elements
    <3> QED BY <1>1, <3>1 DEF Numbered
  <2> QED BY <2>1, <2>2
<1>14. Single(n)'
  <2>1. Len(<<>>) <= 1
    OBVIOUS
  <2> QED BY <1>1, <1>3, <1>6, <1>9, <1>11, <2>1 DEF Single
<1>15. Numbered(n)'
  <2>1. (In(n, "send") \/ In(n, "req"))' => In(n, "send") \/ In(n, "req")
    BY <1>3, <1>5 DEF In
  <2>2. DOMAIN <<>> = {}
    OBVIOUS
  <2> QED BY <1>1, <1>3, <1>4, <1>5, <1>6, <1>11, <1>13, <2>1, <2>2 DEF Numbered
<1>16. Behind(n)'
  <2>1. Completing(n)' => Completing(n)
    <3>1. ~NoRequest.completed /\ Finished(<<>>) = {}
      BY Requests DEF Finished
    <3> QED BY <1>6, <3>1 DEF Completing, Completed
  <2>2. Has(wire'[o], "req") => Has(wire[o], "req")
    BY <1>11 DEF Fewer
  <2>3. ASSUME Has(wire[o], "req"), NEW k \in DOMAIN effects[n], effects[n][k].id = i
        PROVE  ~effects[n][k].completed
    <3>1. PICK j \in DOMAIN effects[n] : effects[n][j] = r
      BY DEF Effect
    <3>2. j = k
      BY <1>13, <2>3, <3>1, OneEffect
    <3> QED BY <2>3, <3>1, <3>2
  <2> QED BY <1>1, <1>5, <1>11, <2>1, <2>2, <2>3 DEF Behind
<1>17. Once(o)'
  <2>1. Quiet(o)
    BY <1>1, <1>3, <1>4, <1>11, Aside
  <2>2. Calm(n)
    BY <1>12 DEF Calm, Passing
  <2> QED BY <1>1, <2>1, <2>2, OnceStands
<1> QED BY <1>9, <1>14, <1>15, <1>16, <1>17 DEF Once

LEMMA AnswerReservedOnce ==
  ASSUME Linked, NEW n \in N, Once(n), Once(Other(n)), AnswerReserved(n) PROVE Once(n)' /\ Once(Other(n))'
<1> DEFINE r == owner[n].hand
           less == Less(inbox[n].pending)
<1>1. /\ Local /\ Shape /\ Position(n) /\ owner \in [N -> Owners] /\ owner[n] \in Owners
      /\ inbox \in [N -> Inboxes] /\ inbox[n] \in Inboxes /\ Other(n) \in N /\ Other(n) # n
      /\ r \in Response /\ Recorded(n) /\ owner[n].pc = "answer"
  BY Peers, Parts DEF Linked, Local, Own, Peered, Shape, AnswerReserved, At
<1>2. r \in Edge /\ Effect(n, r)
  BY <1>1, Requests DEF Position, Recorded
<1>3. /\ edge' = edge /\ core' = core /\ worker' = worker /\ closed' = closed /\ got' = got
      /\ effects' = effects /\ inbox' = [inbox EXCEPT ![n].pending = less]
      /\ owner' = [owner EXCEPT ![n].pc = "await", ![n].hand = NoRequest]
      /\ known' = Remembered(n, r) /\ Send(n, Frame("resp", r.id, r.val))
  BY <1>1 DEF AnswerReserved, Inboxes
<1> HIDE DEF r, less
<1>4. /\ inbox'[n].queue = inbox[n].queue /\ inbox'[n].done = inbox[n].done
      /\ inbox'[n].held = inbox[n].held /\ inbox'[Other(n)] = inbox[Other(n)]
  BY <1>1, <1>3 DEF Inboxes
<1>5. owner'[n].hand = NoRequest /\ owner'[Other(n)] = owner[Other(n)]
  BY <1>1, <1>3 DEF Owners
<1>6. owner[n].pc \in Clocking /\ owner'[n].pc \notin {"reserve", "send"} /\ ~r.completed
  BY <1>1, <1>3 DEF Clocking, Asking, Position, r
<1>7. Beside(Other(n))
  BY <1>3, <1>4, <1>5 DEF Beside
<1>8. owner[n].hand = r
  BY DEF r
<1> QED BY <1>1, <1>2, <1>3, <1>4, <1>5, <1>6, <1>7, <1>8, RespondOnce

LEMMA WorkerSendOnce ==
  ASSUME Linked, NEW n \in N, Once(n), Once(Other(n)), WorkerSend(n) PROVE Once(n)' /\ Once(Other(n))'
<1> DEFINE r == Head(inbox[n].done)
           rest == Tail(inbox[n].done)
<1>1. /\ Shape /\ inbox \in [N -> Inboxes] /\ inbox[n] \in Inboxes
      /\ worker \in [N -> Response] /\ Other(n) \in N /\ Other(n) # n /\ Recorded(n)
      /\ inbox[n].done \in Seq(Edge) /\ inbox[n].done # <<>>
  BY Peers, Parts DEF Linked, Local, Shape, WorkerSend, Peered
<1>2. /\ 1 \in DOMAIN inbox[n].done /\ r = inbox[n].done[1] /\ r \in Edge
      /\ \A k \in DOMAIN rest : k + 1 \in DOMAIN inbox[n].done /\ rest[k] = inbox[n].done[k + 1]
  BY <1>1, Elements, Taking
<1>3. Effect(n, r)
  BY <1>1, <1>2 DEF Recorded
<1>4. /\ edge' = edge /\ core' = core /\ owner' = owner /\ worker' = [worker EXCEPT ![n] = r]
      /\ closed' = closed /\ got' = got /\ effects' = effects
      /\ inbox' = [inbox EXCEPT ![n].done = rest]
      /\ known' = Remembered(n, r) /\ Send(n, Frame("resp", r.id, r.val))
  BY <1>1 DEF WorkerSend, Inboxes
<1> HIDE DEF r, rest
<1>5. /\ inbox'[n].queue = inbox[n].queue /\ inbox'[n].done = rest
      /\ inbox'[n].held = inbox[n].held /\ inbox'[Other(n)] = inbox[Other(n)]
      /\ worker'[Other(n)] = worker[Other(n)]
  BY <1>1, <1>4 DEF Inboxes
<1>6. Beside(Other(n))
  BY <1>4, <1>5 DEF Beside
<1>7. Has(wire[Other(n)], "req") => ~r.completed
  <2>1. r.completed => Completed(n) # {}
    BY <1>2 DEF Completed, Finished
  <2> QED BY <2>1 DEF Once, Behind, Completing
<1>8. r = Head(inbox[n].done) /\ rest = Tail(inbox[n].done)
  BY DEF r, rest
<1> QED BY <1>1, <1>2, <1>3, <1>4, <1>5, <1>6, <1>7, <1>8, RespondOnce

\* The answer is taken, and the edge is gone.
LEMMA AwaitOnce ==
  ASSUME Linked, NEW n \in N, Once(n), Once(Other(n)), Await(n) PROVE Once(n)' /\ Once(Other(n))'
<1> DEFINE o == Other(n)
           v == Head(edge[n].slot)
           to == [edge[n] EXCEPT !.slot = <<>>, !.seen = TRUE]
<1>1. /\ Shape /\ edge \in [N -> Edges] /\ edge[n] \in Edges /\ got \in [N -> Seq(Answers)]
      /\ o \in N /\ o # n /\ Other(o) = n /\ "clear" \in Place /\ owner[n].pc = "await"
      /\ edge[n].slot # <<>> /\ wire[n] \in Seq(Frames) /\ wire[o] \in Seq(Frames)
  BY Peers, Parts DEF Linked, Local, Shape, Await, At, Place
<1>2. /\ edge' = [edge EXCEPT ![n] = to] /\ got' = [got EXCEPT ![n] = Append(@, v)]
      /\ inbox' = inbox /\ known' = known /\ wire' = wire /\ effects' = effects
  BY <1>1 DEF Await
<1>3. to.next = edge[n].next /\ to.slot = <<>>
  BY <1>1 DEF Edges
<1> HIDE DEF v, to
<1>4. edge'[n].next = edge[n].next /\ edge'[o] = edge[o] /\ edge'[n].slot = <<>> /\ got'[o] = got[o]
  BY <1>1, <1>2, <1>3
<1>5. owner'[n].hand = owner[n].hand /\ owner'[o] = owner[o] /\ owner'[n].pc = "clear"
  BY <1>1, Going DEF Await
<1>6. Passing(wire[n], wire[n]) /\ Passing(wire[o], wire[o])
  BY <1>1, Losing
<1>7. Once(n)'
  <2>1. Quiet(n)
    BY <1>1, <1>2, <1>5, <1>6 DEF Quiet, Passing, Clocking, Asking
  <2>2. Calm(o)
    BY <1>2, <1>4, <1>5, <1>6 DEF Calm, Passing
  <2> QED BY <2>1, <2>2, OnceStands
<1>8. Single(o) /\ Numbered(o) /\ Behind(o)
  BY DEF Once
<1>9. \A p \in Stages : In(o, p) => p = "slot"
  <2>1. "slot" \in Stages /\ In(o, "slot")
    BY <1>1 DEF In, Stages
  <2> QED BY <1>8, <2>1 DEF Single
<1>10. \A p \in Stages : ~In(o, p)'
  <2>1. \A p \in Stages : In(o, p)' => p # "slot" /\ In(o, p)
    BY <1>1, <1>2, <1>4, <1>5 DEF In, Stages
  <2> QED BY <1>9, <2>1
<1>11. Single(o)'
  BY <1>1, <1>2, <1>8, <1>10 DEF Single
<1>12. Lagging(o)'
  BY <1>10 DEF Lagging
<1>13. Numbered(o)'
  BY <1>1, <1>2, <1>4, <1>5, <1>8, <1>10 DEF Numbered, Stages
<1>14. Behind(o)'
  <2>1. Completing(o)' => Completing(o)
    BY <1>2, <1>5 DEF Completing, Completed
  <2> QED BY <1>1, <1>2, <1>4, <1>5, <1>8, <2>1 DEF Behind
<1> QED BY <1>7, <1>11, <1>12, <1>13, <1>14 DEF Once

\* What reading a frame does to the wire of an end that has one of a kind.
LEMMA ReadsOnce ==
  ASSUME Linked, NEW n \in N, NEW op, Reads(n, op), wire'[n] = Tail(wire[n]), Lone(wire[n], op)
  PROVE  /\ Passing(wire[n], wire'[n]) /\ Has(wire[n], op) /\ ~Has(wire'[n], op)
         /\ \A i : Marked(wire[n], op, i) => Front(n) = i
<1>1. wire[n] \in Seq(Frames) /\ wire[n] # <<>> /\ Head(wire[n]).op = op
  BY Parts DEF Linked, Local, Reads
<1>2. Passing(wire[n], wire'[n])
  BY <1>1, Losing
<1>3. Has(wire[n], op) /\ (Lone(wire[n], op) => ~Has(Tail(wire[n]), op))
      /\ \A i : Marked(wire[n], op, i) => Head(wire[n]).id = i
  BY ONLY <1>1, First
<1> QED BY <1>2, <1>3 DEF Front

\* An answer is read.
LEMMA ReadRespOnce ==
  ASSUME Linked, NEW n \in N, Once(n), Once(Other(n)), ReadResp(n) PROVE Once(n)' /\ Once(Other(n))'
<1>1. CASE ~(edge[n].inflight = Front(n) /\ edge[n].slot = <<>>)
  BY <1>1, EndsOnce DEF ReadResp
<1>2. CASE edge[n].inflight = Front(n) /\ edge[n].slot = <<>>
  <2> DEFINE o == Other(n)
             v == Head(wire[n]).val
             to == [edge[n] EXCEPT !.slot = <<v>>, !.seen = TRUE]
  <2>1. /\ Shape /\ edge \in [N -> Edges] /\ edge[n] \in Edges /\ o \in N /\ o # n /\ Other(o) = n
        /\ wire[n] # <<>> /\ wire[n] \in Seq(Frames) /\ wire[o] \in Seq(Frames) /\ Reads(n, "resp")
    BY Peers, Parts DEF Linked, Local, Shape, ReadResp, Reads
  <2>2. /\ edge' = [edge EXCEPT ![n] = to] /\ Received(n) /\ owner' = owner
        /\ inbox' = inbox /\ known' = known /\ got' = got /\ effects' = effects
    BY <1>2, <2>1 DEF ReadResp
  <2>3. to.next = edge[n].next
    BY <2>1 DEF Edges
  <2> HIDE DEF v, to
  <2>4. edge'[n].next = edge[n].next /\ edge'[o] = edge[o]
    BY <2>1, <2>2, <2>3
  <2>5. wire'[n] = Tail(wire[n]) /\ wire'[o] = wire[o]
    BY <2>1, <2>2, Reading
  <2>6. Single(o) /\ Lagging(o) /\ Numbered(o) /\ Behind(o)
    BY DEF Once
  <2>7. Passing(wire[n], wire'[n]) /\ Has(wire[n], "resp") /\ ~Has(wire'[n], "resp")
    BY <2>1, <2>5, <2>6, ReadsOnce DEF Single
  <2>8. Passing(wire[o], wire'[o])
    BY <2>1, <2>5, Losing
  <2>9. Once(n)'
    <3>1. Quiet(n)
      BY <2>2, <2>5, <2>7 DEF Quiet, Passing
    <3>2. Calm(o)
      BY <2>2, <2>4, <2>8 DEF Calm, Passing
    <3> QED BY <3>1, <3>2, OnceStands
  <2>10. "resp" \in Stages /\ In(o, "resp")
    BY <2>1, <2>7 DEF In, Stages
  <2>11. \A p \in Stages : In(o, p)' => p = "slot" \/ (p # "resp" /\ In(o, p))
    BY <2>1, <2>2, <2>5, <2>7 DEF In, Stages
  <2>12. /\ \A p, q \in Stages : In(o, p)' /\ In(o, q)' => p = q
         /\ Lagging(o)'
    <3>1. got'[Other(o)] = got[Other(o)] /\ edge'[Other(o)].next = edge[Other(o)].next
      BY <2>1, <2>2, <2>4
    <3>2. o \in N /\ Single(o) /\ Lagging(o)
      BY <2>1, <2>6
    <3> HIDE DEF o
    <3> QED BY ONLY <2>10, <2>11, <3>1, <3>2, StageMoves
  <2>13. Fewer(wire[n], wire'[n], "resp") /\ (Ahead(wire'[n]) => Ahead(wire[n]))
         /\ (Has(wire'[n], "req") => Has(wire[n], "req"))
    BY <2>7 DEF Passing, Fewer
  <2>14. Single(o)'
    BY <2>1, <2>2, <2>5, <2>6, <2>12, <2>13 DEF Single, Fewer
  <2>15. Numbered(o)'
    <3>1. (In(o, "send") \/ In(o, "req"))' => In(o, "send") \/ In(o, "req")
      BY <2>1, <2>2, <2>5 DEF In
    <3> QED BY <2>1, <2>2, <2>4, <2>5, <2>6, <2>13, <3>1 DEF Numbered, Fewer
  <2>16. Behind(o)'
    <3>1. Completing(o)' => Completing(o)
      BY <2>2 DEF Completing, Completed
    <3> QED BY <2>1, <2>2, <2>4, <2>6, <2>13, <3>1 DEF Behind
  <2> QED BY <2>9, <2>12, <2>14, <2>15, <2>16 DEF Once
<1> QED BY <1>1, <1>2

\* A request is read: queued ...
LEMMA EnqueueOnce ==
  ASSUME Linked, NEW n \in N, Once(n), Once(Other(n)), Enqueue(n) PROVE Once(n)' /\ Once(Other(n))'
<1> DEFINE o == Other(n)
           f == Front(n)
           more == inbox[n].pending + 1
           claims == known[n].claimed \cup {f}
<1>1. /\ Shape /\ o \in N /\ o # n /\ Other(o) = n /\ Reads(n, "req")
      /\ inbox \in [N -> Inboxes] /\ inbox[n] \in Inboxes /\ known \in [N -> Memory] /\ known[n] \in Memory
      /\ wire[n] # <<>> /\ wire[n] \in Seq(Frames) /\ wire[o] \in Seq(Frames)
  BY Peers, Parts DEF Linked, Local, Shape, Enqueue, Requested, Reads
<1>2. inbox[n].queue = <<>>
  BY NewRequest DEF Enqueue
<1>3. /\ known' = [known EXCEPT ![n].claimed = claims, ![n].highest = f]
      /\ inbox' = [inbox EXCEPT ![n].queue = <<f>>, ![n].pending = more]
      /\ Received(n) /\ owner' = owner /\ edge' = edge /\ got' = got /\ effects' = effects
  <2>1. Append(inbox[n].queue, f) = <<f>>
    <3>1. Append(<<>>, f) = <<f>>
      OBVIOUS
    <3> QED BY <1>2, <3>1
  <2> QED BY <1>1, <2>1 DEF Enqueue, Claim, Inboxes, Memory
<1> HIDE DEF more, claims
<1>4. /\ inbox'[n].queue = <<f>> /\ inbox'[n].held = inbox[n].held /\ inbox'[n].done = inbox[n].done
      /\ inbox'[o] = inbox[o] /\ known'[o] = known[o]
  BY <1>1, <1>3 DEF Inboxes, Memory
<1>5. wire'[n] = Tail(wire[n]) /\ wire'[o] = wire[o]
  BY <1>1, <1>3, Reading
<1>6. Single(n) /\ Lagging(n) /\ Numbered(n) /\ Behind(n)
  BY DEF Once
<1>7. /\ Passing(wire[n], wire'[n]) /\ Has(wire[n], "req") /\ ~Has(wire'[n], "req")
      /\ f = edge[o].next - 1
  BY <1>1, <1>5, <1>6, ReadsOnce DEF Single, Numbered
<1> HIDE DEF f
<1>8. Passing(wire[o], wire'[o])
  BY <1>1, <1>5, Losing
<1>9. "req" \in Stages /\ In(n, "req")
  BY <1>7 DEF In, Stages
<1>10. \A p \in Stages : In(n, p)' => p = "queue" \/ (p # "req" /\ In(n, p))
  BY <1>1, <1>3, <1>4, <1>5, <1>7 DEF In, Stages
<1>11. /\ \A p \in Stages : In(n, p)' => p = "queue"
       /\ \A p, q \in Stages : In(n, p)' /\ In(n, q)' => p = q
       /\ Lagging(n)'
  <2>1. got'[o] = got[o] /\ edge'[o].next = edge[o].next
    BY <1>3
  <2> QED BY <1>6, <1>9, <1>10, <2>1, StageMoves
<1>12. Single(n)'
  BY <1>1, <1>4, <1>5, <1>6, <1>7, <1>11 DEF Single, Passing, Fewer
<1>13. Numbered(n)'
  <2>1. ~(In(n, "send") \/ In(n, "req"))'
    <3>1. {"send", "req"} \subseteq Stages /\ "send" # "queue" /\ "req" # "queue"
      BY DEF Stages
    <3> QED BY <1>11, <3>1
  <2>2. \A k \in DOMAIN <<f>> : <<f>>[k] = f
    OBVIOUS
  <2>3. /\ Marked(wire'[n], "req", edge[o].next - 1) /\ Marked(wire'[o], "resp", edge[o].next - 1)
    BY <1>5, <1>6, <1>7 DEF Numbered, Passing, Fewer
  <2>4. edge'[o].next = edge[o].next /\ owner'[n] = owner[n]
    BY <1>3
  <2> QED BY <1>4, <1>6, <1>7, <2>1, <2>2, <2>3, <2>4 DEF Numbered
<1>14. Behind(n)'
  <2>1. Completing(n)' => Completing(n)
    BY <1>3, <1>4 DEF Completing, Completed
  <2> QED BY <1>3, <1>5, <1>6, <2>1 DEF Behind
<1>15. Once(o)'
  <2>1. Beside(o) /\ effects'[o] = effects[o]
    BY <1>3, <1>4 DEF Beside, Enqueue
  <2>2. Quiet(o)
    BY <1>1, <1>4, <1>5, <1>7, <1>8, <2>1, Aside DEF Passing, Fewer
  <2>3. Calm(n)
    BY <1>3, <1>7 DEF Calm, Passing
  <2> QED BY <1>1, <2>2, <2>3, OnceStands
<1> QED BY <1>11, <1>12, <1>13, <1>14, <1>15 DEF Once

\* ... or answered with the edge in flight, which completes no byte.
LEMMA ReciprocateOnce ==
  ASSUME Linked, NEW n \in N, Once(n), Once(Other(n)), Reciprocate(n) PROVE Once(n)' /\ Once(Other(n))'
<1> DEFINE o == Other(n)
           f == Front(n)
           r == Request(f, edge[n].inflight, FALSE)
           mem == Remembered(n, r)
           x == Frame("resp", r.id, r.val)
<1>1. /\ Shape /\ o \in N /\ o # n /\ Other(o) = n /\ Reads(n, "req")
      /\ edge \in [N -> Edges] /\ edge[n] \in Edges /\ wire[n] # <<>> /\ effects \in [N -> Seq(Edge)]
      /\ edge[n].inflight \in Ids /\ wire[o] \in Seq(Frames) /\ wire[n] \in Seq(Frames)
      /\ effects[n] \in Seq(Edge)
  <2>1. Shape /\ o \in N /\ o # n /\ Other(o) = n
    BY Peers DEF Linked, Local
  <2>2. edge[n].inflight \in Ids
    BY <2>1, Parts DEF Reciprocate, Crossing
  <2> QED BY <2>1, <2>2, Parts DEF Shape, Reciprocate, Requested, Reads
<1>2. f \in Ids /\ \A k \in DOMAIN effects[n] : effects[n][k].id < f
  BY NewRequest DEF Reciprocate
<1>3. Single(n) /\ Lagging(n) /\ Numbered(n) /\ Behind(n)
  BY DEF Once
<1> HIDE DEF f
<1>4. r \in Edge /\ r.id = f /\ ~r.completed /\ r.val \in Answers
  <2> DEFINE e == edge[n].inflight
  <2>1. e \in Answers /\ FALSE \in BOOLEAN
    BY <1>1, Sources
  <2>2. r = Request(f, e, FALSE)
    OBVIOUS
  <2>3. \A i \in Ids, v \in Answers, c \in BOOLEAN :
          Request(i, v, c) \in Edge /\ Request(i, v, c).id = i /\ Request(i, v, c).val = v
    BY Requests
  <2> HIDE DEF e, r
  <2>4. Request(f, e, FALSE) \in Edge /\ Request(f, e, FALSE).id = f /\ Request(f, e, FALSE).val = e
    BY ONLY <1>2, <2>1, <2>3
  <2>5. ~Request(f, e, FALSE).completed
    BY <1>2, <2>1, Requests
  <2> QED BY <2>1, <2>2, <2>4, <2>5
<1>5. /\ effects' = [effects EXCEPT ![n] = Append(@, r)] /\ known' = [mem EXCEPT ![n].highest = f]
      /\ Answer(n, x) /\ edge' = [edge EXCEPT ![n].recip = TRUE]
      /\ owner' = owner /\ inbox' = inbox /\ got' = got
  BY DEF Reciprocate, f
<1>6. wire'[n] = Tail(wire[n]) /\ wire'[o] = IF closed[o] THEN wire[o] ELSE Append(wire[o], x)
  BY <1>1, <1>2, <1>4, <1>5, Replying
<1> HIDE DEF r
<1>7. x \in Frames /\ x.op = "resp" /\ x.id = r.id
  BY <1>2, <1>4, FrameParts
<1> HIDE DEF x
<1>8. mem \in [N -> Memory] /\ mem[o] = known[o]
  BY <1>1, <1>4, RememberedParts
<1> HIDE DEF mem
<1>9. known'[n].highest = f /\ known'[o] = known[o]
  BY <1>1, <1>5, <1>8 DEF Memory
<1>10. edge'[n].next = edge[n].next /\ edge'[n].slot = edge[n].slot /\ edge'[o] = edge[o]
  BY <1>1, <1>5 DEF Edges
<1>11. /\ Passing(wire[n], wire'[n]) /\ Has(wire[n], "req") /\ ~Has(wire'[n], "req")
       /\ f = edge[o].next - 1
  BY <1>1, <1>3, <1>6, ReadsOnce DEF Single, Numbered, f
<1>12. "req" \in Stages /\ In(n, "req")
  BY <1>11 DEF In, Stages
<1>13. \A p \in Stages : In(n, p)' => p = "resp" \/ (p # "req" /\ In(n, p))
  BY <1>1, <1>5, <1>10, <1>11 DEF In, Stages
<1>14. /\ \A p \in Stages : In(n, p) => p = "req"
       /\ \A p \in Stages : In(n, p)' => p = "resp"
       /\ \A p, q \in Stages : In(n, p)' /\ In(n, q)' => p = q
       /\ Lagging(n)'
  <2>1. got'[o] = got[o] /\ edge'[o].next = edge[o].next
    BY <1>5, <1>10
  <2> QED BY <1>3, <1>12, <1>13, <2>1, StageMoves
<1>15. ~Has(wire[o], "resp")
  BY <1>14 DEF In, Stages
<1>16. /\ Fewer(wire[o], wire'[o], "req") /\ Lone(wire'[o], "resp") /\ Marked(wire'[o], "resp", f)
  BY <1>1, <1>4, <1>6, <1>7, <1>15, Gaining, Losing DEF Passing, Lone, Marked, Has
<1>17. Single(n)'
  BY <1>1, <1>3, <1>5, <1>11, <1>14, <1>16 DEF Single, Passing, Fewer
<1>18. Numbered(n)'
  <2>1. ~(In(n, "send") \/ In(n, "req"))'
    <3>1. {"send", "req"} \subseteq Stages /\ "send" # "resp" /\ "req" # "resp"
      BY DEF Stages
    <3> QED BY <1>14, <3>1
  <2>2. /\ Marked(wire'[n], "req", edge[o].next - 1)
    BY <1>3, <1>11 DEF Numbered, Passing, Fewer
  <2> QED BY <1>3, <1>5, <1>10, <1>11, <1>16, <2>1, <2>2 DEF Numbered
<1>19. Behind(n)'
  <2>1. Completing(n)' => Completing(n)
    BY <1>5 DEF Completing, Completed
  <2>2. ASSUME NEW k \in DOMAIN effects'[n], effects'[n][k].id = f PROVE ~effects'[n][k].completed
    <3>1. effects'[n] = Append(effects[n], r)
      BY <1>1, <1>5
    <3>2. effects'[n][k] = r \/ (k \in DOMAIN effects[n] /\ effects'[n][k] = effects[n][k])
      BY <1>1, <1>4, <3>1, Appending
    <3>3. \A i \in Ids : ~(i < i)
      BY DEF Ids
    <3> QED BY <1>2, <1>4, <2>2, <3>2, <3>3
  <2>3. Has(wire'[o], "req") => Has(wire[o], "req")
    BY <1>16 DEF Fewer
  <2> QED BY <1>3, <1>5, <1>10, <1>11, <2>1, <2>2, <2>3 DEF Behind
<1>20. Once(o)'
  <2>1. Beside(o) /\ effects'[o] = effects[o]
    BY <1>1, <1>5, <1>10 DEF Beside, Reciprocate
  <2>2. Quiet(o)
    BY <1>1, <1>9, <1>11, <1>16, <2>1, Aside DEF Passing, Fewer
  <2>3. Calm(n)
    BY <1>5, <1>10, <1>11 DEF Calm, Passing
  <2> QED BY <1>1, <2>2, <2>3, OnceStands
<1> QED BY <1>14, <1>17, <1>18, <1>19, <1>20 DEF Once

\* Nothing is asked for twice.
LEMMA AskedOnce ==
  ASSUME Linked, NEW n \in N, Once(n), Reads(n, "req") PROVE Front(n) \notin Answered(n) \cup known[n].claimed
                                                            /\ Front(n) > known[n].highest
<1>1. /\ Shape /\ wire[n] # <<>> /\ wire[n] \in Seq(Frames) /\ Single(n) /\ Numbered(n) /\ Head(wire[n]).op = "req"
      /\ Effective(n) /\ Recorded(n) /\ known[n].highest \in Nat /\ known[n].claimed \subseteq Ids
      /\ effects[n] \in Seq(Edge)
  BY Parts DEF Linked, Local, Peered, Reads, Once, Ids, NoId
<1>2. Has(wire[n], "req") /\ Front(n) = edge[Other(n)].next - 1
  BY <1>1, First DEF Numbered, Front
<1>3. Front(n) \in Nat
  <2>1. Head(wire[n]) = wire[n][1] /\ 1 \in DOMAIN wire[n]
    BY <1>1, Elements
  <2> QED BY <1>1, <2>1 DEF Effective, Front, Ids
<1>4. known[n].highest < Front(n)
  BY <1>1, <1>2 DEF Numbered, In
<1>5. \A a, b, c \in Nat : a <= b /\ b < c => a # c
  OBVIOUS
<1>6. ASSUME Front(n) \in known[n].claimed PROVE FALSE
  <2>1. \A a \in Nat : Front(n) \in 1..a => Front(n) <= a
    OBVIOUS
  <2>2. Front(n) <= known[n].highest
    BY <1>1, <1>6, <2>1 DEF Effective
  <2> QED BY <1>1, <1>3, <1>4, <1>5, <2>2
<1>7. ASSUME Front(n) \in Answered(n) PROVE FALSE
  <2>1. PICK k \in DOMAIN known[n].answered : known[n].answered[k].id = Front(n)
    BY <1>7 DEF Answered
  <2>2. PICK j \in DOMAIN effects[n] : effects[n][j] = known[n].answered[k]
    BY <1>1 DEF Recorded, Effect
  <2>3. Front(n) <= known[n].highest
    BY <1>1, <2>1, <2>2 DEF Effective
  <2> QED BY <1>1, <1>3, <1>4, <1>5, <2>3
<1>8. \A a, b \in Nat : a < b => b > a
  OBVIOUS
<1> QED BY <1>1, <1>3, <1>4, <1>6, <1>7, <1>8

-----------------------------------------------------------------------------
(* No request runs ahead of the response that completes a byte *)

LEMMA InitOnce == ASSUME Init, NEW n \in N PROVE Once(n)
<1> DEFINE o == Other(n)
<1>1. o \in N
  BY Peers
<1>2. /\ owner[n].hand = NoRequest /\ inbox[n].held = NoRequest /\ inbox[n].queue = <<>> /\ inbox[n].done = <<>>
      /\ wire[n] = <<>> /\ wire[o] = <<>> /\ owner[o].pc = "turn" /\ edge[o].slot = <<>>
  BY <1>1 DEF Init
<1>3. DOMAIN <<>> = {} /\ Len(<<>>) <= 1
  BY EmptySeq
<1>4. \A op : ~Has(<<>>, op) /\ Lone(<<>>, op) /\ \A i : Marked(<<>>, op, i)
  BY <1>3 DEF Has, Lone, Marked
<1>5. ~Ahead(<<>>) /\ Finished(<<>>) = {}
  BY <1>3 DEF Ahead, Finished
<1>6. \A p \in Stages : ~In(n, p)
  BY <1>2, <1>4 DEF In, Stages
<1>7. Single(n)
  BY <1>2, <1>3, <1>4, <1>6 DEF Single
<1>8. Lagging(n)
  BY <1>6 DEF Lagging
<1>9. Numbered(n)
  BY <1>2, <1>3, <1>4, <1>6 DEF Numbered, Stages
<1>10. Behind(n)
  <2>1. ~Completing(n)
    BY <1>2, <1>5, Requests DEF Completing, Completed
  <2> QED BY <1>2, <1>5, <2>1 DEF Behind
<1> QED BY <1>7, <1>8, <1>9, <1>10 DEF Once

LEMMA OwnerOnce ==
  ASSUME Linked, NEW n \in N, Once(n), Once(Other(n)), OwnerStep(n) PROVE Once(n)' /\ Once(Other(n))'
<1>1. CASE BeginTurn(n) \/ PumpDone(n) \/ FinishFrame(n) \/ FinishTurn(n) \/ Progress(n) \/ Check(n)
  BY <1>1, BeginTurnOnce, PumpDoneOnce, FinishFrameOnce, FinishTurnOnce, ProgressOnce, CheckOnce
<1>2. CASE OwnerStops(n) \/ Serve(n) \/ Defer(n) \/ Publish(n) \/ ArmMaster(n) \/ ArmSlave(n)
  BY <1>2, EndsOnce, ServeOnce, DeferOnce, PublishOnce, ArmOnce
<1>3. CASE Clock(n) \/ Admit(n) \/ Reserve(n) \/ SendReq(n) \/ AnswerReserved(n) \/ Await(n) \/ Clear(n)
  BY <1>3, ClockOnce, AdmitOnce, ReserveOnce, SendReqOnce, AnswerReservedOnce, AwaitOnce, ClearOnce
<1> QED BY <1>1, <1>2, <1>3 DEF OwnerStep

LEMMA ReaderOnce ==
  ASSUME Linked, NEW n \in N, Once(n), Once(Other(n)), ReaderStep(n) PROVE Once(n)' /\ Once(Other(n))'
<1>1. CASE Replay(n)
  BY <1>1, AskedOnce DEF Replay, Requested
<1>2. CASE RejectReq(n)
  BY <1>2, EndsOnce
<1>3. CASE Reciprocate(n) \/ Enqueue(n) \/ ReadResp(n)
  BY <1>3, ReciprocateOnce, EnqueueOnce, ReadRespOnce
<1>4. CASE ReadTurn(n)
  <2>1. CASE Accuse(n)
    BY <2>1, EndsOnce
  <2> QED BY <1>4, <2>1, ReadTurnOnce
<1>5. CASE ReadEnd(n)
  BY <1>5, EndsOnce
<1> QED BY <1>1, <1>2, <1>3, <1>4, <1>5 DEF ReaderStep

\* Only Repeat repeats.
LEMMA OnlyRepeat ==
  ASSUME [Next]_vars, ~\E n \in N : Repeat(n) PROVE repeats' = repeats
<1>1. ASSUME NEW n \in N, OwnerStep(n) PROVE repeats' = repeats
  <2>1. CASE BeginTurn(n) \/ PumpDone(n) \/ FinishFrame(n) \/ FinishTurn(n) \/ Progress(n) \/ Check(n)
    BY <2>1 DEF BeginTurn, PumpDone, FinishFrame, FinishTurn, Progress, Check
  <2>2. CASE OwnerStops(n) \/ Serve(n) \/ Defer(n) \/ Publish(n) \/ ArmMaster(n) \/ ArmSlave(n)
    BY <2>2 DEF OwnerStops, Abort, Serve, Defer, Publish, ArmMaster, ArmSlave
  <2>3. CASE Clock(n) \/ Admit(n) \/ Reserve(n) \/ SendReq(n) \/ AnswerReserved(n) \/ Await(n) \/ Clear(n)
    BY <2>3 DEF Clock, Admit, Abort, Reserve, SendReq, AnswerReserved, Await, Clear
  <2> QED BY <1>1, <2>1, <2>2, <2>3 DEF OwnerStep
<1>2. ASSUME NEW n \in N, WorkerStep(n) PROVE repeats' = repeats
  BY <1>2 DEF WorkerStep, WorkerSend, WorkerSettle
<1>3. ASSUME NEW n \in N, ReaderStep(n) PROVE repeats' = repeats
  BY <1>3 DEF ReaderStep, Replay, RejectReq, Accuse, Reciprocate, Enqueue, ReadResp, ReadTurn, ReadEnd
<1>4. ASSUME NEW n \in N, Expire(n) \/ Stop(n) PROVE repeats' = repeats
  BY <1>4 DEF Expire, Abort, Stop
<1>5. CASE UNCHANGED vars \/ Ended
  BY <1>5 DEF vars, Ended
<1> QED BY <1>1, <1>2, <1>3, <1>4, <1>5 DEF Next

LEMMA NextOnce ==
  ASSUME Linked, Unrepeated, [Next]_vars PROVE Unrepeated'
<1> SUFFICES ASSUME repeats' = 0, NEW m \in N PROVE Once(m)'
  BY DEF Unrepeated
<1>1. ~\E n \in N : Repeat(n)
  <2>1. repeats \in Nat
    BY DEF Linked, Local, Shape
  <2>2. \A a \in Nat : a + 1 # 0
    OBVIOUS
  <2> QED BY <2>1, <2>2 DEF Repeat
<1>2. repeats = 0
  BY <1>1, OnlyRepeat
<1>3. \A n \in N : Once(n)
  BY <1>2 DEF Unrepeated
<1>4. ASSUME NEW n \in N, OwnerStep(n) \/ WorkerStep(n) \/ ReaderStep(n) \/ Expire(n) \/ Stop(n) PROVE Once(m)'
  <2>1. Once(n) /\ Once(Other(n)) /\ (m = n \/ m = Other(n))
    BY <1>3, Peers
  <2>2. CASE OwnerStep(n)
    BY <2>1, <2>2, OwnerOnce
  <2>3. CASE WorkerStep(n)
    BY <2>1, <2>3, WorkerSendOnce, WorkerSettleOnce DEF WorkerStep
  <2>4. CASE ReaderStep(n)
    BY <2>1, <2>4, ReaderOnce
  <2>5. CASE Expire(n) \/ Stop(n)
    BY <2>1, <2>5, EndsOnce
  <2> QED BY <1>4, <2>2, <2>3, <2>4, <2>5
<1>5. CASE UNCHANGED vars \/ Ended
  <2>1. UNCHANGED vars
    BY <1>5 DEF Ended
  <2> QED BY <1>3, <2>1 DEF vars, Once, Single, Lagging, Numbered, Behind, In, Completing, Completed
<1> QED BY <1>1, <1>4, <1>5 DEF Next

LEMMA OnceNotOvertaking == ASSUME Linked, Unrepeated PROVE NoOvertaking
<1> SUFFICES ASSUME NEW n \in N, NEW i \in DOMAIN wire[n], NEW j \in DOMAIN wire[n], i < j,
                    wire[n][i].op = "req", wire[n][j].op = "resp",
                    NEW k \in DOMAIN effects[Other(n)], effects[Other(n)][k].id = wire[n][j].id,
                    ~(repeats > 0)
             PROVE  ~effects[Other(n)][k].completed
  BY DEF NoOvertaking
<1>1. repeats = 0
  BY DEF Linked, Local, Shape
<1>2. Other(n) \in N /\ Other(Other(n)) = n
  BY Peers
<1>3. Behind(Other(n)) /\ Numbered(Other(n))
  BY <1>1, <1>2 DEF Unrepeated, Once
<1>4. Ahead(wire[n]) /\ wire[n][j].id = edge[n].next - 1
  BY <1>2, <1>3 DEF Ahead, Numbered, Marked
<1> QED BY <1>2, <1>3, <1>4 DEF Behind

\* On the wire no own request runs ahead of the response that completes a byte of the peer,
\* whatever is queued, held or crossed, whoever is stopped and whichever deadline passes, unless
\* the wire repeats a request.
THEOREM ResponsesAreNotOvertaken == Spec => []NoOvertaking
<1>1. Init => Linked /\ Unrepeated
  BY InitLinked, InitOnce DEF Unrepeated
<1>2. Linked /\ Unrepeated /\ [Next]_vars => (Linked /\ Unrepeated)'
  BY NextLinked, NextOnce
<1>3. Linked /\ Unrepeated => NoOvertaking
  BY OnceNotOvertaking
<1> QED BY <1>1, <1>2, <1>3, PTL DEF Spec

-----------------------------------------------------------------------------
(* No end accuses the other *)

\* Where the owner may go between the notices ...
Follows(n, r) ==
  \/ r.kind = owner[n].kind /\ r.pc \in {owner[n].pc, "down"}
  \/ IF barrier
     THEN /\ {owner[n].pc, r.pc} \cap {"turn", "down"} = {}
          /\ Early(r) => Early(owner[n])
          /\ r.pc = "finish" => n = Leader
     ELSE r.pc \notin {"finish", "loop", "check"} /\ r.kind # "loop"

\* ... and what may happen on the wires.
Carrying(n) ==
  \/ wire' = wire \/ (wire[n] # <<>> /\ Received(n)) \/ wire' = [wire EXCEPT ![n] = <<>>]
  \/ \E f : f.op \in {"req", "resp"} /\ (Send(n, f) \/ (wire[n] # <<>> /\ Answer(n, f)))

LEMMA Carries ==
  ASSUME NEW n \in N, NEW op \in {"req", "resp"}, NEW i, NEW v
  PROVE  /\ Send(n, Frame(op, i, v)) => Carrying(n)
         /\ wire[n] # <<>> /\ Answer(n, Frame(op, i, v)) => Carrying(n)
<1> DEFINE f == Frame(op, i, v)
<1>1. f.op \in {"req", "resp"}
  BY DEF Frame
<1> HIDE DEF f
<1>2. Send(n, f) \/ (wire[n] # <<>> /\ Answer(n, f)) => Carrying(n)
  BY <1>1 DEF Carrying
<1> QED BY <1>2 DEF f

\* The ends.
LEMMA Roles ==
  /\ Leader \in N /\ Follower \in N /\ Leader # Follower /\ Other(Follower) = Leader
  /\ \A n \in N : n = Leader \/ n = Follower
  /\ \A n \in N : n # Leader => n = Follower /\ Other(n) = Leader
<1>1. Leader \in N
  BY EndsAssumption
<1> QED BY <1>1, Peers DEF Follower

\* No notice is added.
LEMMA CarryingLess ==
  ASSUME Linked, Linked', NEW n \in N, Carrying(n), NEW m \in N, NEW op \in Notices
  PROVE  Fewer(wire[m], wire'[m], op)
<1> DEFINE o == Other(n)
<1>1. /\ Shape /\ Shape' /\ o \in N /\ o # n /\ (m = n \/ m = o) /\ wire \in [N -> Seq(Frames)]
      /\ wire[n] \in Seq(Frames) /\ wire[o] \in Seq(Frames) /\ wire'[o] \in Seq(Frames)
  BY Peers DEF Linked, Local, Shape
<1>2. \A e \in N : wire[e] \in Seq(Frames) =>
        /\ Fewer(wire[e], wire[e], op) /\ Fewer(wire[e], <<>>, op)
        /\ wire[e] # <<>> => Fewer(wire[e], Tail(wire[e]), op)
  BY Dropping
<1>3. ASSUME NEW f, f.op \in {"req", "resp"}, wire'[o] = Append(wire[o], f) PROVE Fewer(wire[o], wire'[o], op)
  <2>1. f \in Frames
    <3> DEFINE w == wire[o]
    <3>1. w \in Seq(Frames) /\ Append(w, f) \in Seq(Frames)
      BY <1>1, <1>3
    <3> HIDE DEF w
    <3>2. Len(w) + 1 \in 1..Len(Append(w, f)) /\ Append(w, f)[Len(w) + 1] = f
      BY <3>1
    <3>3. \A k \in 1..Len(Append(w, f)) : Append(w, f)[k] \in Frames
      BY <3>1, ElementOfSeq
    <3> QED BY <3>2, <3>3
  <2>2. f.op # op
    BY <1>3 DEF Notices
  <2> QED BY <1>1, <1>3, <2>1, <2>2, Gaining
<1>4. CASE wire' = wire \/ (wire[n] # <<>> /\ Received(n)) \/ wire' = [wire EXCEPT ![n] = <<>>]
  <2>1. wire'[m] \in {wire[m], <<>>} \/ (wire[m] # <<>> /\ wire'[m] = Tail(wire[m]))
    BY <1>1, <1>4 DEF Received
  <2> QED BY <1>1, <1>2, <2>1
<1>5. CASE \E f : f.op \in {"req", "resp"} /\ (Send(n, f) \/ (wire[n] # <<>> /\ Answer(n, f)))
  <2>1. PICK f : f.op \in {"req", "resp"} /\ (Send(n, f) \/ (wire[n] # <<>> /\ Answer(n, f)))
    BY <1>5
  <2>2. wire'[n] = wire[n] \/ (wire[n] # <<>> /\ wire'[n] = Tail(wire[n]))
    BY <1>1, <2>1 DEF Send, Answer
  <2>3. wire'[o] = wire[o] \/ wire'[o] = Append(wire[o], f)
    BY <1>1, <2>1 DEF Send, Answer
  <2>4. Fewer(wire[o], wire'[o], op)
    BY <1>1, <1>2, <1>3, <2>1, <2>3
  <2> QED BY <1>1, <1>2, <2>2, <2>4
<1> QED BY <1>4, <1>5 DEF Carrying

\* While no notice is added and the owner goes on, the turns stand.
LEMMA TurnsStand ==
  ASSUME Linked, Turns, NEW n \in N, Follows(n, owner'[n]), owner'[Other(n)] = owner[Other(n)], barrier' = barrier,
         \A m \in N : \A op \in Notices : Alone(m, op)' /\ (Signalled(m, op)' => Signalled(m, op)),
         turn'[Other(n)].inflight = turn[Other(n)].inflight,
         turn'[n].inflight = turn[n].inflight \/ owner'[n].pc = "down"
  PROVE  Turns'
<1>1. \A m \in N : m = n \/ (m = Other(n) /\ owner'[m] = owner[m] /\ turn'[m].inflight = turn[m].inflight)
  BY Peers
<1>2. /\ Leader \in N /\ Follower \in N /\ Leader # Follower /\ \A m \in N : m = Leader \/ m = Follower
  BY Roles
<1>3. {"tick", "done", "ack"} = Notices
  BY DEF Notices
<1>4. /\ ~Signalled(Leader, "tick") /\ ~Signalled(Leader, "done") /\ ~Signalled(Follower, "ack")
      /\ IF barrier THEN Paced ELSE Unpaced
  BY DEF Turns
<1>5. (~Signalled(Leader, "tick") /\ ~Signalled(Leader, "done") /\ ~Signalled(Follower, "ack"))'
  BY <1>2, <1>3, <1>4 DEF Follower
<1>6. CASE barrier
  <2>1. Paced
    BY <1>4, <1>6
  <2>2. \A m \in N : \/ owner'[m].pc \in {owner[m].pc, "down"} /\ owner'[m].kind = owner[m].kind
                     \/ /\ {owner[m].pc, owner'[m].pc} \cap {"turn", "down"} = {}
                        /\ Early(owner'[m]) => Early(owner[m])
                        /\ owner'[m].pc = "finish" => m = Leader
    BY <1>1, <1>6 DEF Follows
  <2>3. \A m \in N : turn'[m].inflight = turn[m].inflight \/ owner'[m].pc = "down"
    BY <1>1
  <2>4. owner'[Leader].pc \notin {"turn", "down"} => turn'[Leader].inflight
    BY <1>2, <2>1, <2>2, <2>3 DEF Paced
  <2>5. owner'[Leader].pc = "turn" => owner[Leader].pc = "turn"
    BY <1>2, <2>2
  <2>6. Early(owner'[Leader]) => Early(owner[Leader])
    BY <1>2, <2>2 DEF Early
  <2>7. Resting => Resting'
    BY <1>2, <2>2 DEF Resting, Follower
  <2>8. owner'[Follower].pc # "finish"
    BY <1>2, <2>1, <2>2 DEF Paced
  <2>9. /\ Signalled(Follower, "tick")' => Signalled(Follower, "tick")
        /\ Signalled(Follower, "done")' => Signalled(Follower, "done")
        /\ Signalled(Leader, "ack")' => Signalled(Leader, "ack")
    BY <1>2, <1>3 DEF Follower
  <2>10. Paced'
    BY ONLY <2>1, <2>4, <2>5, <2>6, <2>7, <2>8, <2>9 DEF Paced, Follower
  <2> QED BY <1>5, <1>6, <2>10 DEF Turns
<1>7. CASE ~barrier
  <2>1. Unpaced
    BY <1>4, <1>7
  <2>2. ASSUME NEW m \in N PROVE owner'[m].pc \notin {"finish", "loop", "check"} /\ owner'[m].kind # "loop"
    BY <1>1, <1>7, <2>1, <2>2 DEF Unpaced, Follows
  <2>3. Unpaced'
    BY <2>1, <2>2 DEF Unpaced
  <2> QED BY <1>5, <1>7, <2>3 DEF Turns
<1> QED BY <1>6, <1>7

\* So they do in every step that neither sends nor takes a notice.
LEMMA TurnsPass ==
  ASSUME Linked, Linked', Turns, NEW n \in N, Carrying(n), Follows(n, owner'[n]),
         owner'[Other(n)] = owner[Other(n)], barrier' = barrier,
         turn' = turn \/ (turn' = [turn EXCEPT ![n].inflight = FALSE] /\ owner'[n].pc = "down")
  PROVE  Turns'
<1>1. turn \in [N -> Signals] /\ Other(n) \in N /\ Other(n) # n /\ turn[n] \in Signals
  BY Peers DEF Linked, Local, Shape
<1>2. /\ \A m \in N : \A op \in Notices : turn'[m][op] = turn[m][op]
      /\ turn'[Other(n)].inflight = turn[Other(n)].inflight
      /\ turn'[n].inflight = turn[n].inflight \/ owner'[n].pc = "down"
  <2>1. CASE turn' = turn
    BY <2>1
  <2>2. CASE turn' = [turn EXCEPT ![n].inflight = FALSE] /\ owner'[n].pc = "down"
    <3>1. \A m \in N : m # n => turn'[m] = turn[m]
      BY <1>1, <2>2
    <3>2. \A op \in Notices : turn'[n][op] = turn[n][op]
      BY <1>1, <2>2 DEF Signals, Notices
    <3> QED BY <1>1, <2>2, <3>1, <3>2
  <2> QED BY <2>1, <2>2
<1>3. \A m \in N : \A op \in Notices : Alone(m, op)' /\ (Signalled(m, op)' => Signalled(m, op))
  <2> SUFFICES ASSUME NEW m \in N, NEW op \in Notices
               PROVE  Alone(m, op)' /\ (Signalled(m, op)' => Signalled(m, op))
    OBVIOUS
  <2>1. Fewer(wire[m], wire'[m], op)
    BY CarryingLess
  <2>2. Alone(m, op)
    BY DEF Turns
  <2> QED BY <1>2, <2>1, <2>2 DEF Fewer, Alone, Signalled
<1> QED BY <1>2, <1>3, TurnsStand

\* Steps that leave the owner where it is.
LEMMA StaysTurns ==
  ASSUME Linked, Linked', Turns, NEW n \in N,
         \/ ArmMaster(n) \/ ArmSlave(n) \/ WorkerSend(n) \/ WorkerSettle(n) \/ Replay(n) \/ RejectReq(n)
         \/ Reciprocate(n) \/ Enqueue(n) \/ ReadResp(n) \/ Accuse(n) \/ ReadEnd(n) \/ Stop(n) \/ Repeat(n)
  PROVE  Turns'
<1>1. Carrying(n)
  <2>1. CASE ArmMaster(n) \/ ArmSlave(n) \/ WorkerSettle(n)
    BY <2>1 DEF Carrying, ArmMaster, ArmSlave, WorkerSettle
  <2>2. CASE WorkerSend(n)
    BY <2>2, Carries DEF WorkerSend
  <2>3. CASE Replay(n)
    BY <2>3, Carries DEF Replay, Requested, Reads
  <2>4. CASE RejectReq(n) \/ Accuse(n) \/ ReadEnd(n) \/ Stop(n)
    BY <2>4 DEF Carrying, RejectReq, Accuse, ReadEnd, Stop, MarkClosed
  <2>5. CASE Reciprocate(n)
    BY <2>5, Carries DEF Reciprocate, Requested, Reads
  <2>6. CASE Enqueue(n)
    BY <2>6 DEF Carrying, Enqueue, Requested, Reads
  <2>7. CASE ReadResp(n)
    BY <2>7 DEF Carrying, ReadResp, Reads, Accuse, MarkClosed
  <2>8. CASE Repeat(n)
    BY <2>8, Carries DEF Repeat
  <2> QED BY <2>1, <2>2, <2>3, <2>4, <2>5, <2>6, <2>7, <2>8
<1>2. owner' = owner /\ barrier' = barrier /\ turn' = turn
  <2>1. CASE ArmMaster(n) \/ ArmSlave(n) \/ WorkerSettle(n) \/ WorkerSend(n)
    BY <2>1 DEF ArmMaster, ArmSlave, WorkerSettle, WorkerSend
  <2>2. CASE Replay(n) \/ RejectReq(n) \/ Accuse(n) \/ ReadEnd(n) \/ Stop(n) \/ Repeat(n)
    BY <2>2 DEF Replay, RejectReq, Accuse, ReadEnd, Stop, Repeat
  <2>3. CASE Reciprocate(n) \/ Enqueue(n) \/ ReadResp(n)
    BY <2>3 DEF Reciprocate, Enqueue, ReadResp, Accuse
  <2> QED BY <2>1, <2>2, <2>3
<1>3. Follows(n, owner'[n])
  BY <1>2 DEF Follows
<1> QED BY <1>1, <1>2, <1>3, TurnsPass

LEMMA AbortTurns == ASSUME Linked, Linked', Turns, NEW n \in N, Abort(n) PROVE Turns'
<1>1. owner \in [N -> Owners] /\ owner[n] \in Owners /\ Other(n) # n /\ Other(n) \in N
  BY Peers, Parts DEF Linked, Local, Shape
<1>2. owner'[n].pc = "down" /\ owner'[n].kind = owner[n].kind /\ owner'[Other(n)] = owner[Other(n)]
  BY <1>1 DEF Abort, Owners
<1>3. Follows(n, owner'[n]) /\ Carrying(n)
  BY <1>2 DEF Follows, Carrying, Abort, MarkClosed
<1> QED BY <1>2, <1>3, TurnsPass DEF Abort

\* The owner goes on within its frame.
LEMMA GoesTurns ==
  ASSUME Linked, Linked', Turns, NEW n \in N, Carrying(n), turn' = turn, barrier' = barrier,
         owner'[Other(n)] = owner[Other(n)], owner'[n].kind = owner[n].kind,
         owner[n].pc \notin {"turn", "finish", "loop", "check", "down"},
         owner'[n].pc \notin {"turn", "finish", "loop", "check", "down"}
  PROVE  Turns'
<1>1. Follows(n, owner'[n])
  <2>1. CASE barrier
    BY <2>1 DEF Follows, Early
  <2>2. CASE ~barrier
    BY <2>2 DEF Follows, Turns, Unpaced
  <2> QED BY <2>1, <2>2
<1> QED BY <1>1, TurnsPass

LEMMA ClockTurns ==
  ASSUME Linked, Linked', Turns, NEW n \in N,
         \/ Serve(n) \/ Clock(n) \/ Admit(n) \/ Reserve(n) \/ SendReq(n) \/ AnswerReserved(n)
         \/ Await(n) \/ Clear(n)
  PROVE  Turns'
<1>1. /\ Shape /\ owner \in [N -> Owners] /\ owner[n] \in Owners /\ Other(n) # n /\ Other(n) \in N
      /\ {"settle", "reserve", "send", "answer", "await", "clear", "frame"} \subseteq Place
  BY Peers, Parts DEF Linked, Local, Shape, Place, Waits
<1>2. CASE Serve(n)
  <2> DEFINE r == Applied(n, Head(inbox[n].queue))  fr == At(n, "frame")
  <2>1. owner' = [owner EXCEPT ![n].pc = "publish", ![n].hand = r, ![n].inframe = fr]
        /\ owner[n].pc \in {"pump", "frame"} /\ wire' = wire /\ turn' = turn /\ barrier' = barrier
    BY <1>2 DEF Serve
  <2> HIDE DEF r, fr
  <2>2. owner'[n].pc = "publish" /\ owner'[n].kind = owner[n].kind /\ owner'[Other(n)] = owner[Other(n)]
    BY <1>1, <2>1 DEF Owners
  <2> QED BY <2>1, <2>2, GoesTurns DEF Carrying
<1>3. CASE Clock(n)
  <2>1. GoTo(n, "settle") /\ owner[n].pc = "frame" /\ wire' = wire /\ turn' = turn /\ barrier' = barrier
    BY <1>3 DEF Clock, At
  <2>2. owner'[n].pc = "settle" /\ owner'[n].kind = owner[n].kind /\ owner'[Other(n)] = owner[Other(n)]
    BY <1>1, <2>1, Going
  <2> QED BY <2>1, <2>2, GoesTurns DEF Carrying
<1>4. CASE Admit(n)
  <2>1. CASE edge[n].slot # <<>>
    BY <1>4, <2>1, AbortTurns DEF Admit
  <2>2. CASE edge[n].slot = <<>>
    <3>1. GoTo(n, "reserve") /\ owner[n].pc = "settle" /\ wire' = wire /\ turn' = turn /\ barrier' = barrier
      BY <1>4, <2>2 DEF Admit, At
    <3>2. owner'[n].pc = "reserve" /\ owner'[n].kind = owner[n].kind /\ owner'[Other(n)] = owner[Other(n)]
      BY <1>1, <3>1, Going
    <3> QED BY <3>1, <3>2, GoesTurns DEF Carrying
  <2> QED BY <2>1, <2>2
<1>5. CASE Reserve(n)
  <2>1. owner[n].pc = "reserve" /\ wire' = wire /\ turn' = turn /\ barrier' = barrier
    BY <1>5 DEF Reserve, At
  <2>2. owner'[n].pc = "send" /\ owner'[n].kind = owner[n].kind /\ owner'[Other(n)] = owner[Other(n)]
    <3>1. CASE GoTo(n, "send")
      BY <1>1, <3>1, Going
    <3>2. CASE ~(inbox[n].queue = <<>> \/ edge[n].recip)
      <4> DEFINE r == Request(Head(inbox[n].queue), edge[n].inflight, FALSE)
      <4>1. owner' = [owner EXCEPT ![n].pc = "send", ![n].hand = r]
        BY <1>5, <3>2 DEF Reserve
      <4> HIDE DEF r
      <4> QED BY <1>1, <4>1 DEF Owners
    <3> QED BY <1>5, <3>1, <3>2 DEF Reserve
  <2> QED BY <2>1, <2>2, GoesTurns DEF Carrying
<1>6. CASE SendReq(n)
  <2>1. owner[n].pc = "send" /\ Carrying(n) /\ turn' = turn /\ barrier' = barrier
        /\ (GoTo(n, "await") \/ GoTo(n, "answer"))
    BY <1>6, Carries DEF SendReq, At
  <2>2. owner'[n].pc \in {"await", "answer"} /\ owner'[n].kind = owner[n].kind /\ owner'[Other(n)] = owner[Other(n)]
    BY <1>1, <2>1, Going
  <2> QED BY <2>1, <2>2, GoesTurns
<1>7. CASE AnswerReserved(n)
  <2>1. owner[n].pc = "answer" /\ Carrying(n) /\ turn' = turn /\ barrier' = barrier
        /\ owner' = [owner EXCEPT ![n].pc = "await", ![n].hand = NoRequest]
    BY <1>7, Carries DEF AnswerReserved, At
  <2>2. owner'[n].pc = "await" /\ owner'[n].kind = owner[n].kind /\ owner'[Other(n)] = owner[Other(n)]
    BY <1>1, <2>1 DEF Owners
  <2> QED BY <2>1, <2>2, GoesTurns
<1>8. CASE Await(n) \/ Clear(n)
  <2>1. owner[n].pc \in {"await", "clear"} /\ Carrying(n) /\ turn' = turn /\ barrier' = barrier
        /\ (GoTo(n, "clear") \/ GoTo(n, "frame"))
    BY <1>8 DEF Await, Clear, At, Carrying
  <2>2. owner'[n].pc \in {"clear", "frame"} /\ owner'[n].kind = owner[n].kind /\ owner'[Other(n)] = owner[Other(n)]
    BY <1>1, <2>1, Going
  <2> QED BY <2>1, <2>2, GoesTurns
<1> QED BY <1>2, <1>3, <1>4, <1>5, <1>6, <1>7, <1>8

\* What follows a service of the owner.
LEMMA ServiceFollows ==
  ASSUME Linked, Turns, NEW n \in N, NEW rec \in Owners, NEW box \in Inboxes,
         rec.inframe => rec.kind # "after", ~rec.inframe => rec.kind # "extra",
         rec.kind = owner[n].kind, owner[n].pc \in {"pump", "publish"}
  PROVE  Follows(n, ServiceEnds(n, rec, box))
<1> DEFINE to == ServiceEnds(n, rec, box)
<1>1. rec.kind \in {"main", "after", "extra", "loop"} /\ barrier \in BOOLEAN
  BY DEF Owners, Linked, Local, Shape
<1>2. CASE rec.inframe
  <2>1. to = [rec EXCEPT !.pc = "frame", !.inframe = FALSE, !.hand = NoRequest]
    BY <1>2 DEF ServiceEnds
  <2> HIDE DEF to
  <2>2. to.pc = "frame" /\ to.kind = owner[n].kind
    BY <2>1 DEF Owners
  <2> QED BY <2>2 DEF Follows, Early, Turns, Unpaced, to
<1>3. CASE ~rec.inframe /\ rec.kind = "main"
  <2>1. to.pc = "frame" /\ to.kind = "main"
    BY <1>3 DEF ServiceEnds, BeginFrame, Owners
  <2> HIDE DEF to
  <2> QED BY <1>3, <2>1 DEF Follows, Early, to
<1>4. CASE ~rec.inframe /\ rec.kind = "after"
  <2>1. (to.pc = "frame" /\ to.kind = "extra") \/ (to.pc = FrameOver(n) /\ to.kind = "after")
    BY <1>4 DEF ServiceEnds, BeginFrame, Owners
  <2>2. FrameOver(n) = IF ~barrier THEN "turn" ELSE IF n = Leader THEN "finish" ELSE "loop"
    BY <1>1 DEF FrameOver
  <2> HIDE DEF to
  <2> QED BY <1>4, <2>1, <2>2 DEF Follows, Early, to
<1>5. CASE ~rec.inframe /\ rec.kind = "loop"
  <2>1. to.pc \in {"frame", "check"} /\ to.kind = "loop"
    BY <1>5 DEF ServiceEnds, BeginFrame, Owners
  <2>2. barrier
    BY <1>5 DEF Turns, Unpaced
  <2> HIDE DEF to
  <2> QED BY <1>5, <2>1, <2>2 DEF Follows, Early, to
<1> QED BY <1>1, <1>2, <1>3, <1>4, <1>5

LEMMA FramesTurns ==
  ASSUME Linked, Linked', Turns, NEW n \in N,
         PumpDone(n) \/ Defer(n) \/ Publish(n) \/ FinishFrame(n) \/ Progress(n)
  PROVE  Turns'
<1>1. /\ Local /\ Shape /\ Position(n) /\ owner \in [N -> Owners] /\ owner[n] \in Owners /\ inbox[n] \in Inboxes
      /\ Other(n) # n /\ Other(n) \in N
  BY Peers, Parts DEF Linked, Local, Own, Shape
<1>2. Carrying(n) /\ turn' = turn /\ barrier' = barrier
  BY DEF PumpDone, Defer, Publish, FinishFrame, Progress, Carrying
<1>3. CASE PumpDone(n) \/ Defer(n)
  <2> DEFINE to == ServiceEnds(n, owner[n], inbox[n])
  <2>1. owner[n].pc = "pump" /\ owner' = [owner EXCEPT ![n] = to]
    BY <1>3 DEF PumpDone, Defer, At
  <2>2. owner[n].kind # "extra" /\ ~owner[n].inframe
    BY <1>1, <2>1 DEF Position, Orderly
  <2>3. Follows(n, to)
    BY <1>1, <2>1, <2>2, ServiceFollows
  <2> HIDE DEF to
  <2>4. owner'[n] = to /\ owner'[Other(n)] = owner[Other(n)]
    BY <1>1, <2>1
  <2> QED BY <1>2, <2>3, <2>4, TurnsPass
<1>4. CASE Publish(n)
  <2> DEFINE rec == [owner[n] EXCEPT !.applied = ~closed[n]]
             box == Published(n)
             again == [rec EXCEPT !.pc = "pump", !.hand = NoRequest]
             ends == ServiceEnds(n, rec, box)
             more == ~closed[n] /\ ~rec.hand.completed /\ rec.kind # "loop" /\ ~rec.inframe
  <2>1. /\ owner[n].pc = "publish" /\ inbox' = [inbox EXCEPT ![n] = box] /\ inbox \in [N -> Inboxes]
        /\ inbox' \in [N -> Inboxes] /\ closed[n] \in BOOLEAN
    BY <1>1, <1>4, Parts DEF Publish, At, Linked, Local, Shape
  <2>2. box \in Inboxes
    <3> HIDE DEF box
    <3>1. inbox'[n] = box
      BY <2>1
    <3> QED BY <2>1, <3>1
  <2>3. rec \in Owners /\ rec.kind = owner[n].kind /\ rec.inframe = owner[n].inframe
    BY <1>1, <2>1 DEF Owners
  <2>4. (rec.inframe => rec.kind # "after") /\ (~rec.inframe => rec.kind # "extra")
    BY <1>1, <2>1, <2>3 DEF Position, Orderly
  <2>5. owner' = [owner EXCEPT ![n] = ends] \/ owner' = [owner EXCEPT ![n] = again]
    BY <1>4 DEF Publish
  <2>6. again.pc = "pump" /\ again.kind = owner[n].kind
    BY <1>1, <2>1 DEF Owners
  <2> HIDE DEF rec, box, again
  <2>7. Follows(n, ends)
    BY <2>1, <2>2, <2>3, <2>4, ServiceFollows
  <2> HIDE DEF ends
  <2>8. CASE owner' = [owner EXCEPT ![n] = ends]
    <3>1. owner'[n] = ends /\ owner'[Other(n)] = owner[Other(n)]
      BY <1>1, <2>8
    <3> QED BY <1>2, <2>7, <3>1, TurnsPass
  <2>9. CASE owner' = [owner EXCEPT ![n] = again]
    <3>1. owner'[n] = again /\ owner'[Other(n)] = owner[Other(n)]
      BY <1>1, <2>9
    <3> QED BY <1>2, <2>1, <2>6, <3>1, GoesTurns
  <2> QED BY <2>5, <2>8, <2>9
<1>5. CASE FinishFrame(n)
  <2> DEFINE k == owner[n].kind
             pc == CASE k = "main" -> "pump" [] k = "extra" -> FrameOver(n) [] k = "loop" -> "check"
             kind == IF k = "main" THEN "after" ELSE k
  <2>1. /\ owner[n].pc = "frame" /\ k \in {"main", "after", "extra", "loop"} /\ k # "after" /\ barrier \in BOOLEAN
    BY <1>1, <1>5, Parts DEF FinishFrame, At, Owners, Position, Orderly
  <2>2. owner' = [owner EXCEPT ![n].token = NoId, ![n].pc = pc, ![n].kind = kind]
    BY <1>1, <1>5 DEF FinishFrame, Owners
  <2>3. /\ k = "main" => pc = "pump" /\ kind = "after"
        /\ k = "extra" => pc = FrameOver(n) /\ kind = "extra"
        /\ k = "loop" => pc = "check" /\ kind = "loop"
    OBVIOUS
  <2>4. FrameOver(n) = IF ~barrier THEN "turn" ELSE IF n = Leader THEN "finish" ELSE "loop"
    BY <2>1 DEF FrameOver
  <2> HIDE DEF pc, kind
  <2>5. owner'[n].pc = pc /\ owner'[n].kind = kind /\ owner'[Other(n)] = owner[Other(n)]
    BY <1>1, <2>2 DEF Owners
  <2>6. k = "loop" => barrier
    BY DEF Turns, Unpaced
  <2>7. Follows(n, owner'[n])
    BY <2>1, <2>3, <2>4, <2>5, <2>6 DEF Follows, Early
  <2> QED BY <1>2, <2>5, <2>7, TurnsPass
<1>6. CASE Progress(n)
  <2> DEFINE some == inbox[n].pending > 0
  <2>1. /\ owner[n].pc = "loop"
        /\ owner' = [owner EXCEPT ![n].pc = "pump", ![n].kind = "loop", ![n].applied = FALSE, ![n].before = some]
    BY <1>6 DEF Progress, At
  <2> HIDE DEF some
  <2>2. owner'[n].pc = "pump" /\ owner'[n].kind = "loop" /\ owner'[Other(n)] = owner[Other(n)]
    BY <1>1, <2>1 DEF Owners
  <2>3. barrier
    BY <2>1 DEF Turns, Unpaced
  <2>4. Follows(n, owner'[n])
    BY <2>1, <2>2, <2>3 DEF Follows, Early
  <2> QED BY <1>2, <2>2, <2>4, TurnsPass
<1> QED BY <1>3, <1>4, <1>5, <1>6

\* A notice is sent: it was neither on its way nor waiting.
LEMMA Notifying ==
  ASSUME Linked, Turns, NEW n \in N, NEW op \in Notices, Send(n, Frame(op, NoId, Idle)),
         ~Signalled(Other(n), op),
         \A m \in N : \A p \in Notices : turn'[m][p] => turn[m][p] /\ ~(m = Other(n) /\ p = op)
  PROVE  /\ \A m \in N : \A p \in Notices : Alone(m, p)'
         /\ \A m \in N : \A p \in Notices : Signalled(m, p)' => Signalled(m, p) \/ (m = Other(n) /\ p = op)
         /\ \A p \in Notices : Has(wire'[n], p) => Has(wire[n], p)
<1> DEFINE o == Other(n)
           f == Frame(op, NoId, Idle)
<1>1. /\ Shape /\ o \in N /\ o # n /\ wire[n] \in Seq(Frames) /\ wire[o] \in Seq(Frames)
      /\ (\A m \in N : m = n \/ m = o)
  BY Peers, Parts DEF Linked, Local
<1>2. f \in Frames /\ f.op = op
  BY FrameParts, Sources DEF Notices
<1>3. wire'[n] = wire[n] /\ wire'[o] = IF closed[o] THEN wire[o] ELSE Append(wire[o], f)
  BY <1>1, Sending, Sources DEF Notices
<1> HIDE DEF f
<1>4. /\ \A p \in Notices : p # op => Fewer(wire[o], wire'[o], p)
      /\ Lone(wire'[o], op)
  BY <1>1, <1>2, <1>3, Gaining, Dropping DEF Signalled, Lone, Has
<1>5. \A p \in Notices : Fewer(wire[n], wire'[n], p)
  BY <1>1, <1>3, Dropping
<1>6. \A m \in N : \A p \in Notices : Alone(m, p)
  BY DEF Turns
<1>7. ASSUME NEW m \in N, NEW p \in Notices, ~(m = o /\ p = op)
      PROVE  Alone(m, p)' /\ (Signalled(m, p)' => Signalled(m, p))
  <2>1. Fewer(wire[m], wire'[m], p)
    BY <1>1, <1>4, <1>5, <1>7
  <2> QED BY <1>6, <2>1 DEF Fewer, Alone, Signalled
<1>8. Alone(o, op)'
  BY <1>1, <1>4 DEF Alone
<1> QED BY <1>1, <1>5, <1>7, <1>8 DEF Fewer

\* The leader's frame begins: the follower rests, and has heard of nothing yet.
LEMMA BeginTurnTurns == ASSUME Linked, Linked', Turns, NEW n \in N, BeginTurn(n) PROVE Turns'
<1>1. /\ Shape /\ owner \in [N -> Owners] /\ owner[n] \in Owners /\ turn \in [N -> Signals] /\ turn[n] \in Signals
      /\ Other(n) # n /\ Other(n) \in N /\ owner[n].pc = "turn"
  BY Peers, Parts DEF Linked, Local, Shape, BeginTurn, At
<1>2. owner'[n].pc = "pump" /\ owner'[n].kind = "main" /\ owner'[Other(n)] = owner[Other(n)] /\ barrier' = barrier
  BY <1>1 DEF BeginTurn, Owners
<1>3. CASE ~barrier
  <2>1. wire' = wire /\ turn' = turn
    BY <1>3 DEF BeginTurn
  <2>2. Follows(n, owner'[n])
    BY <1>2, <1>3 DEF Follows
  <2> QED BY <1>2, <2>1, <2>2, TurnsPass DEF Carrying
<1>4. CASE barrier /\ n = Leader
  <2>1. /\ Paced /\ turn' = [turn EXCEPT ![n].inflight = TRUE] /\ Send(n, Frame("tick", NoId, Idle))
    BY <1>4 DEF Turns, BeginTurn
  <2>2. /\ Follower = Other(n) /\ Follower \in N /\ Leader \in N /\ Leader # Follower /\ Other(Follower) = Leader
    BY <1>4, Roles DEF Follower
  <2>3. Resting /\ ~Signalled(Follower, "tick") /\ ~Signalled(Follower, "done") /\ ~Signalled(Leader, "ack")
    BY <1>1, <1>4, <2>1 DEF Paced
  <2>4. /\ \A m \in N : \A p \in Notices : turn'[m][p] = turn[m][p]
        /\ turn'[n].inflight
    BY <1>1, <2>1 DEF Signals, Notices
  <2>5. "tick" \in Notices /\ "done" \in Notices /\ "ack" \in Notices
    BY DEF Notices
  <2>6. \A m \in N : \A p \in Notices : turn'[m][p] => turn[m][p] /\ ~(m = Other(n) /\ p = "tick")
    BY <2>2, <2>3, <2>4, <2>5 DEF Signalled
  <2>7. /\ \A m \in N : \A p \in Notices : Alone(m, p)'
        /\ \A m \in N : \A p \in Notices : Signalled(m, p)' => Signalled(m, p) \/ (m = Other(n) /\ p = "tick")
    <3>1. Send(n, Frame("tick", NoId, Idle)) /\ "tick" \in Notices
      BY <2>1, <2>5
    <3>2. ~Signalled(Other(n), "tick")
      BY <1>4, <2>2, <2>3
    <3> QED BY ONLY SMTT(30), Linked, Turns, n \in N, <3>1, <3>2, <2>6, Notifying
  <2>8. ~Signalled(Follower, "done")' /\ ~Signalled(Leader, "ack")'
    BY <2>2, <2>3, <2>5, <2>7 DEF Follower
  <2>9. (~Signalled(Leader, "tick") /\ ~Signalled(Leader, "done") /\ ~Signalled(Follower, "ack"))'
    BY <2>2, <2>5, <2>7 DEF Turns, Follower
  <2>10. owner'[Follower] = owner[Follower] /\ Resting' /\ owner'[Follower].pc # "finish"
    BY <1>2, <2>1, <2>2, <2>3 DEF Resting, Paced, Follower
  <2>11. Paced'
    BY <1>2, <1>4, <2>4, <2>8, <2>10 DEF Paced, Follower
  <2> QED BY <1>2, <1>4, <2>7, <2>9, <2>11 DEF Turns
<1>5. CASE barrier /\ n # Leader
  <2>1. /\ Paced /\ turn' = [turn EXCEPT ![n].tick = FALSE] /\ wire' = wire /\ turn[n].tick
    BY <1>5 DEF Turns, BeginTurn
  <2>2. /\ n = Follower /\ Other(n) = Leader /\ Leader \in N
    BY <1>5, Roles
  <2>3. "tick" \in Notices /\ "done" \in Notices /\ "ack" \in Notices
    BY DEF Notices
  <2>4. Signalled(Follower, "tick") /\ ~Has(wire[n], "tick")
    BY <2>1, <2>2, <2>3 DEF Signalled, Turns, Alone
  <2>5. Resting /\ ~Signalled(Leader, "ack") /\ owner[Leader].pc # "turn"
    BY <2>1, <2>4 DEF Paced
  <2>6. /\ \A m \in N : \A p \in Notices : ~(m = n /\ p = "tick") => turn'[m][p] = turn[m][p]
        /\ ~turn'[n].tick /\ turn'[Leader].inflight = turn[Leader].inflight
    <3>1. \A m \in N : m # n => turn'[m] = turn[m]
      BY <1>1, <2>1
    <3>2. turn'[n].done = turn[n].done /\ turn'[n].ack = turn[n].ack /\ turn'[n].tick = FALSE
      BY <1>1, <2>1 DEF Signals
    <3> QED BY <1>5, <2>2, <3>1, <3>2 DEF Notices
  <2>7. \A m \in N : \A p \in Notices : Alone(m, p)' /\ (Signalled(m, p)' => Signalled(m, p))
    BY <2>1, <2>3, <2>4, <2>6 DEF Alone, Signalled, Turns
  <2>8. ~Signalled(Follower, "tick")'
    BY <2>1, <2>2, <2>4, <2>6 DEF Signalled, Follower
  <2>9. (~Signalled(Leader, "tick") /\ ~Signalled(Leader, "done") /\ ~Signalled(Follower, "ack"))'
    BY <1>1, <2>2, <2>3, <2>7 DEF Turns, Follower
  <2>10. /\ owner'[Leader] = owner[Leader] /\ owner'[Follower].pc # "finish" /\ ~Signalled(Leader, "ack")'
         /\ (Signalled(Follower, "done")' => Signalled(Follower, "done"))
    BY <1>1, <1>2, <2>2, <2>3, <2>5, <2>7 DEF Follower
  <2>11. Paced'
    BY <2>1, <2>5, <2>6, <2>8, <2>10 DEF Paced, Follower
  <2> QED BY <1>2, <1>5, <2>7, <2>9, <2>11 DEF Turns
<1> QED BY <1>3, <1>4, <1>5

\* The leader's frame is over.
LEMMA FinishTurnTurns == ASSUME Linked, Linked', Turns, NEW n \in N, FinishTurn(n) PROVE Turns'
<1>1. /\ Shape /\ "loop" \in Place /\ Other(n) \in N /\ owner[n].pc = "finish" /\ GoTo(n, "loop")
      /\ Send(n, Frame("done", NoId, Idle)) /\ turn' = turn /\ barrier' = barrier
  BY Peers DEF Linked, Local, Place, Waits, FinishTurn, At
<1>2. owner'[n].pc = "loop" /\ owner'[Other(n)] = owner[Other(n)]
  BY <1>1, Going
<1>3. barrier /\ Paced
  BY <1>1 DEF Turns, Unpaced
<1>4. /\ n = Leader /\ Follower = Other(n) /\ Follower \in N /\ Leader # Follower
  BY <1>1, <1>3, Roles DEF Paced, Follower
<1>5. ~Signalled(Follower, "done") /\ ~Signalled(Leader, "ack")
  BY <1>1, <1>3, <1>4 DEF Paced, Early
<1>6. "tick" \in Notices /\ "done" \in Notices /\ "ack" \in Notices
  BY DEF Notices
<1>7. \A m \in N : \A p \in Notices : turn'[m][p] => turn[m][p] /\ ~(m = Other(n) /\ p = "done")
  BY <1>1, <1>4, <1>5 DEF Signalled
<1>8. /\ \A m \in N : \A p \in Notices : Alone(m, p)'
      /\ \A m \in N : \A p \in Notices : Signalled(m, p)' => Signalled(m, p) \/ (m = Other(n) /\ p = "done")
  BY <1>1, <1>4, <1>5, <1>6, <1>7, Notifying
<1>9. /\ ~Signalled(Leader, "ack")' /\ (Signalled(Follower, "tick")' => Signalled(Follower, "tick"))
  BY <1>4, <1>5, <1>6, <1>8 DEF Follower
<1>10. (~Signalled(Leader, "tick") /\ ~Signalled(Leader, "done") /\ ~Signalled(Follower, "ack"))'
  BY <1>4, <1>6, <1>8 DEF Turns, Follower
<1>11. owner'[Follower] = owner[Follower] /\ ~Early(owner'[Leader]) /\ owner'[Leader].pc = "loop"
  BY <1>2, <1>4 DEF Early
<1>12. turn[Leader].inflight
  BY <1>1, <1>3, <1>4 DEF Paced
<1>13. Paced'
  BY <1>1, <1>3, <1>9, <1>11, <1>12 DEF Paced, Follower, Resting
<1> QED BY <1>1, <1>3, <1>8, <1>10, <1>13 DEF Turns

\* A turn ends at the leader with the acknowledgement, and at the follower by giving it.
LEMMA CheckTurns == ASSUME Linked, Linked', Turns, NEW n \in N, Check(n) PROVE Turns'
<1>1. /\ Shape /\ {"loop", "turn"} \subseteq Place /\ Other(n) \in N /\ Other(n) # n /\ owner[n].pc = "check"
      /\ turn \in [N -> Signals] /\ turn[n] \in Signals /\ barrier' = barrier
  BY Peers, Parts DEF Linked, Local, Shape, Place, Waits, Check, At
<1>2. barrier /\ Paced
  BY <1>1 DEF Turns, Unpaced
<1>3. "tick" \in Notices /\ "done" \in Notices /\ "ack" \in Notices
  BY DEF Notices
<1>4. /\ Follower \in N /\ Leader \in N /\ Leader # Follower /\ (n = Leader \/ n = Follower)
      /\ Other(Leader) = Follower /\ Other(Follower) = Leader
  BY Roles DEF Follower
<1>5. CASE ~TurnEnds(n)
  <2>1. GoTo(n, "loop") /\ turn' = turn /\ wire' = wire
    BY <1>5 DEF Check
  <2>2. owner'[n].pc = "loop" /\ owner'[n].kind = owner[n].kind /\ owner'[Other(n)] = owner[Other(n)]
    BY <1>1, <2>1, Going
  <2>3. Follows(n, owner'[n])
    BY <1>1, <1>2, <2>2 DEF Follows, Early
  <2> QED BY <1>1, <2>1, <2>2, <2>3, TurnsPass DEF Carrying
<1>6. CASE TurnEnds(n)
  <2>1. /\ GoTo(n, "turn")
        /\ turn' = [turn EXCEPT ![n].ack = FALSE, ![n].done = FALSE, ![n].inflight = FALSE]
        /\ IF n = Leader THEN wire' = wire ELSE Send(n, Frame("ack", NoId, Idle))
    BY <1>6 DEF Check
  <2>2. owner'[n].pc = "turn" /\ owner'[Other(n)] = owner[Other(n)]
    BY <1>1, <2>1, Going
  <2>3. /\ \A m \in N : m # n => turn'[m] = turn[m]
        /\ turn'[n].tick = turn[n].tick /\ ~turn'[n].done /\ ~turn'[n].ack
    BY <1>1, <2>1 DEF Signals
  <2>4. \A m \in N : \A p \in Notices : turn'[m][p] => turn[m][p] /\ ~(m = n /\ p \in {"done", "ack"})
    BY <2>3 DEF Notices
  <2>5. CASE n = Leader
    <3>1. turn[Leader].ack /\ wire' = wire
      BY <1>6, <2>1, <2>5 DEF TurnEnds
    <3>2. Signalled(Leader, "ack") /\ ~Has(wire[Leader], "ack")
      BY <1>3, <1>4, <3>1 DEF Signalled, Turns, Alone
    <3>3. Resting /\ ~Signalled(Follower, "tick") /\ ~Signalled(Follower, "done")
      BY <1>2, <3>2 DEF Paced
    <3>4. \A m \in N : \A p \in Notices : Alone(m, p)' /\ (Signalled(m, p)' => Signalled(m, p))
      BY <2>4, <3>1 DEF Alone, Signalled, Turns
    <3>5. ~Signalled(Leader, "ack")'
      BY <1>3, <1>4, <2>3, <2>5, <3>1, <3>2 DEF Signalled
    <3>6. ~Signalled(Follower, "tick")' /\ ~Signalled(Follower, "done")'
      BY <1>3, <1>4, <3>3, <3>4 DEF Follower
    <3>7. (~Signalled(Leader, "tick") /\ ~Signalled(Leader, "done") /\ ~Signalled(Follower, "ack"))'
      BY <1>3, <1>4, <3>4 DEF Turns, Follower
    <3>8. owner'[Follower] = owner[Follower] /\ Resting' /\ owner'[Leader].pc = "turn"
      BY <1>4, <2>2, <2>5, <3>3 DEF Resting, Follower
    <3>9. Paced'
      BY <1>2, <3>5, <3>6, <3>8 DEF Paced, Follower
    <3> QED BY <1>1, <1>2, <3>4, <3>7, <3>9 DEF Turns
  <2>6. CASE n = Follower
    <3>1. turn[Follower].done /\ Send(n, Frame("ack", NoId, Idle)) /\ n # Leader
      BY <1>4, <1>6, <2>1, <2>6 DEF TurnEnds
    <3>2. Signalled(Follower, "done") /\ ~Has(wire[Follower], "done")
      BY <1>3, <1>4, <3>1 DEF Signalled, Turns, Alone
    <3>3. /\ ~Signalled(Leader, "ack") /\ owner[Leader].pc # "turn" /\ ~Early(owner[Leader])
          /\ ~Signalled(Follower, "tick")
      BY <1>1, <1>2, <2>6, <3>2 DEF Paced, Resting
    <3>4. /\ \A m \in N : \A p \in Notices : turn'[m][p] => turn[m][p] /\ ~(m = Other(n) /\ p = "ack")
      BY <1>3, <1>4, <2>4, <2>6, <3>3 DEF Signalled
    <3>5. /\ \A m \in N : \A p \in Notices : Alone(m, p)'
          /\ \A m \in N : \A p \in Notices : Signalled(m, p)' => Signalled(m, p) \/ (m = Other(n) /\ p = "ack")
          /\ \A p \in Notices : Has(wire'[n], p) => Has(wire[n], p)
      BY <1>1, <1>3, <1>4, <2>6, <3>1, <3>3, <3>4, Notifying
    <3>6. ~Signalled(Follower, "done")' /\ ~Signalled(Follower, "tick")'
      BY <1>3, <1>4, <2>3, <2>6, <3>2, <3>3, <3>5 DEF Signalled, Follower
    <3>7. (~Signalled(Leader, "tick") /\ ~Signalled(Leader, "done") /\ ~Signalled(Follower, "ack"))'
      BY <1>3, <1>4, <2>6, <3>5 DEF Turns, Follower
    <3>8. /\ owner'[Leader] = owner[Leader] /\ Resting' /\ owner'[Follower].pc = "turn"
          /\ turn'[Leader].inflight = turn[Leader].inflight
      BY <1>4, <2>2, <2>3, <2>6 DEF Resting, Follower
    <3>9. Paced'
      BY <1>2, <3>3, <3>6, <3>8 DEF Paced, Follower
    <3> QED BY <1>1, <1>2, <3>5, <3>7, <3>9 DEF Turns
  <2> QED BY <1>4, <2>5, <2>6
<1> QED BY <1>5, <1>6

\* The reader puts a notice where the owner waits for it, and there is room for it.
LEMMA ReadTurnTurns ==
  ASSUME Linked, Linked', Turns, NEW n \in N, ReadTurn(n) PROVE Turns' /\ ~(accused' /\ ~accused)
<1>1. PICK op \in Notices :
        /\ Reads(n, op)
        /\ IF turn[n][op] \/ (op = "ack" /\ ~turn[n].inflight)
           THEN Accuse(n)
           ELSE /\ turn' = [turn EXCEPT ![n][op] = TRUE] /\ Received(n)
                /\ UNCHANGED <<barrier, owner, edge, inbox, known, core, worker, closed, accused, repeats, got, effects>>
  BY DEF ReadTurn, Notices
<1>2. /\ Shape /\ turn \in [N -> Signals] /\ turn[n] \in Signals /\ Other(n) \in N /\ Other(n) # n
      /\ wire[n] # <<>> /\ wire[n] \in Seq(Frames) /\ Head(wire[n]).op = op /\ ~closed[n]
  BY <1>1, Peers, Parts DEF Linked, Local, Shape, Reads
<1>3. Alone(n, op)
  BY DEF Turns
<1>4. Has(wire[n], op) /\ ~Has(Tail(wire[n]), op)
  BY <1>2, <1>3, First DEF Alone
<1>5. ~turn[n][op]
  BY <1>3, <1>4 DEF Alone
<1>6. ~(op = "ack" /\ ~turn[n].inflight)
  <2> SUFFICES ASSUME op = "ack" PROVE turn[n].inflight
    OBVIOUS
  <2>1. Signalled(n, "ack")
    BY <1>4 DEF Signalled
  <2>2. n = Leader /\ Paced
    BY <2>1, Roles DEF Turns, Unpaced, Notices
  <2>3. owner[n].pc # "down"
    BY <1>2 DEF Linked, Local, Own, Position
  <2> QED BY <2>1, <2>2, <2>3 DEF Paced
<1>7. /\ turn' = [turn EXCEPT ![n][op] = TRUE] /\ Received(n) /\ owner' = owner /\ barrier' = barrier
      /\ accused' = accused
  BY <1>1, <1>5, <1>6
<1>8. wire'[n] = Tail(wire[n]) /\ wire'[Other(n)] = wire[Other(n)]
  BY <1>2, <1>7, Reading
<1>9. /\ \A m \in N : \A p \in Notices : ~(m = n /\ p = op) => turn'[m][p] = turn[m][p]
      /\ \A m \in N : turn'[m].inflight = turn[m].inflight
  <2>1. \A m \in N : m # n => turn'[m] = turn[m]
    BY <1>2, <1>7
  <2>2. op \in {"tick", "done", "ack"}
    BY DEF Notices
  <2>3. \A p \in Notices : p # op => turn'[n][p] = turn[n][p]
    BY <1>2, <1>7, <2>2 DEF Signals, Notices
  <2>4. turn'[n].inflight = turn[n].inflight
    BY <1>2, <1>7, <2>2 DEF Signals
  <2> QED BY <2>1, <2>3, <2>4
<1>10. \A m \in N : \A p \in Notices : Fewer(wire[m], wire'[m], p)
  BY <1>2, <1>7, CarryingLess DEF Carrying
<1>11. \A m \in N : \A p \in Notices : Alone(m, p)' /\ (Signalled(m, p)' => Signalled(m, p))
  <2> SUFFICES ASSUME NEW m \in N, NEW p \in Notices
               PROVE  Alone(m, p)' /\ (Signalled(m, p)' => Signalled(m, p))
    OBVIOUS
  <2>1. Fewer(wire[m], wire'[m], p) /\ Alone(m, p)
    BY <1>10 DEF Turns
  <2>2. CASE m = n /\ p = op
    BY <1>4, <1>8, <2>1, <2>2 DEF Alone, Signalled, Fewer
  <2>3. CASE ~(m = n /\ p = op)
    BY <1>9, <2>1, <2>3 DEF Alone, Signalled, Fewer
  <2> QED BY <2>2, <2>3
<1>12. Follows(n, owner'[n])
  BY <1>7 DEF Follows
<1> QED BY <1>2, <1>7, <1>9, <1>11, <1>12, TurnsStand

\* A response that arrives is the one on_edge waits for.
LEMMA Awaited ==
  ASSUME Linked, NEW n \in N, Once(Other(n)), Reads(n, "resp")
  PROVE  edge[n].inflight = Front(n) /\ edge[n].slot = <<>>
<1> DEFINE o == Other(n)
<1>1. /\ o \in N /\ Other(o) = n /\ wire[n] \in Seq(Frames) /\ wire[n] # <<>> /\ Head(wire[n]).op = "resp"
      /\ ~closed[n] /\ Position(n) /\ Numbering(n) /\ edge[n].next \in Int
  BY Peers, Parts, Constants DEF Linked, Local, Own, Reads
<1>2. Single(o) /\ Lagging(o) /\ Numbered(o)
  BY DEF Once
<1>3. Has(wire[n], "resp") /\ Front(n) = edge[n].next - 1
  <2>1. Has(wire[n], "resp") /\ \A i : Marked(wire[n], "resp", i) => Head(wire[n]).id = i
    BY <1>1, First
  <2>2. Marked(wire[n], "resp", edge[n].next - 1)
    BY <1>1, <1>2 DEF Numbered
  <2> QED BY <2>1, <2>2 DEF Front
<1>4. "resp" \in Stages /\ "slot" \in Stages /\ In(o, "resp")
  BY <1>1, <1>3 DEF In, Stages
<1>5. edge[n].slot = <<>>
  <2>1. ~In(o, "slot")
    BY <1>2, <1>4 DEF Single
  <2> QED BY <1>1, <2>1 DEF In
<1>6. owner[n].pc \in Asking
  <2>1. Len(got[n]) = edge[n].next - 2
    BY <1>1, <1>2, <1>4 DEF Lagging
  <2>2. \A a \in Int : a - 1 # a - 2
    OBVIOUS
  <2>3. owner[n].pc # "down"
    BY <1>1 DEF Position
  <2> QED BY <1>1, <2>1, <2>2, <2>3 DEF Numbering
<1> QED BY <1>1, <1>3, <1>5, <1>6 DEF Numbering, Clocking

\* So no step accuses.
LEMMA Silence ==
  ASSUME Linked, Linked', Turns, \A n \in N : Once(n), [Next]_vars, ~\E n \in N : Repeat(n), ~accused
  PROVE  ~accused'
<1>1. ASSUME NEW n \in N, OwnerStep(n) PROVE accused' = accused
  <2>1. CASE BeginTurn(n) \/ PumpDone(n) \/ FinishFrame(n) \/ FinishTurn(n) \/ Progress(n) \/ Check(n)
    BY <2>1 DEF BeginTurn, PumpDone, FinishFrame, FinishTurn, Progress, Check
  <2>2. CASE OwnerStops(n) \/ Serve(n) \/ Defer(n) \/ Publish(n) \/ ArmMaster(n) \/ ArmSlave(n)
    BY <2>2 DEF OwnerStops, Abort, Serve, Defer, Publish, ArmMaster, ArmSlave
  <2>3. CASE Clock(n) \/ Admit(n) \/ Reserve(n) \/ SendReq(n) \/ AnswerReserved(n) \/ Await(n) \/ Clear(n)
    BY <2>3 DEF Clock, Admit, Abort, Reserve, SendReq, AnswerReserved, Await, Clear
  <2> QED BY <1>1, <2>1, <2>2, <2>3 DEF OwnerStep
<1>2. ASSUME NEW n \in N, WorkerStep(n) PROVE accused' = accused
  BY <1>2 DEF WorkerStep, WorkerSend, WorkerSettle
<1>3. ASSUME NEW n \in N, ReaderStep(n) PROVE ~accused'
  <2>1. Once(n) /\ Once(Other(n))
    BY Peers
  <2>2. CASE Replay(n) \/ Reciprocate(n) \/ Enqueue(n) \/ ReadEnd(n)
    BY <2>2 DEF Replay, Reciprocate, Enqueue, ReadEnd
  <2>3. ~RejectReq(n)
    BY <2>1, AskedOnce DEF RejectReq, Requested, New
  <2>4. CASE ReadResp(n)
    <3>1. edge[n].inflight = Front(n) /\ edge[n].slot = <<>>
      BY <2>1, <2>4, Awaited DEF ReadResp
    <3> QED BY <2>4, <3>1 DEF ReadResp
  <2>5. CASE ReadTurn(n)
    BY <2>5, ReadTurnTurns
  <2> QED BY <1>3, <2>2, <2>3, <2>4, <2>5 DEF ReaderStep
<1>4. ASSUME NEW n \in N, Expire(n) \/ Stop(n) PROVE accused' = accused
  BY <1>4 DEF Expire, Abort, Stop
<1>5. CASE UNCHANGED vars \/ Ended
  BY <1>5 DEF vars, Ended
<1> QED BY <1>1, <1>2, <1>3, <1>4, <1>5 DEF Next

LEMMA NextSilent ==
  ASSUME Linked, Linked', Turns, Unrepeated, Silent, [Next]_vars PROVE Silent'
<1> SUFFICES ASSUME repeats' = 0 PROVE ~accused'
  BY DEF Silent
<1>1. ~\E n \in N : Repeat(n)
  <2>1. repeats \in Nat
    BY DEF Linked, Local, Shape
  <2>2. \A a \in Nat : a + 1 # 0
    OBVIOUS
  <2> QED BY <2>1, <2>2 DEF Repeat
<1>2. repeats = 0
  BY <1>1, OnlyRepeat
<1> QED BY <1>1, <1>2, Silence DEF Unrepeated, Silent

LEMMA InitTurns == Init => Turns
<1> SUFFICES ASSUME Init PROVE Turns
  OBVIOUS
<1>1. \A n \in N : /\ wire[n] = <<>> /\ owner[n].pc = "turn" /\ owner[n].kind = "main"
                   /\ \A op \in Notices : ~turn[n][op]
  BY DEF Init, Notices
<1>2. \A op : ~Has(<<>>, op) /\ Lone(<<>>, op)
  <2>1. DOMAIN <<>> = {}
    OBVIOUS
  <2> QED BY <2>1 DEF Has, Lone
<1>3. \A n \in N : \A op \in Notices : Alone(n, op) /\ ~Signalled(n, op)
  BY <1>1, <1>2 DEF Alone, Signalled
<1>4. Leader \in N /\ Follower \in N /\ "tick" \in Notices /\ "done" \in Notices /\ "ack" \in Notices
  BY Roles DEF Notices
<1>5. Paced
  BY <1>1, <1>3, <1>4 DEF Paced, Resting, Early
<1>6. Unpaced
  BY <1>1, <1>3 DEF Unpaced
<1> QED BY <1>3, <1>4, <1>5, <1>6 DEF Turns

LEMMA NextTurns == ASSUME Linked, Linked', Turns, [Next]_vars PROVE Turns'
<1>1. ASSUME NEW n \in N, OwnerStep(n) PROVE Turns'
  <2>1. CASE BeginTurn(n) \/ FinishTurn(n) \/ Check(n)
    BY <2>1, BeginTurnTurns, FinishTurnTurns, CheckTurns
  <2>2. CASE PumpDone(n) \/ Defer(n) \/ Publish(n) \/ FinishFrame(n) \/ Progress(n)
    BY <2>2, FramesTurns
  <2>3. CASE OwnerStops(n)
    BY <2>3, AbortTurns DEF OwnerStops
  <2>4. CASE ArmMaster(n) \/ ArmSlave(n)
    BY <2>4, StaysTurns
  <2>5. CASE \/ Serve(n) \/ Clock(n) \/ Admit(n) \/ Reserve(n) \/ SendReq(n) \/ AnswerReserved(n)
             \/ Await(n) \/ Clear(n)
    BY <2>5, ClockTurns
  <2> QED BY <1>1, <2>1, <2>2, <2>3, <2>4, <2>5 DEF OwnerStep
<1>2. ASSUME NEW n \in N, WorkerStep(n) PROVE Turns'
  BY <1>2, StaysTurns DEF WorkerStep
<1>3. ASSUME NEW n \in N, ReaderStep(n) PROVE Turns'
  BY <1>3, StaysTurns, ReadTurnTurns DEF ReaderStep
<1>4. ASSUME NEW n \in N, Expire(n) \/ Repeat(n) \/ Stop(n) PROVE Turns'
  BY <1>4, StaysTurns, AbortTurns DEF Expire
<1>5. CASE UNCHANGED vars \/ Ended
  <2>1. UNCHANGED vars
    BY <1>5 DEF Ended
  <2> QED BY <2>1 DEF vars, Turns, Paced, Unpaced, Alone, Signalled, Resting, Follower
<1> QED BY <1>1, <1>2, <1>3, <1>4, <1>5 DEF Next

\* Two ends that follow the code never accuse each other: no duplicate notice of a turn, unsolicited
\* response or stale edge arises from any interleaving, close or deadline unless the wire repeats a request.
THEOREM NobodyIsAccusedFalsely == Spec => []NoFalseAccusation
<1> DEFINE Inv == Linked /\ Unrepeated /\ Turns /\ Silent
<1>1. Init => Inv
  BY InitLinked, InitOnce, InitTurns DEF Unrepeated, Silent, Init
<1>2. Inv /\ [Next]_vars => Inv'
  <2> SUFFICES ASSUME Inv, [Next]_vars PROVE Inv'
    OBVIOUS
  <2>1. Linked'
    BY NextLinked
  <2>2. Unrepeated'
    BY NextOnce
  <2>3. Turns' /\ Silent'
    BY <2>1, NextTurns, NextSilent
  <2> QED BY <2>1, <2>2, <2>3
<1>3. Inv => NoFalseAccusation
  BY DEF Silent, NoFalseAccusation, Linked, Local, Shape
<1> QED BY <1>1, <1>2, <1>3, PTL DEF Spec

=============================================================================
