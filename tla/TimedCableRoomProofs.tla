------------------------ MODULE TimedCableRoomProofs ------------------------
(***************************************************************************)
(* Proof that the ingress of a session is never too small, for every       *)
(* quantum, rearm budget, lateness, instruction length and edge period and *)
(* every number of fences, if its capacity is Ample.                       *)
(***************************************************************************)
EXTENDS TimedCableProofs

-----------------------------------------------------------------------------
(* The inductive invariant *)

(* The clock of a side is within its credit of the progress it has seen,   *)
(* and the peer within its own credit of that.  So what the peer announces *)
(* and the side has not consumed spans twice the credit: a watermark and a *)
(* progress for each cycle of it.  To these come the watermark of cycle    *)
(* zero, an edge with its watermark, and the fences and their answers.     *)
Credit == QuantumCycles + RearmBudget

Ample == \A s \in Sides : Capacity >= 4 * Credit + 3 + MaxFences[s] + MaxFences[Other(s)]

(* What a side needs to keep for that.                                     *)
Frugal(s) ==
  /\ fault[s] # "capacity"
  /\ co[s].progress = 0 => co[s].local = 0 /\ co[s].permit = 0
  /\ link[s].sentMark = -1 => link[s].sentProgress = 0 /\ link[s].waiting = 0
  /\ link[s].sentMark # -1 => link[s].sentProgress <= link[s].sentMark
  /\ Clocking(s) => link[s].settled <= serial[s].target
  /\ \A i \in DOMAIN link[s].ingress : ~Is(link[s].ingress, i, "EdgeResponse")
  /\ fences[s].started <= MaxFences[s] /\ fences[s].seen <= MaxFences[Other(s)]
  /\ mode[s] = "fence" => fences[s].started < MaxFences[s]
  /\ Len(fences[s].owed) <= fences[s].seen

(* Behind the start of a stream and behind each progress in it there are   *)
(* at most two messages for each cycle up to the last progress that was    *)
(* sent, beside an edge, an answer, and a number that only ever grows.     *)
From(c) == IF c.progress = 0 THEN -1 ELSE c.peer
At(w, i, from) == IF i = 0 THEN from ELSE w[i].at
Marks(w) == {0} \cup {i \in DOMAIN w : Is(w, i, "Progress")}
After(w, i, type) == \E j \in DOMAIN w : i < j /\ Is(w, j, type)
Beside(w, i) == (IF After(w, i, "EdgeRequest") THEN 2 ELSE 0) + (IF After(w, i, "EdgeResponse") THEN 1 ELSE 0)

Spaced(w, from, last, extra) ==
  \A i \in Marks(w) : Len(w) - i <= 2 * (last - At(w, i, from)) + Beside(w, i) + extra

Extra(l, f) == (IF l.sentMark = -1 THEN 0 ELSE 1) + f.started + f.seen - Len(f.owed)

(* Behind an edge the side sends its watermark and at most a progress,     *)
(* which is news; then it is silent until the answer.                      *)
Firing(w, from, last) ==
  \A j \in DOMAIN w : Is(w, j, "EdgeRequest") =>
    /\ Len(w) <= j + 2
    /\ Len(w) = j + 2 => \A i \in Marks(w) : i < j => At(w, i, from) < last

\* What is left of that when the edge has been consumed.
Trailing(w, from, last) == Len(w) <= 2 /\ (Len(w) = 2 => from < last)

Room(w, from, last, extra, waiting) ==
  IF waiting = 0 \/ Asking(w)
  THEN Spaced(w, from, last, extra) /\ Firing(w, from, last)
  ELSE Trailing(w, from, last)

Roomy(s) ==
  LET l == link[Other(s)] IN
  Room(Stream(s), From(co[s]), l.sentProgress, Extra(l, fences[Other(s)]), l.waiting)

RInv == \A s \in Sides : Frugal(s) /\ (open[s] => Roomy(s))

-----------------------------------------------------------------------------
(* Streams that grow *)

\* What follows a place in two sequences, one after the other.
LEMMA AfterJoined ==
  ASSUME NEW w \in Seq(Message), NEW u \in Seq(Message), NEW i \in 0..Len(w), NEW type
  PROVE  After(w \o u, i, type) <=> After(w, i, type) \/ \E j \in DOMAIN u : Is(u, j, type)
<1>1. /\ \A j \in DOMAIN w : j \in DOMAIN (w \o u) /\ (w \o u)[j] = w[j]
      /\ \A j \in DOMAIN u : Len(w) + j \in DOMAIN (w \o u) /\ (w \o u)[Len(w) + j] = u[j]
      /\ \A k \in DOMAIN (w \o u) : k \in DOMAIN w \/ \E j \in DOMAIN u : k = Len(w) + j
  BY Joined
<1>2. \A j \in DOMAIN u : i < Len(w) + j
  <2>1. Len(w) \in Nat /\ DOMAIN u = 1..Len(u) /\ Len(u) \in Nat
    BY Elements
  <2> QED BY <2>1
<1>3. ASSUME After(w \o u, i, type)
      PROVE  After(w, i, type) \/ \E j \in DOMAIN u : Is(u, j, type)
  <2>1. PICK k \in DOMAIN (w \o u) : i < k /\ Is(w \o u, k, type)
    BY <1>3 DEF After
  <2>2. CASE k \in DOMAIN w
    BY <1>1, <2>1, <2>2 DEF After, Is
  <2>3. CASE \E j \in DOMAIN u : k = Len(w) + j
    BY <1>1, <2>1, <2>3 DEF Is
  <2> QED BY <1>1, <2>2, <2>3
<1>4. ASSUME After(w, i, type)
      PROVE  After(w \o u, i, type)
  BY <1>1, <1>4 DEF After, Is
<1>5. ASSUME NEW j \in DOMAIN u, Is(u, j, type)
      PROVE  After(w \o u, i, type)
  BY <1>1, <1>2, <1>5 DEF After, Is
<1> QED BY <1>3, <1>4, <1>5

\* What is beside a place does not shrink when the stream grows.
LEMMA BesideMore ==
  ASSUME NEW w \in Seq(Message), NEW u \in Seq(Message), NEW i \in 0..Len(w)
  PROVE  /\ Beside(w, i) \in Nat /\ Beside(w \o u, i) \in Nat /\ Beside(w \o u, i) >= Beside(w, i)
         /\ ~Asking(w) /\ Asking(u) => Beside(w \o u, i) >= Beside(w, i) + 2
         /\ (\A j \in DOMAIN w : ~Is(w, j, "EdgeResponse")) /\ (\E j \in DOMAIN u : Is(u, j, "EdgeResponse"))
              => Beside(w \o u, i) >= Beside(w, i) + 1
<1> DEFINE R(x) == After(x, i, "EdgeRequest")
           A(x) == After(x, i, "EdgeResponse")
<1>1. R(w \o u) <=> R(w) \/ Asking(u)
  BY AfterJoined DEF Asking
<1>2. A(w \o u) <=> A(w) \/ \E j \in DOMAIN u : Is(u, j, "EdgeResponse")
  BY AfterJoined
<1>3. R(w) => Asking(w)
  BY DEF After, Asking
<1>4. A(w) => \E j \in DOMAIN w : Is(w, j, "EdgeResponse")
  BY DEF After
<1>5. /\ Beside(w, i) = (IF R(w) THEN 2 ELSE 0) + (IF A(w) THEN 1 ELSE 0)
      /\ Beside(w \o u, i) = (IF R(w \o u) THEN 2 ELSE 0) + (IF A(w \o u) THEN 1 ELSE 0)
  BY DEF Beside
<1> HIDE DEF R, A
<1>6. Beside(w, i) \in Nat /\ Beside(w \o u, i) \in Nat /\ Beside(w \o u, i) >= Beside(w, i)
  BY <1>1, <1>2, <1>5
<1>7. ASSUME ~Asking(w), Asking(u)
      PROVE  Beside(w \o u, i) >= Beside(w, i) + 2
  BY <1>1, <1>2, <1>3, <1>5, <1>7
<1>8. ASSUME \A j \in DOMAIN w : ~Is(w, j, "EdgeResponse"), \E j \in DOMAIN u : Is(u, j, "EdgeResponse")
      PROVE  Beside(w \o u, i) >= Beside(w, i) + 1
  BY <1>1, <1>2, <1>4, <1>5, <1>8
<1> QED BY <1>6, <1>7, <1>8

\* The marks of a stream and their times.
LEMMA MarksOf ==
  ASSUME NEW w \in Seq(Message), NEW from \in Int, NEW i \in Marks(w)
  PROVE  /\ i \in 0..Len(w) /\ i \in Nat /\ Len(w) \in Nat /\ At(w, i, from) \in Int
         /\ Beside(w, i) \in Nat
         /\ i = 0 => At(w, i, from) = from
         /\ i # 0 => i \in DOMAIN w /\ Is(w, i, "Progress") /\ At(w, i, from) = w[i].at /\ w[i].at \in Nat
<1>1. Len(w) \in Nat /\ DOMAIN w = 1..Len(w) /\ \A j \in DOMAIN w : w[j] \in Message
  BY Elements
<1>2. i = 0 \/ (i \in DOMAIN w /\ Is(w, i, "Progress"))
  BY DEF Marks
<1>3. i \in 0..Len(w) /\ i \in Nat /\ (i # 0 => i \in DOMAIN w /\ Is(w, i, "Progress"))
  BY <1>1, <1>2
<1>4. i # 0 => w[i].at \in Nat
  BY <1>1, <1>3, Fields DEF Is
<1>5. Beside(w, i) \in Nat
  BY DEF Beside
<1>6. At(w, i, from) = IF i = 0 THEN from ELSE w[i].at
  BY DEF At
<1> QED BY <1>1, <1>3, <1>4, <1>5, <1>6

\* Messages for which there is a budget are sent behind the others.
LEMMA SpacedMore ==
  ASSUME NEW w \in Seq(Message), NEW u \in Seq(Message), NEW from \in Int,
         NEW last \in Nat, NEW next \in Nat, NEW extra \in Nat, NEW more \in Nat, NEW added \in Nat,
         Spaced(w, from, last, extra),
         \A i \in 0..Len(w) : Beside(w \o u, i) >= Beside(w, i) + added,
         Len(u) <= 2 * (next - last) + (more - extra) + added,
         \A j \in DOMAIN u : Is(u, j, "Progress") => u[j].at = next /\ Len(u) - j <= more
  PROVE  Spaced(w \o u, from, next, more)
<1> DEFINE v == w \o u
<1>1. /\ v \in Seq(Message) /\ Len(v) = Len(w) + Len(u) /\ Len(u) \in Nat /\ Len(w) \in Nat
      /\ DOMAIN u = 1..Len(u)
  BY ConcatProperties, Elements
<1>2. /\ \A j \in DOMAIN w : j \in DOMAIN v /\ v[j] = w[j]
      /\ \A j \in DOMAIN u : Len(w) + j \in DOMAIN v /\ v[Len(w) + j] = u[j]
      /\ \A k \in DOMAIN v : k \in DOMAIN w \/ \E j \in DOMAIN u : k = Len(w) + j
  BY Joined
<1>3. \A i \in 0..Len(w) : Beside(v, i) >= Beside(w, i) + added
  OBVIOUS
<1> HIDE DEF v
<1>4. SUFFICES ASSUME NEW i \in Marks(v)
               PROVE  Len(v) - i <= 2 * (next - At(v, i, from)) + Beside(v, i) + more
  BY DEF Spaced, v
<1>5. /\ i \in Nat /\ Len(v) \in Nat /\ At(v, i, from) \in Int /\ Beside(v, i) \in Nat
      /\ i = 0 => At(v, i, from) = from
      /\ i # 0 => i \in DOMAIN v /\ Is(v, i, "Progress") /\ At(v, i, from) = v[i].at
  BY <1>1, MarksOf
<1>6. CASE i \in Marks(w)
  <2>1. /\ i \in 0..Len(w) /\ At(w, i, from) \in Int /\ Beside(w, i) \in Nat
        /\ i = 0 => At(w, i, from) = from
        /\ i # 0 => i \in DOMAIN w /\ At(w, i, from) = w[i].at
    BY <1>6, MarksOf
  <2>2. At(v, i, from) = At(w, i, from)
    BY <1>2, <1>5, <2>1
  <2>3. Len(w) - i <= 2 * (last - At(w, i, from)) + Beside(w, i) + extra
    BY <1>6 DEF Spaced
  <2>4. Beside(v, i) >= Beside(w, i) + added
    BY <1>3, <2>1
  <2> DEFINE a == Len(w)
             b == Beside(w, i)
             c == Len(u)
             p == At(w, i, from)
             q == Beside(v, i)
  <2>5. /\ a \in Int /\ b \in Int /\ c \in Int /\ p \in Int /\ q \in Int /\ i \in Int
        /\ last \in Int /\ next \in Int /\ extra \in Int /\ more \in Int /\ added \in Int
        /\ a - i <= 2 * (last - p) + b + extra /\ q >= b + added
        /\ c <= 2 * (next - last) + (more - extra) + added
    BY <1>1, <1>5, <2>1, <2>3, <2>4
  <2>6. Len(v) = a + c /\ At(v, i, from) = p
    BY <1>1, <2>2
  <2> HIDE DEF a, b, c, p, q
  <2>7. (a + c) - i <= 2 * (next - p) + q + more
    BY ONLY <2>5
  <2> QED BY <2>6, <2>7 DEF q
<1>7. CASE i \notin Marks(w)
  <2>1. i # 0 /\ i \in DOMAIN v /\ Is(v, i, "Progress") /\ At(v, i, from) = v[i].at
    BY <1>5, <1>7 DEF Marks
  <2>2. i \notin DOMAIN w
    BY <1>2, <1>7, <2>1 DEF Marks, Is
  <2>3. PICK j \in DOMAIN u : i = Len(w) + j
    BY <1>2, <2>1, <2>2
  <2>4. Is(u, j, "Progress") /\ v[i] = u[j]
    BY <1>2, <2>1, <2>3 DEF Is
  <2>5. u[j].at = next /\ Len(u) - j <= more
    BY <2>4
  <2>6. At(v, i, from) = next /\ j \in Nat
    BY <1>1, <2>1, <2>4, <2>5
  <2>7. Len(v) - i = Len(u) - j
    BY <1>1, <2>3, <2>6
  <2>8. 2 * (next - next) = 0
    OBVIOUS
  <2> DEFINE q == Beside(v, i)
             c == Len(u) - j
  <2>9. q \in Nat /\ c \in Int /\ c <= more /\ more \in Nat
    BY <1>1, <1>5, <2>5, <2>6
  <2> HIDE DEF q, c
  <2>10. c <= 0 + q + more
    BY ONLY <2>9
  <2> QED BY <2>6, <2>7, <2>8, <2>10 DEF q, c
<1> QED BY <1>6, <1>7

\* Without a request nothing is fired.
LEMMA FiringNone ==
  ASSUME NEW w, NEW from, NEW last, ~Asking(w)
  PROVE  Firing(w, from, last)
BY DEF Firing, Asking

\* An edge is sent behind the others, with at most a progress that is news.
LEMMA FiringMore ==
  ASSUME NEW w \in Seq(Message), NEW u \in Seq(Message), NEW from \in Int,
         NEW last \in Nat, NEW next \in Nat, ~Asking(w), Len(u) <= 3,
         Len(u) = 3 => last < next,
         \A i \in Marks(w) : At(w, i, from) <= last,
         \A j \in DOMAIN u : Is(u, j, "EdgeRequest") => j = 1
  PROVE  Firing(w \o u, from, next)
<1> DEFINE v == w \o u
<1>1. /\ v \in Seq(Message) /\ Len(v) = Len(w) + Len(u) /\ Len(u) \in Nat /\ Len(w) \in Nat
      /\ DOMAIN u = 1..Len(u) /\ DOMAIN w = 1..Len(w) /\ DOMAIN v = 1..Len(v)
  BY ConcatProperties, Elements
<1>2. /\ \A j \in DOMAIN w : j \in DOMAIN v /\ v[j] = w[j]
      /\ \A j \in DOMAIN u : Len(w) + j \in DOMAIN v /\ v[Len(w) + j] = u[j]
      /\ \A k \in DOMAIN v : k \in DOMAIN w \/ \E j \in DOMAIN u : k = Len(w) + j
  BY Joined
<1> HIDE DEF v
<1>3. SUFFICES ASSUME NEW k \in DOMAIN v, Is(v, k, "EdgeRequest")
               PROVE  /\ Len(v) <= k + 2
                      /\ Len(v) = k + 2 => \A i \in Marks(v) : i < k => At(v, i, from) < next
  BY DEF Firing, v
<1>4. k \notin DOMAIN w
  BY <1>2, <1>3 DEF Asking, Is
<1>5. PICK j \in DOMAIN u : k = Len(w) + j
  BY <1>2, <1>4
<1>6. j = 1
  BY <1>2, <1>3, <1>5 DEF Is
<1>7. k = Len(w) + 1
  BY <1>5, <1>6
<1>8. Len(v) <= k + 2
  BY <1>1, <1>7
<1>9. ASSUME Len(v) = k + 2, NEW i \in Marks(v), i < k
      PROVE  At(v, i, from) < next
  <2>1. Len(u) = 3
    BY <1>1, <1>7, <1>9
  <2>2. /\ i \in Nat /\ At(v, i, from) \in Int /\ (i = 0 => At(v, i, from) = from)
        /\ i # 0 => i \in DOMAIN v /\ Is(v, i, "Progress") /\ At(v, i, from) = v[i].at
    BY ONLY <1>1, <1>9, from \in Int, MarksOf
  <2>3. i # 0 => i \in DOMAIN w
    BY <1>1, <1>7, <1>9, <2>2
  <2>4. i \in Marks(w)
    BY <1>2, <2>2, <2>3 DEF Marks, Is
  <2>5. At(v, i, from) = At(w, i, from)
    BY <1>2, <2>3 DEF At
  <2> QED BY <2>1, <2>2, <2>4, <2>5
<1> QED BY <1>8, <1>9

-----------------------------------------------------------------------------
(* Streams that lose a message *)

(* v is w without its element number d.                                    *)
Place(i, d) == IF i < d THEN i ELSE i + 1

Cut(v, w, d) ==
  /\ v \in Seq(Message) /\ w \in Seq(Message) /\ d \in DOMAIN w
  /\ Len(v) = Len(w) - 1
  /\ \A i \in DOMAIN v : v[i] = w[Place(i, d)]

\* A side consumes the first message it has staged.
LEMMA CutHead ==
  ASSUME NEW a \in Seq(Message), NEW b \in Seq(Message), a # <<>>
  PROVE  Cut(Tail(a) \o b, a \o b, 1) /\ (a \o b)[1] = Head(a)
<1>1. /\ Len(a) \in Nat /\ Len(a) > 0 /\ Head(a) = a[1]
      /\ Tail(a) \in Seq(Message) /\ Len(Tail(a)) = Len(a) - 1
      /\ \A i \in 1..Len(Tail(a)) : Tail(a)[i] = a[i + 1]
      /\ Len(b) \in Nat
  BY Elements, HeadTailProperties
<1>2. /\ a \o b \in Seq(Message) /\ Len(a \o b) = Len(a) + Len(b)
      /\ \A i \in 1 .. Len(a) + Len(b) : (a \o b)[i] = IF i <= Len(a) THEN a[i] ELSE b[i - Len(a)]
  BY ConcatProperties
<1> DEFINE t == Tail(a)
<1>3. t \in Seq(Message) /\ Len(t) = Len(a) - 1 /\ \A i \in 1..(Len(a) - 1) : t[i] = a[i + 1]
  BY <1>1
<1> HIDE DEF t
<1>4. /\ t \o b \in Seq(Message) /\ Len(t \o b) = Len(t) + Len(b)
      /\ \A i \in 1 .. Len(t) + Len(b) : (t \o b)[i] = IF i <= Len(t) THEN t[i] ELSE b[i - Len(t)]
  BY <1>3, ConcatProperties
<1>5. DOMAIN (t \o b) = 1..((Len(a) - 1) + Len(b)) /\ DOMAIN (a \o b) = 1..(Len(a) + Len(b))
  BY <1>2, <1>3, <1>4, Elements
<1>6. ASSUME NEW i \in DOMAIN (t \o b)
      PROVE  (t \o b)[i] = (a \o b)[Place(i, 1)]
  <2>1. /\ i \in Nat /\ Place(i, 1) = i + 1 /\ i + 1 \in 1..(Len(a) + Len(b)) /\ i \in 1..(Len(t) + Len(b))
        /\ i >= 1
    BY <1>1, <1>3, <1>5 DEF Place
  <2>2. CASE i <= Len(a) - 1
    <3>1. i \in 1..(Len(a) - 1) /\ i <= Len(t) /\ i + 1 <= Len(a)
      BY <1>1, <1>3, <2>1, <2>2
    <3>2. (t \o b)[i] = t[i] /\ (a \o b)[i + 1] = a[i + 1]
      BY <1>2, <1>4, <2>1, <3>1
    <3> QED BY <1>3, <2>1, <3>1, <3>2
  <2>3. CASE ~(i <= Len(a) - 1)
    <3>1. ~(i <= Len(t)) /\ ~(i + 1 <= Len(a)) /\ i - Len(t) = (i + 1) - Len(a)
      BY <1>1, <1>3, <2>1, <2>3
    <3>2. (t \o b)[i] = b[i - Len(t)] /\ (a \o b)[i + 1] = b[(i + 1) - Len(a)]
      BY <1>2, <1>4, <2>1, <3>1
    <3> QED BY <2>1, <3>1, <3>2
  <2> QED BY <2>2, <2>3
<1>7. 1 \in DOMAIN (a \o b) /\ Len(t \o b) = Len(a \o b) - 1 /\ (a \o b)[1] = a[1]
  BY <1>1, <1>2, <1>3, <1>4, <1>5
<1> QED BY <1>1, <1>2, <1>4, <1>6, <1>7 DEF Cut, t

\* A side takes the first message of the wire.
LEMMA CutWire ==
  ASSUME NEW a \in Seq(Message), NEW b \in Seq(Message), b # <<>>
  PROVE  Cut(a \o Tail(b), a \o b, Len(a) + 1) /\ (a \o b)[Len(a) + 1] = Head(b)
<1>1. /\ Len(b) \in Nat /\ Len(b) > 0 /\ Head(b) = b[1]
      /\ Tail(b) \in Seq(Message) /\ Len(Tail(b)) = Len(b) - 1
      /\ \A i \in 1..Len(Tail(b)) : Tail(b)[i] = b[i + 1]
      /\ Len(a) \in Nat
  BY Elements, HeadTailProperties
<1>2. /\ a \o b \in Seq(Message) /\ Len(a \o b) = Len(a) + Len(b)
      /\ \A i \in 1 .. Len(a) + Len(b) : (a \o b)[i] = IF i <= Len(a) THEN a[i] ELSE b[i - Len(a)]
  BY ConcatProperties
<1> DEFINE t == Tail(b)
           d == Len(a) + 1
<1>3. t \in Seq(Message) /\ Len(t) = Len(b) - 1 /\ \A i \in 1..(Len(b) - 1) : t[i] = b[i + 1]
  BY <1>1
<1> HIDE DEF t
<1>4. /\ a \o t \in Seq(Message) /\ Len(a \o t) = Len(a) + Len(t)
      /\ \A i \in 1 .. Len(a) + Len(t) : (a \o t)[i] = IF i <= Len(a) THEN a[i] ELSE t[i - Len(a)]
  BY <1>3, ConcatProperties
<1>5. DOMAIN (a \o t) = 1..(Len(a) + (Len(b) - 1)) /\ DOMAIN (a \o b) = 1..(Len(a) + Len(b))
  BY <1>2, <1>3, <1>4, Elements
<1>6. ASSUME NEW i \in DOMAIN (a \o t)
      PROVE  (a \o t)[i] = (a \o b)[Place(i, d)]
  <2>1. i \in Nat /\ i \in 1..(Len(a) + Len(t)) /\ i \in 1..(Len(a) + Len(b)) /\ i + 1 \in 1..(Len(a) + Len(b))
    BY <1>1, <1>3, <1>5
  <2>2. CASE i <= Len(a)
    <3>1. Place(i, d) = i
      BY <1>1, <2>1, <2>2 DEF Place
    <3> QED BY <1>2, <1>4, <2>1, <2>2, <3>1
  <2>3. CASE ~(i <= Len(a))
    <3>1. /\ Place(i, d) = i + 1 /\ ~(i + 1 <= Len(a)) /\ i - Len(a) \in 1..(Len(b) - 1)
          /\ (i - Len(a)) + 1 = (i + 1) - Len(a)
      BY <1>1, <1>3, <2>1, <2>3 DEF Place
    <3>2. (a \o t)[i] = t[i - Len(a)] /\ (a \o b)[i + 1] = b[(i + 1) - Len(a)]
      BY <1>2, <1>4, <2>1, <2>3, <3>1
    <3>3. t[i - Len(a)] = b[(i - Len(a)) + 1]
      BY <1>3, <3>1
    <3> QED BY <3>1, <3>2, <3>3
  <2> QED BY <2>2, <2>3
<1>7. d \in DOMAIN (a \o b) /\ Len(a \o t) = Len(a \o b) - 1
  BY <1>1, <1>2, <1>3, <1>4, <1>5
<1>8. (a \o b)[d] = b[1]
  <2>1. d \in 1..(Len(a) + Len(b)) /\ ~(d <= Len(a)) /\ d - Len(a) = 1
    BY <1>1
  <2> QED BY <1>2, <2>1
<1> QED BY <1>1, <1>2, <1>4, <1>6, <1>7, <1>8 DEF Cut, t

\* Where the messages that are left were.
LEMMA Kept ==
  ASSUME NEW v, NEW w, NEW d, Cut(v, w, d)
  PROVE  /\ v \in Seq(Message) /\ w \in Seq(Message) /\ d \in DOMAIN w /\ d \in Nat /\ d >= 1
         /\ Len(v) \in Nat /\ Len(w) \in Nat /\ Len(v) = Len(w) - 1
         /\ \A i \in DOMAIN v : i \in Nat /\ i >= 1
         /\ \A i \in DOMAIN v : Place(i, d) \in DOMAIN w /\ Place(i, d) # d /\ v[i] = w[Place(i, d)]
         /\ \A k \in DOMAIN w : k # d => \E i \in DOMAIN v : Place(i, d) = k
<1>1. /\ v \in Seq(Message) /\ w \in Seq(Message) /\ d \in DOMAIN w /\ Len(v) = Len(w) - 1
      /\ \A i \in DOMAIN v : v[i] = w[Place(i, d)]
  BY DEF Cut
<1>2. /\ Len(v) \in Nat /\ Len(w) \in Nat /\ DOMAIN v = 1..Len(v) /\ DOMAIN w = 1..Len(w)
  BY <1>1, Elements
<1>3. \A i \in DOMAIN v : Place(i, d) \in DOMAIN w /\ Place(i, d) # d
  BY <1>1, <1>2 DEF Place
<1>4. ASSUME NEW k \in DOMAIN w, k # d
      PROVE  \E i \in DOMAIN v : Place(i, d) = k
  <2>1. CASE k < d
    <3>1. k \in DOMAIN v /\ Place(k, d) = k
      BY <1>1, <1>2, <2>1 DEF Place
    <3> QED BY <3>1
  <2>2. CASE ~(k < d)
    <3>1. k - 1 \in DOMAIN v /\ Place(k - 1, d) = k
      BY <1>1, <1>2, <1>4, <2>2 DEF Place
    <3> QED BY <3>1
  <2> QED BY <2>1, <2>2
<1>5. d \in Nat /\ d >= 1 /\ \A i \in DOMAIN v : i \in Nat /\ i >= 1
  BY <1>1, <1>2
<1> QED BY <1>1, <1>2, <1>3, <1>4, <1>5

\* What followed a place and was not lost still follows it.
LEMMA AfterLess ==
  ASSUME NEW v, NEW w, NEW d, Cut(v, w, d), NEW i \in 0..Len(v), NEW type,
         After(w, Place(i, d), type)
  PROVE  After(v, i, type) \/ (i < d /\ Is(w, d, type))
<1>1. /\ d \in Nat /\ d >= 1 /\ Len(v) \in Nat /\ i \in Nat
      /\ \A k \in DOMAIN v : k \in Nat /\ k >= 1
      /\ \A k \in DOMAIN v : Place(k, d) \in DOMAIN w /\ Place(k, d) # d /\ v[k] = w[Place(k, d)]
      /\ \A k \in DOMAIN w : k # d => \E j \in DOMAIN v : Place(j, d) = k
  BY Kept
<1>2. PICK k \in DOMAIN w : Place(i, d) < k /\ Is(w, k, type)
  BY DEF After
<1>3. CASE k = d
  <2>1. i < d
    BY <1>1, <1>2, <1>3 DEF Place
  <2> QED BY <1>2, <1>3, <2>1
<1>4. CASE k # d
  <2>1. PICK j \in DOMAIN v : Place(j, d) = k
    BY <1>1, <1>4
  <2>2. i < j
    <3>1. j \in Nat /\ Place(i, d) < Place(j, d)
      BY <1>1, <1>2, <2>1
    <3> QED BY <1>1, <3>1 DEF Place
  <2>3. Is(v, j, type)
    BY <1>1, <1>2, <2>1 DEF Is
  <2> QED BY <2>2, <2>3 DEF After
<1> QED BY <1>3, <1>4

\* Only an answer or a request that is lost is missed beside a place.
LEMMA BesideLess ==
  ASSUME NEW v, NEW w, NEW d, Cut(v, w, d), NEW i \in 0..Len(v), w[d].type # "EdgeRequest"
  PROVE  /\ Beside(v, i) \in Nat /\ Beside(w, Place(i, d)) \in Nat
         /\ i < d => Beside(w, Place(i, d)) <= Beside(v, i) + 1
         /\ i >= d => Beside(w, Place(i, d)) <= Beside(v, i)
         /\ w[d].type # "EdgeResponse" => Beside(w, Place(i, d)) <= Beside(v, i)
<1> DEFINE k == Place(i, d)
           P == After(w, k, "EdgeRequest")
           Q == After(w, k, "EdgeResponse")
           R == After(v, i, "EdgeRequest")
           S == After(v, i, "EdgeResponse")
<1>1. P => R
  BY AfterLess DEF Is
<1>2. Q => S \/ (i < d /\ w[d].type = "EdgeResponse")
  BY AfterLess DEF Is
<1>3. /\ Beside(w, k) = (IF P THEN 2 ELSE 0) + (IF Q THEN 1 ELSE 0)
      /\ Beside(v, i) = (IF R THEN 2 ELSE 0) + (IF S THEN 1 ELSE 0)
  BY DEF Beside
<1>4. d \in Nat /\ i \in Nat
  BY Kept
<1> HIDE DEF k, P, Q, R, S
<1>5. Beside(v, i) \in Nat /\ Beside(w, k) \in Nat
  BY <1>3
<1>6. Beside(w, k) <= Beside(v, i) + 1
  BY <1>1, <1>3
<1>7. (Q => S) => Beside(w, k) <= Beside(v, i)
  BY <1>1, <1>3
<1>8. i >= d => ~(i < d)
  BY <1>4
<1> QED BY <1>2, <1>5, <1>6, <1>7, <1>8 DEF k

\* The marks that are left were marks, at the same time.
LEMMA MarksLess ==
  ASSUME NEW v, NEW w, NEW d, Cut(v, w, d), NEW from \in Int, NEW i \in Marks(v)
  PROVE  /\ i \in 0..Len(v) /\ i \in Nat
         /\ Place(i, d) \in Marks(w) /\ At(w, Place(i, d), from) = At(v, i, from)
         /\ Place(i, d) # d /\ (i < d => Place(i, d) = i) /\ (i >= d => Place(i, d) = i + 1)
         /\ i # 0 => i \in DOMAIN v
<1>1. /\ v \in Seq(Message) /\ w \in Seq(Message) /\ d \in Nat /\ d >= 1
      /\ \A k \in DOMAIN v : Place(k, d) \in DOMAIN w /\ Place(k, d) # d /\ v[k] = w[Place(k, d)]
      /\ \A k \in DOMAIN v : k \in Nat /\ k >= 1
  BY Kept
<1>2. /\ i \in 0..Len(v) /\ i \in Nat
      /\ i # 0 => i \in DOMAIN v /\ Is(v, i, "Progress")
  BY <1>1, MarksOf
<1>3. (i < d => Place(i, d) = i) /\ (i >= d => Place(i, d) = i + 1)
  BY <1>1, <1>2 DEF Place
<1>4. CASE i = 0
  BY <1>1, <1>2, <1>3, <1>4 DEF Marks, At
<1>5. CASE i # 0
  <2>1. Place(i, d) \in DOMAIN w /\ Place(i, d) # d /\ v[i] = w[Place(i, d)] /\ Place(i, d) # 0
    BY <1>1, <1>2, <1>3, <1>5
  <2> QED BY <1>2, <1>3, <1>5, <2>1 DEF Marks, At, Is
<1> QED BY <1>4, <1>5

\* A message that is neither a progress nor a request leaves the others spaced.
LEMMA SpacedLess ==
  ASSUME NEW v, NEW w, NEW d, Cut(v, w, d), NEW from \in Int, NEW last \in Nat, NEW extra \in Nat,
         Spaced(w, from, last, extra), w[d].type \notin {"Progress", "EdgeRequest"}
  PROVE  Spaced(v, from, last, extra)
<1>1. v \in Seq(Message) /\ w \in Seq(Message) /\ Len(v) = Len(w) - 1 /\ Len(v) \in Nat /\ d \in Nat
  BY Kept
<1>2. SUFFICES ASSUME NEW i \in Marks(v)
               PROVE  Len(v) - i <= 2 * (last - At(v, i, from)) + Beside(v, i) + extra
  BY DEF Spaced
<1> DEFINE k == Place(i, d)
<1>3. /\ i \in 0..Len(v) /\ i \in Nat /\ k \in Marks(w) /\ At(w, k, from) = At(v, i, from)
      /\ (i < d => k = i) /\ (i >= d => k = i + 1)
  BY MarksLess
<1>4. Len(w) - k <= 2 * (last - At(w, k, from)) + Beside(w, k) + extra
  BY <1>3 DEF Spaced
<1>5. /\ Beside(v, i) \in Nat /\ Beside(w, k) \in Nat
      /\ i < d => Beside(w, k) <= Beside(v, i) + 1
      /\ i >= d => Beside(w, k) <= Beside(v, i)
  BY <1>3, BesideLess
<1>6. At(v, i, from) \in Int
  BY <1>1, MarksOf
<1> DEFINE b == Beside(v, i)
           c == Beside(w, k)
           p == At(v, i, from)
<1>7. /\ b \in Nat /\ c \in Nat /\ p \in Int /\ i \in Nat /\ d \in Nat /\ Len(v) \in Nat /\ last \in Nat
      /\ extra \in Nat /\ (i < d => k = i) /\ (i >= d => k = i + 1)
      /\ (i < d => c <= b + 1) /\ (i >= d => c <= b)
      /\ (Len(v) + 1) - k <= 2 * (last - p) + c + extra
  <2>1. Len(w) = Len(v) + 1
    <3>1. Len(w) \in Nat
      BY Kept
    <3> QED BY <1>1, <3>1
  <2> QED BY <1>1, <1>3, <1>4, <1>5, <1>6, <2>1
<1> HIDE DEF b, c, p, k
<1>8. Len(v) - i <= 2 * (last - p) + b + extra
  BY ONLY <1>7
<1> QED BY <1>8 DEF b, p

\* What is beside a place is still beside it when the first message is consumed.
LEMMA BesideNext ==
  ASSUME NEW v, NEW w, Cut(v, w, 1), NEW i \in 0..Len(v)
  PROVE  Beside(v, i) \in Nat /\ Beside(w, i + 1) = Beside(v, i)
<1>1. /\ v \in Seq(Message) /\ w \in Seq(Message) /\ Len(v) \in Nat /\ i \in Nat
      /\ \A j \in DOMAIN v : j \in Nat /\ j >= 1
      /\ \A j \in DOMAIN v : Place(j, 1) \in DOMAIN w /\ v[j] = w[Place(j, 1)]
      /\ \A k \in DOMAIN w : k # 1 => \E j \in DOMAIN v : Place(j, 1) = k
  BY Kept
<1>2. \A j \in DOMAIN v : Place(j, 1) = j + 1
  BY <1>1 DEF Place
<1>3. ASSUME NEW type, After(w, i + 1, type)
      PROVE  After(v, i, type)
  <2>1. PICK k \in DOMAIN w : i + 1 < k /\ Is(w, k, type)
    BY <1>3 DEF After
  <2>2. k # 1
    BY <1>1, <2>1
  <2>3. PICK j \in DOMAIN v : j + 1 = k
    BY <1>1, <1>2, <2>2
  <2>4. i < j /\ Is(v, j, type)
    BY <1>1, <1>2, <2>1, <2>3 DEF Is
  <2> QED BY <2>4 DEF After
<1>4. ASSUME NEW type, After(v, i, type)
      PROVE  After(w, i + 1, type)
  <2>1. PICK j \in DOMAIN v : i < j /\ Is(v, j, type)
    BY <1>4 DEF After
  <2>2. j + 1 \in DOMAIN w /\ i + 1 < j + 1 /\ Is(w, j + 1, type)
    BY <1>1, <1>2, <2>1 DEF Is
  <2> QED BY <2>2 DEF After
<1> QED BY <1>3, <1>4 DEF Beside

\* A progress that is consumed is the new start.
LEMMA SpacedNext ==
  ASSUME NEW v, NEW w, Cut(v, w, 1), NEW from \in Int, NEW last \in Nat, NEW extra \in Nat,
         Spaced(w, from, last, extra), w[1].type = "Progress", NEW at \in Nat, w[1].at = at
  PROVE  Spaced(v, at, last, extra)
<1>1. /\ v \in Seq(Message) /\ w \in Seq(Message) /\ Len(v) = Len(w) - 1 /\ Len(v) \in Nat
      /\ Len(w) \in Nat /\ 1 \in DOMAIN w
  BY Kept
<1>2. SUFFICES ASSUME NEW i \in Marks(v)
               PROVE  Len(v) - i <= 2 * (last - At(v, i, at)) + Beside(v, i) + extra
  BY DEF Spaced
<1>3. i \in 0..Len(v) /\ i \in Nat /\ i + 1 \in Marks(w) /\ At(w, i + 1, from) = At(v, i, at)
  <2>1. i \in 0..Len(v) /\ i \in Nat /\ Place(i, 1) \in Marks(w) /\ At(w, Place(i, 1), at) = At(v, i, at)
        /\ (i >= 1 => Place(i, 1) = i + 1)
    BY MarksLess
  <2>2. CASE i = 0
    <3>1. i + 1 = 1 /\ 1 \in Marks(w) /\ At(w, 1, from) = at /\ At(v, i, at) = at
      BY <1>1, <2>2 DEF Marks, Is, At
    <3> QED BY <2>1, <3>1
  <2>3. CASE i # 0
    <3>1. i >= 1 /\ i + 1 # 0
      BY <2>1, <2>3
    <3>2. At(w, i + 1, from) = At(w, i + 1, at)
      BY <3>1 DEF At
    <3> QED BY <2>1, <3>1, <3>2
  <2> QED BY <2>2, <2>3
<1>4. Len(w) - (i + 1) <= 2 * (last - At(w, i + 1, from)) + Beside(w, i + 1) + extra
  BY <1>3 DEF Spaced
<1>5. Beside(w, i + 1) = Beside(v, i)
  BY <1>3, BesideNext
<1>6. Len(w) - (i + 1) = Len(v) - i
  BY <1>1, <1>3
<1> QED BY <1>3, <1>4, <1>5, <1>6

\* A message that is neither a progress nor a request leaves an edge last.
LEMMA FiringLess ==
  ASSUME NEW v, NEW w, NEW d, Cut(v, w, d), NEW from \in Int, NEW last \in Nat,
         Firing(w, from, last), w[d].type \notin {"Progress", "EdgeRequest"}
  PROVE  Firing(v, from, last)
<1>1. /\ v \in Seq(Message) /\ w \in Seq(Message) /\ Len(v) \in Nat /\ Len(w) = Len(v) + 1
      /\ d \in Nat /\ d >= 1
      /\ \A j \in DOMAIN v : j \in Nat
      /\ \A j \in DOMAIN v : Place(j, d) \in DOMAIN w /\ v[j] = w[Place(j, d)]
  <2>1. Len(v) \in Nat /\ Len(w) \in Nat /\ Len(v) = Len(w) - 1
    BY Kept
  <2>2. Len(w) = Len(v) + 1
    BY <2>1
  <2> QED BY <2>2, Kept
<1>2. SUFFICES ASSUME NEW j \in DOMAIN v, Is(v, j, "EdgeRequest")
               PROVE  /\ Len(v) <= j + 2
                      /\ Len(v) = j + 2 => \A i \in Marks(v) : i < j => At(v, i, from) < last
  BY DEF Firing
<1> DEFINE k == Place(j, d)
<1>3. k \in DOMAIN w /\ Is(w, k, "EdgeRequest") /\ (j < d => k = j) /\ (j >= d => k = j + 1) /\ j \in Nat
  BY <1>1, <1>2 DEF Is, Place
<1>4. Len(w) <= k + 2 /\ (Len(w) = k + 2 => \A i \in Marks(w) : i < k => At(w, i, from) < last)
  BY <1>3 DEF Firing
<1> HIDE DEF k
<1>5. Len(v) <= j + 2 /\ (Len(v) = j + 2 => Len(w) = k + 2 /\ j >= d)
  BY <1>1, <1>3, <1>4
<1>6. ASSUME Len(v) = j + 2, NEW i \in Marks(v), i < j
      PROVE  At(v, i, from) < last
  <2>1. /\ i \in Nat /\ Place(i, d) \in Marks(w) /\ At(w, Place(i, d), from) = At(v, i, from)
        /\ (i < d => Place(i, d) = i) /\ (i >= d => Place(i, d) = i + 1)
    BY MarksLess
  <2>2. Place(i, d) < k
    BY <1>1, <1>3, <1>5, <1>6, <2>1
  <2> QED BY <1>4, <1>5, <1>6, <2>1, <2>2
<1> QED BY <1>5, <1>6

\* An edge stays last when a progress becomes the new start.
LEMMA FiringNext ==
  ASSUME NEW v, NEW w, Cut(v, w, 1), NEW from \in Int, NEW last \in Nat,
         Firing(w, from, last), w[1].type = "Progress", NEW at \in Nat, w[1].at = at
  PROVE  Firing(v, at, last)
<1>1. /\ v \in Seq(Message) /\ w \in Seq(Message) /\ Len(v) \in Nat /\ Len(w) = Len(v) + 1
      /\ 1 \in DOMAIN w
      /\ \A j \in DOMAIN v : j \in Nat /\ j >= 1
      /\ \A j \in DOMAIN v : Place(j, 1) \in DOMAIN w /\ v[j] = w[Place(j, 1)]
  <2>1. Len(v) \in Nat /\ Len(w) \in Nat /\ Len(v) = Len(w) - 1
    BY Kept
  <2>2. Len(w) = Len(v) + 1
    BY <2>1
  <2> QED BY <2>2, Kept
<1>2. SUFFICES ASSUME NEW j \in DOMAIN v, Is(v, j, "EdgeRequest")
               PROVE  /\ Len(v) <= j + 2
                      /\ Len(v) = j + 2 => \A i \in Marks(v) : i < j => At(v, i, at) < last
  BY DEF Firing
<1>3. j + 1 \in DOMAIN w /\ Is(w, j + 1, "EdgeRequest") /\ j \in Nat
  BY <1>1, <1>2 DEF Is, Place
<1>4. /\ Len(w) <= (j + 1) + 2
      /\ Len(w) = (j + 1) + 2 => \A i \in Marks(w) : i < j + 1 => At(w, i, from) < last
  BY <1>3 DEF Firing
<1>5. Len(v) <= j + 2 /\ (Len(v) = j + 2 => Len(w) = (j + 1) + 2)
  BY <1>1, <1>3, <1>4
<1>6. ASSUME Len(v) = j + 2, NEW i \in Marks(v), i < j
      PROVE  At(v, i, at) < last
  <2>1. i \in Nat /\ Place(i, 1) \in Marks(w) /\ At(w, Place(i, 1), at) = At(v, i, at)
        /\ (i >= 1 => Place(i, 1) = i + 1)
    BY MarksLess
  <2>2. CASE i = 0
    <3>1. 1 \in Marks(w) /\ At(w, 1, from) = at /\ At(v, i, at) = at
      BY <1>1, <2>2 DEF Marks, Is, At
    <3>2. 1 < j + 1
      BY <1>3, <1>6, <2>2
    <3> QED BY <1>4, <1>5, <1>6, <3>1, <3>2
  <2>3. CASE i # 0
    <3>1. i >= 1 /\ i + 1 # 0 /\ i + 1 < j + 1
      BY <1>3, <1>6, <2>1, <2>3
    <3>2. At(w, i + 1, from) = At(w, i + 1, at)
      BY <3>1 DEF At
    <3> QED BY <1>4, <1>5, <1>6, <2>1, <3>1, <3>2
  <2> QED BY <2>2, <2>3
<1> QED BY <1>5, <1>6

\* What an edge leaves behind when it is consumed.
LEMMA FiringEnds ==
  ASSUME NEW v, NEW w, Cut(v, w, 1), NEW from \in Int, NEW last \in Nat,
         Firing(w, from, last), w[1].type = "EdgeRequest"
  PROVE  Trailing(v, from, last)
<1>1. Len(v) \in Nat /\ Len(w) \in Nat /\ Len(v) = Len(w) - 1 /\ 1 \in DOMAIN w
  BY Kept
<1>2. Len(w) <= 1 + 2 /\ (Len(w) = 1 + 2 => \A i \in Marks(w) : i < 1 => At(w, i, from) < last)
  BY <1>1 DEF Firing, Is
<1>3. 0 \in Marks(w) /\ At(w, 0, from) = from
  BY DEF Marks, At
<1> QED BY <1>1, <1>2, <1>3 DEF Trailing

\* What was left behind an edge gets less.
LEMMA TrailingLess ==
  ASSUME NEW v, NEW w, NEW d, Cut(v, w, d), NEW from, NEW last, NEW next, Trailing(w, from, last)
  PROVE  Trailing(v, next, last)
<1>1. Len(v) \in Nat /\ Len(w) \in Nat /\ Len(v) = Len(w) - 1
  BY Kept
<1> QED BY <1>1 DEF Trailing

\* No time on the way is beyond the last that was sent.
LEMMA MarksEarly ==
  ASSUME NEW w \in Seq(Message), NEW progress, NEW peer \in Nat, NEW last \in Nat,
         Announced(w, progress, peer, last), NEW from \in {-1, peer}, NEW i \in Marks(w)
  PROVE  At(w, i, from) <= last
<1>1. from \in Int /\ from <= last
  BY DEF Announced
<1>2. /\ i = 0 => At(w, i, from) = from
      /\ i # 0 => i \in DOMAIN w /\ Is(w, i, "Progress") /\ At(w, i, from) = w[i].at
  BY <1>1, MarksOf
<1> QED BY <1>1, <1>2 DEF Announced

\* What is left behind an edge when its answer is taken is spaced again.
LEMMA SpacedAgain ==
  ASSUME NEW w \in Seq(Message), NEW progress, NEW peer \in Nat, NEW last \in Nat,
         Announced(w, progress, peer, last), NEW from \in {-1, peer},
         Trailing(w, from, last), NEW extra \in Nat, extra >= 1
  PROVE  Spaced(w, from, last, extra)
<1>1. from \in Int
  BY -1 \in Int, peer \in Int
<1>2. SUFFICES ASSUME NEW i \in Marks(w)
               PROVE  Len(w) - i <= 2 * (last - At(w, i, from)) + Beside(w, i) + extra
  BY DEF Spaced
<1>3. /\ i \in Nat /\ Len(w) \in Nat /\ At(w, i, from) \in Int /\ Beside(w, i) \in Nat
      /\ i = 0 => At(w, i, from) = from
  BY <1>1, MarksOf
<1>4. At(w, i, from) <= last
  BY MarksEarly
<1>5. Len(w) <= 2 /\ (Len(w) = 2 => from < last)
  BY DEF Trailing
<1> DEFINE p == At(w, i, from)
           b == Beside(w, i)
<1>6. /\ i \in Nat /\ Len(w) \in Nat /\ p \in Int /\ b \in Nat /\ (i = 0 => p = from) /\ p <= last
      /\ Len(w) <= 2 /\ (Len(w) = 2 => from < last) /\ last \in Nat /\ from \in Int
      /\ extra \in Nat /\ extra >= 1
  BY <1>1, <1>3, <1>4, <1>5
<1> DEFINE n == Len(w)
<1>7. p \in Int /\ b \in Nat /\ p <= last /\ last \in Int /\ extra >= 1 /\ extra \in Int
  BY <1>6
<1>8. CASE i = 0 /\ n = 2
  <2>1. p < last
    BY <1>6, <1>8
  <2> HIDE DEF p, b, n
  <2>2. 2 <= 2 * (last - p) + b + extra
    BY ONLY <1>7, <2>1
  <2> QED BY <1>8, <2>2 DEF n, p, b
<1>9. CASE ~(i = 0 /\ n = 2)
  <2>1. n - i <= 1 /\ n - i \in Int
    <3>1. n \in Nat /\ i \in Nat /\ n <= 2 /\ ~(i = 0 /\ n = 2)
      BY <1>6, <1>9
    <3> HIDE DEF n
    <3> QED BY ONLY <3>1
  <2> DEFINE g == n - i
  <2>2. g <= 1 /\ g \in Int
    BY <2>1
  <2> HIDE DEF p, b, n, g
  <2>3. g <= 2 * (last - p) + b + extra
    BY ONLY <1>7, <2>2
  <2> QED BY <2>3 DEF n, p, b, g
<1> QED BY <1>8, <1>9

-----------------------------------------------------------------------------
(* What a step has to show *)

\* The stream of a side after a step.
LEMMA RoomyNext ==
  ASSUME NEW s \in Sides, NEW w, NEW from, NEW last, NEW extra, NEW waiting,
         Room(w, from, last, extra, waiting), Stream(s)' = w, From(co'[s]) = from,
         link'[Other(s)].sentProgress = last, link'[Other(s)].waiting = waiting,
         Extra(link'[Other(s)], fences'[Other(s)]) = extra
  PROVE  Roomy(s)'
<1>1. Room(Stream(s)', From(co'[s]), link'[Other(s)].sentProgress,
           Extra(link'[Other(s)], fences'[Other(s)]), link'[Other(s)].waiting)
  OBVIOUS
<1> QED BY ONLY <1>1 DEF Roomy, Room, Spaced, Firing, Trailing, Marks, After, Beside, Is, At, Asking, From, Extra

\* The stream of a side to which nothing happened.
LEMMA RoomySame ==
  ASSUME NEW s \in Sides, NEW o \in Sides, o = Other(s), Roomy(s), Stream(s)' = Stream(s),
         co'[s].progress = co[s].progress, co'[s].peer = co[s].peer,
         link'[o].sentProgress = link[o].sentProgress, link'[o].waiting = link[o].waiting,
         link'[o].sentMark = link[o].sentMark,
         fences'[o].started = fences[o].started, fences'[o].seen = fences[o].seen,
         fences'[o].owed = fences[o].owed
  PROVE  Roomy(s)'
<1>1. Room(Stream(s), From(co[s]), link[o].sentProgress, Extra(link[o], fences[o]), link[o].waiting)
  BY DEF Roomy
<1>2. From(co'[s]) = From(co[s])
  BY DEF From
<1>3. Extra(link'[o], fences'[o]) = Extra(link[o], fences[o])
  BY DEF Extra
<1> QED BY <1>1, <1>2, <1>3, RoomyNext

\* A side to which nothing happened is still frugal.
LEMMA FrugalSame ==
  ASSUME NEW s \in Sides, Frugal(s), fault'[s] = fault[s], co'[s] = co[s], link'[s] = link[s],
         serial'[s] = serial[s], fences'[s] = fences[s], mode'[s] = mode[s]
  PROVE  Frugal(s)'
BY DEF Frugal, Clocking, Is

\* What the invariant says of the two sides.
LEMMA Roomwise ==
  ASSUME RInv, NEW s \in Sides
  PROVE  /\ Frugal(s) /\ (open[s] => Roomy(s))
         /\ Frugal(Other(s)) /\ (open[Other(s)] => Roomy(Other(s)))
BY Peers DEF RInv

LEMMA BothRoomy ==
  ASSUME NEW s \in Sides, Frugal(s)', Frugal(Other(s))', open'[s] => Roomy(s)',
         open'[Other(s)] => Roomy(Other(s))'
  PROVE  RInv'
<1>1. \A t \in Sides : t = s \/ t = Other(s)
  BY Peers
<1>2. ASSUME NEW t \in Sides
      PROVE  Frugal(t)' /\ (open'[t] => Roomy(t)')
  <2>1. CASE t = s
    BY <2>1
  <2>2. CASE t = Other(s)
    BY <2>2
  <2> QED BY <1>1, <2>1, <2>2
<1> QED BY <1>2 DEF RInv

\* A step that neither sends nor takes anything.
LEMMA QuietKeeps ==
  ASSUME RInv, NEW s \in Sides, Frugal(s)', Frugal(Other(s))',
         Stream(s)' = Stream(s), Stream(Other(s))' = Stream(Other(s)),
         \A t \in Sides :
           /\ open'[t] => open[t]
           /\ co'[t].progress = co[t].progress /\ co'[t].peer = co[t].peer
           /\ link'[t].sentProgress = link[t].sentProgress /\ link'[t].waiting = link[t].waiting
           /\ link'[t].sentMark = link[t].sentMark
           /\ fences'[t].started = fences[t].started /\ fences'[t].seen = fences[t].seen
           /\ fences'[t].owed = fences[t].owed
  PROVE  RInv'
<1>1. Other(s) \in Sides /\ Other(Other(s)) = s
  BY Peers
<1>2. open'[s] => Roomy(s)'
  BY <1>1, Roomwise, RoomySame
<1>3. open'[Other(s)] => Roomy(Other(s))'
  BY <1>1, Roomwise, RoomySame
<1> QED BY <1>2, <1>3, BothRoomy

\* What the numbers of a stream are.
LEMMA Budget ==
  ASSUME IInv, RInv, NEW s \in Sides
  PROVE  /\ From(co[s]) \in {-1, co[s].peer} /\ From(co[s]) \in Int
         /\ Extra(link[s], fences[s]) \in Nat
         /\ link[s].sentMark # -1 => Extra(link[s], fences[s]) >= 1
         /\ Len(fences[s].owed) \in Nat
<1>1. Shape
  BY Sidewise
<1>2. /\ co[s].peer \in Nat /\ link[s].sentMark \in Int /\ fences[s].started \in Nat
      /\ fences[s].seen \in Nat /\ fences[s].owed \in Seq([id : Nat, through : Nat])
  BY <1>1, Numbers
<1>3. Len(fences[s].owed) \in Nat
  BY <1>2, LenProperties
<1>4. Len(fences[s].owed) <= fences[s].seen
  BY Roomwise DEF Frugal
<1>5. From(co[s]) \in {-1, co[s].peer}
  BY DEF From
<1>6. From(co[s]) \in Int
  <2>1. -1 \in Int /\ co[s].peer \in Int
    BY <1>2
  <2> QED BY <1>5, <2>1
<1>7. Extra(link[s], fences[s]) =
        (IF link[s].sentMark = -1 THEN 0 ELSE 1) + fences[s].started + fences[s].seen - Len(fences[s].owed)
  BY DEF Extra
<1> DEFINE a == fences[s].started
           b == fences[s].seen
           c == Len(fences[s].owed)
<1>8. a \in Nat /\ b \in Nat /\ c \in Nat /\ c <= b
  BY <1>2, <1>3, <1>4
<1> HIDE DEF a, b, c
<1>9. 0 + a + b - c \in Nat /\ 1 + a + b - c \in Nat /\ 1 + a + b - c >= 1
  BY ONLY <1>8
<1> QED BY <1>3, <1>5, <1>6, <1>7, <1>9 DEF a, b, c

-----------------------------------------------------------------------------
(* There is room *)

\* Nothing is completed out of order, so no gap is kept.
LEMMA NoGaps ==
  ASSUME IInv, NEW s \in Sides
  PROVE  Gaps(link[s]) = {}
<1>1. Placed(s) /\ link[Other(s)].out \in Nat
  BY Peers, Sidewise, Numbers
<1>2. PICK k \in Int : link[s].completed = 1..k
  BY <1>1 DEF Placed
<1>3. ASSUME NEW n \in link[s].completed, NEW m \in 1..n
      PROVE  m \in link[s].completed
  BY <1>2, <1>3
<1> QED BY <1>3 DEF Gaps

\* Nothing or one edge.
LEMMA AtMostOne ==
  ASSUME NEW x, NEW A, NEW B, A \cup B \subseteq {x}, A \cap B = {}
  PROVE  /\ Cardinality(A) \in Nat /\ Cardinality(B) \in Nat /\ Cardinality(A) + Cardinality(B) <= 1
         /\ A \cup B = {} => Cardinality(A) = 0 /\ Cardinality(B) = 0
<1>1. Cardinality({}) = 0 /\ Cardinality({x}) = 1
  BY FS_EmptySet, FS_Singleton
<1>2. (A = {} /\ B = {}) \/ (A = {x} /\ B = {}) \/ (A = {} /\ B = {x})
  OBVIOUS
<1> QED BY <1>1, <1>2

\* How far a side can announce ahead of what the other has seen.
LEMMA Ahead ==
  ASSUME IInv, RInv, NEW s \in Sides, open[s]
  PROVE  link[Other(s)].sentProgress - From(co[s]) <= 2 * Credit
<1> DEFINE o == Other(s)
<1>1. o \in Sides /\ Other(o) = s
  BY Peers
<1>2. /\ Shape /\ Bounded(s) /\ Bounded(o) /\ Received(o)
  BY Sidewise
<1>3. /\ co[s].local \in Nat /\ co[s].peer \in Nat /\ co[s].permit \in Nat /\ co[s].progress \in Nat
      /\ co[o].local \in Nat /\ co[o].peer \in Nat /\ co[o].permit \in Nat
      /\ link[s].sentProgress \in Nat /\ link[o].sentProgress \in Nat
      /\ QuantumCycles \in Nat /\ QuantumCycles > 0 /\ RearmBudget \in Nat
  <2>1. QuantumCycles \in Nat /\ QuantumCycles > 0 /\ RearmBudget \in Nat
    BY CableAssumption
  <2> QED BY <1>1, <1>2, <2>1, Numbers
<1>4. /\ co[s].local + co[s].permit <= co[s].peer + QuantumCycles + RearmBudget
      /\ co[o].local + co[o].permit <= co[o].peer + QuantumCycles + RearmBudget
      /\ link[s].sentProgress <= co[s].local /\ link[o].sentProgress <= co[o].local
      /\ co[o].peer <= link[s].sentProgress
  BY <1>1, <1>2 DEF Bounded, Received
<1>5. /\ co[s].progress = 0 => From(co[s]) = -1 /\ co[s].local = 0
      /\ co[s].progress # 0 => From(co[s]) = co[s].peer
  BY Roomwise DEF From, Frugal
<1> DEFINE a == link[o].sentProgress
           b == co[o].local
           c == co[o].peer
           d == link[s].sentProgress
           e == co[s].local
           f == co[s].peer
           p == co[s].permit
           q == co[o].permit
           X == QuantumCycles + RearmBudget
<1>6. /\ a \in Nat /\ b \in Nat /\ c \in Nat /\ d \in Nat /\ e \in Nat /\ f \in Nat /\ p \in Nat /\ q \in Nat
      /\ X \in Nat /\ X >= 1
      /\ a <= b /\ b + q <= c + X /\ c <= d /\ d <= e /\ e + p <= f + X
  BY <1>3, <1>4
<1> HIDE DEF a, b, c, d, e, f, p, q, X
<1>7. a - f <= 2 * X /\ (e = 0 => a - (-1) <= 2 * X)
  BY ONLY <1>6
<1>8. link[o].sentProgress - From(co[s]) <= 2 * X
  BY <1>5, <1>7 DEF a, e, f
<1> QED BY <1>8 DEF Credit, X

\* What a side may be sent that it has not asked for.
LEMMA Unasked ==
  ASSUME Ample, IInv, RInv, NEW s \in Sides
  PROVE  /\ Credit \in Nat /\ Credit >= 1
         /\ 4 * Credit + 2 + Extra(link[Other(s)], fences[Other(s)]) <= Capacity /\ 7 <= Capacity
<1> DEFINE o == Other(s)
<1>1. o \in Sides /\ Other(o) = s
  BY Peers
<1>2. Credit \in Nat /\ Credit >= 1
  <2>1. QuantumCycles \in Nat /\ QuantumCycles > 0 /\ RearmBudget \in Nat
    BY CableAssumption
  <2> QED BY <2>1 DEF Credit
<1>3. /\ Capacity >= 4 * Credit + 3 + MaxFences[s] + MaxFences[o]
      /\ MaxFences[s] \in Nat /\ MaxFences[o] \in Nat /\ Capacity \in Nat
  BY <1>1, Constants, CableAssumption DEF Ample
<1>4. fences[o].started <= MaxFences[o] /\ fences[o].seen <= MaxFences[s]
  <2>1. Frugal(o)
    BY Roomwise
  <2> QED BY <1>1, <2>1 DEF Frugal
<1>5. /\ fences[o].started \in Nat /\ fences[o].seen \in Nat /\ Len(fences[o].owed) \in Nat
  BY <1>1, Sidewise, Numbers, Budget
<1>6. Extra(link[o], fences[o]) =
        (IF link[o].sentMark = -1 THEN 0 ELSE 1) + fences[o].started + fences[o].seen - Len(fences[o].owed)
  BY DEF Extra
<1> DEFINE a == fences[o].started
           b == fences[o].seen
           c == Len(fences[o].owed)
           A == MaxFences[o]
           B == MaxFences[s]
           m == IF link[o].sentMark = -1 THEN 0 ELSE 1
<1>7. /\ a \in Nat /\ b \in Nat /\ c \in Nat /\ A \in Nat /\ B \in Nat /\ a <= A /\ b <= B
      /\ m \in {0, 1} /\ Capacity \in Nat /\ Capacity >= 4 * Credit + 3 + B + A
  BY <1>3, <1>4, <1>5
<1> HIDE DEF a, b, c, A, B, m
<1>8. 4 * Credit + 2 + (m + a + b - c) <= Capacity /\ 7 <= Capacity
  BY ONLY <1>2, <1>7
<1> QED BY <1>2, <1>6, <1>8 DEF a, b, c, m

\* What a side stages, and the edge it has in hand, fit into an ample capacity.
LEMMA RoomEnough ==
  ASSUME Ample, IInv, RInv, NEW s \in Sides, open[s], NEW n \in 1..Len(Incoming(s)),
         \A i \in 1..n : Incoming(s)[i].type # "EdgeResponse"
  PROVE  Backlog(s) + n <= Capacity
<1> DEFINE o == Other(s)
           a == link[s].ingress
           b == wire[o]
           w == Stream(s)
           l == link[o]
           from == From(co[s])
           last == l.sentProgress
           extra == Extra(l, fences[o])
           d == Cardinality(co[s].edges) + Cardinality(link[s].delivery)
<1>1. /\ o \in Sides /\ Shape /\ Placed(s) /\ Received(s) /\ Frugal(s) /\ Roomy(s)
  BY Peers, Sidewise, Roomwise
<1>2. /\ a \in Seq(Message) /\ b \in Seq(Message) /\ w \in Seq(Message) /\ w = a \o b /\ Incoming(s) = b
  BY <1>1, Typed DEF Stream, Incoming
<1>3. /\ Len(a) \in Nat /\ Len(b) \in Nat /\ Len(w) = Len(a) + Len(b) /\ DOMAIN a = 1..Len(a)
      /\ DOMAIN b = 1..Len(b) /\ n \in Nat /\ n <= Len(b) /\ Capacity \in Nat
  BY <1>2, ConcatProperties, Elements, Constants
<1>4. /\ Here(s) \subseteq {EdgeOf(l)} /\ co[s].edges \cap link[s].delivery = {}
      /\ Here(s) = co[s].edges \cup link[s].delivery
  BY <1>1 DEF Placed, Here
<1>5. d \in Nat /\ d <= 1 /\ (Here(s) = {} => d = 0)
  <2>1. /\ Cardinality(co[s].edges) \in Nat /\ Cardinality(link[s].delivery) \in Nat
        /\ Cardinality(co[s].edges) + Cardinality(link[s].delivery) <= 1
        /\ Here(s) = {} => Cardinality(co[s].edges) = 0 /\ Cardinality(link[s].delivery) = 0
    BY <1>4, AtMostOne
  <2> QED BY <2>1
<1>6. Backlog(s) = Len(a) + d
  <2>1. Cardinality(Gaps(link[s])) = 0
    BY NoGaps, FS_EmptySet
  <2>2. /\ Cardinality(co[s].edges) \in Nat /\ Cardinality(link[s].delivery) \in Nat
    BY <1>4, AtMostOne
  <2> QED BY <1>3, <2>1, <2>2 DEF Backlog
<1>7. Room(w, from, last, extra, l.waiting)
  BY <1>1 DEF Roomy
<1>8. /\ Credit \in Nat /\ 4 * Credit + 2 + extra <= Capacity /\ 7 <= Capacity /\ extra \in Nat
      /\ last - from <= 2 * Credit /\ last \in Nat /\ from \in Int
  BY <1>1, Unasked, Ahead, Budget, Numbers
<1> HIDE DEF a, b, w, l, from, last, extra, d
<1>9. CASE l.waiting = 0 \/ Asking(w)
  <2>1. Here(s) = {}
    <3>1. Here(s) # {} => l.waiting # 0 /\ co[s].edgeSequence = l.out
      BY <1>1 DEF Placed, l
    <3>2. Asking(w) => co[s].edgeSequence = l.out - 1
      BY <1>1 DEF Received, Numbered, w, l
    <3>3. l.out \in Nat
      BY <1>1, Numbers DEF l
    <3>4. l.out # l.out - 1
      BY <3>3
    <3> QED BY <1>9, <3>1, <3>2, <3>4
  <2>2. d = 0
    BY <1>5, <2>1
  <2>3. Len(w) - 0 <= 2 * (last - At(w, 0, from)) + Beside(w, 0) + extra
    <3>1. Spaced(w, from, last, extra)
      BY <1>7, <1>9 DEF Room
    <3>2. 0 \in Marks(w)
      BY DEF Marks
    <3> QED BY <3>1, <3>2 DEF Spaced
  <2>4. At(w, 0, from) = from
    BY DEF At
  <2>5. Beside(w, 0) \in Nat /\ Len(a) + n + Beside(w, 0) <= Len(w) + 2
    <3>1. CASE After(w, 0, "EdgeResponse")
      <4>1. PICK j \in DOMAIN w : Is(w, j, "EdgeResponse")
        BY <3>1 DEF After
      <4>2. j \notin DOMAIN a
        <5>1. \A i \in DOMAIN a : w[i] = a[i] /\ ~Is(a, i, "EdgeResponse")
          BY <1>1, <1>2, Joined DEF Frugal, a
        <5> QED BY <4>1, <5>1 DEF Is
      <4>3. PICK k \in DOMAIN b : j = Len(a) + k /\ w[j] = b[k]
        BY <1>2, <4>2, Joined
      <4>4. k \notin 1..n
        BY <1>2, <4>1, <4>3 DEF Is
      <4>5. n < Len(b)
        BY <1>3, <4>3, <4>4
      <4>6. Beside(w, 0) \in Nat /\ Beside(w, 0) <= 3
        BY DEF Beside
      <4> QED BY <1>3, <4>5, <4>6
    <3>2. CASE ~After(w, 0, "EdgeResponse")
      <4>1. Beside(w, 0) \in Nat /\ Beside(w, 0) <= 2
        BY <3>2 DEF Beside
      <4> QED BY <1>3, <4>1
    <3> QED BY <3>1, <3>2
  <2> DEFINE x == Len(a) + n
             y == Beside(w, 0)
             z == Len(w)
  <2>6. /\ x \in Nat /\ y \in Nat /\ z \in Nat /\ x + y <= z + 2 /\ z <= 2 * (last - from) + y + extra
        /\ Credit \in Nat /\ 4 * Credit + 2 + extra <= Capacity /\ extra \in Nat /\ Capacity \in Nat
        /\ last - from <= 2 * Credit /\ last \in Nat /\ from \in Int
    <3>1. Len(w) \in Nat /\ Len(w) - 0 = Len(w)
      BY <1>3
    <3> QED BY <1>3, <1>8, <2>3, <2>4, <2>5, <3>1
  <2> HIDE DEF x, y, z
  <2>7. x <= Capacity
    BY ONLY <2>6
  <2>8. Backlog(s) + n = x
    BY <1>3, <1>6, <2>2 DEF x
  <2> QED BY <2>7, <2>8
<1>10. CASE ~(l.waiting = 0 \/ Asking(w))
  <2>1. Len(w) <= 2
    BY <1>7, <1>10 DEF Room, Trailing
  <2> DEFINE x == Len(a)
             y == Len(b)
  <2>2. /\ x \in Nat /\ y \in Nat /\ x + y <= 2 /\ n \in Nat /\ n <= y /\ d \in Nat /\ d <= 1
        /\ 7 <= Capacity /\ Capacity \in Nat
    BY <1>3, <1>5, <1>8, <2>1
  <2> HIDE DEF x, y
  <2>3. (x + d) + n <= Capacity
    BY ONLY <2>2
  <2> QED BY <1>6, <2>3 DEF x
<1> QED BY <1>9, <1>10

-----------------------------------------------------------------------------
(* Steps that neither send nor take anything *)

\* A side that does not change what it keeps for the streams is still frugal.
LEMMA FrugalLike ==
  ASSUME NEW s \in Sides, Frugal(s), fault'[s] # "capacity",
         co'[s].progress = 0 => co'[s].local = 0 /\ co'[s].permit = 0,
         link'[s].sentMark = link[s].sentMark, link'[s].sentProgress = link[s].sentProgress,
         link'[s].settled = link[s].settled, link'[s].ingress = link[s].ingress,
         link'[s].waiting = link[s].waiting,
         serial'[s].enabled /\ serial'[s].internal => link[s].settled <= serial'[s].target,
         fences'[s].started = fences[s].started, fences'[s].seen = fences[s].seen,
         fences'[s].owed = fences[s].owed, mode'[s] = "fence" => mode[s] = "fence"
  PROVE  Frugal(s)'
BY DEF Frugal, Clocking, Is

\* A step of the owner alone.
LEMMA StillRoomy ==
  ASSUME Shape, RInv, NEW s \in Sides,
         \A t \in Sides : t # s =>
            /\ co'[t] = co[t] /\ link'[t] = link[t] /\ serial'[t] = serial[t]
            /\ fences'[t] = fences[t] /\ mode'[t] = mode[t] /\ fault'[t] = fault[t],
         wire' = wire, \A t \in Sides : open'[t] => open[t],
         fault'[s] # "capacity",
         co'[s].progress = co[s].progress, co'[s].peer = co[s].peer,
         co'[s].progress = 0 => co'[s].local = 0 /\ co'[s].permit = 0,
         link'[s].sentMark = link[s].sentMark, link'[s].sentProgress = link[s].sentProgress,
         link'[s].settled = link[s].settled, link'[s].ingress = link[s].ingress,
         link'[s].waiting = link[s].waiting,
         serial'[s].enabled /\ serial'[s].internal => link[s].settled <= serial'[s].target,
         fences'[s].started = fences[s].started, fences'[s].seen = fences[s].seen,
         fences'[s].owed = fences[s].owed, mode'[s] = "fence" => mode[s] = "fence"
  PROVE  RInv'
<1> DEFINE o == Other(s)
<1>1. o \in Sides /\ o # s /\ Other(o) = s /\ \A t \in Sides : t = s \/ t = o
  BY Peers
<1>2. Frugal(s) /\ Frugal(o)
  BY Roomwise
<1>3. Frugal(s)'
  BY <1>2, FrugalLike
<1>4. Frugal(o)'
  BY <1>1, <1>2, FrugalSame
<1>5. Stream(s)' = Stream(s) /\ Stream(o)' = Stream(o)
  BY <1>1 DEF Stream
<1>6. \A t \in Sides :
        /\ co'[t].progress = co[t].progress /\ co'[t].peer = co[t].peer
        /\ link'[t].sentProgress = link[t].sentProgress /\ link'[t].waiting = link[t].waiting
        /\ link'[t].sentMark = link[t].sentMark
        /\ fences'[t].started = fences[t].started /\ fences'[t].seen = fences[t].seen
        /\ fences'[t].owed = fences[t].owed
  BY <1>1
<1> QED BY <1>3, <1>4, <1>5, <1>6, QuietKeeps

\* A side that ends sends nothing.
LEMMA FailRoomy ==
  ASSUME IInv, RInv, NEW s \in Sides, NEW why, why # "capacity",
         (\E ended : FailWith(s, why, ended)) \/ SerialFault(s, why)
  PROVE  RInv'
<1>1. Shape /\ Frugal(s)
  BY Sidewise, Roomwise
<1>2. /\ mode' = mode /\ serial' = serial /\ link' = link /\ fences' = fences /\ wire' = wire
      /\ fault' = [fault EXCEPT ![s] = Seen(s, why)]
  BY DEF FailWith, SerialFault
<1>3. Seen(s, why) # "capacity"
  BY DEF Seen
<1>4. fault'[s] # "capacity" /\ \A t \in Sides : t # s => fault'[t] = fault[t]
  BY <1>1, <1>2, <1>3 DEF Shape
<1>5. /\ co'[s].progress = co[s].progress /\ co'[s].peer = co[s].peer /\ co'[s].local = co[s].local
      /\ co'[s].permit = co[s].permit /\ \A t \in Sides : t # s => co'[t] = co[t]
  <2>1. CASE \E ended : FailWith(s, why, ended)
    <3>1. PICK ended : co' = [co EXCEPT ![s].ended = IF @ = "none" THEN ended ELSE @]
      BY <2>1 DEF FailWith
    <3>2. co'[s] = [co[s] EXCEPT !.ended = IF @ = "none" THEN ended ELSE @] /\ co[s] \in Coordinator
      BY <1>1, <3>1 DEF Shape
    <3>3. \A t \in Sides : t # s => co'[t] = co[t]
      BY <1>1, <3>1 DEF Shape
    <3> QED BY ONLY <3>2, <3>3 DEF Coordinator
  <2>2. CASE SerialFault(s, why)
    BY <2>2 DEF SerialFault
  <2> QED BY <2>1, <2>2
<1>6. \A t \in Sides : open'[t] => open[t]
  BY <1>1 DEF FailWith, SerialFault, Shape
<1>7. serial'[s].enabled /\ serial'[s].internal => link[s].settled <= serial'[s].target
  BY <1>1, <1>2 DEF Frugal, Clocking
<1>8. co'[s].progress = 0 => co'[s].local = 0 /\ co'[s].permit = 0
  BY <1>1, <1>5 DEF Frugal
<1> QED BY <1>1, <1>2, <1>4, <1>5, <1>6, <1>7, <1>8, StillRoomy

\* The ends a session comes to by itself.
LEMMA StopRoomy ==
  ASSUME IInv, RInv, NEW s \in Sides, Notice(s) \/ Break(s) \/ Expire(s)
  PROVE  RInv'
<1>1. fault[s] # "capacity"
  BY Roomwise DEF Frugal
<1>2. ASSUME NEW why, Fail(s, why)
      PROVE  \E ended : FailWith(s, why, ended)
  BY <1>2 DEF Fail
<1>3. CASE Notice(s)
  BY <1>2, <1>3, FailRoomy DEF Notice
<1>4. CASE Break(s)
  BY <1>1, <1>2, <1>4, FailRoomy DEF Break
<1>5. CASE Expire(s)
  BY <1>2, <1>5, FailRoomy DEF Expire
<1> QED BY <1>3, <1>4, <1>5

\* Another thread cancels the session.
LEMMA CancelRoomy ==
  ASSUME IInv, RInv, NEW s \in Sides, Cancel(s)
  PROVE  RInv'
<1>1. Shape /\ Frugal(s)
  BY Sidewise, Roomwise
<1>2. /\ co' = [co EXCEPT ![s].ended = "cancelled"] /\ open' = [open EXCEPT ![s] = FALSE]
      /\ mode' = mode /\ serial' = serial /\ link' = link /\ fences' = fences /\ wire' = wire
      /\ fault' = fault
  BY DEF Cancel
<1>3. /\ co'[s].progress = co[s].progress /\ co'[s].peer = co[s].peer /\ co'[s].local = co[s].local
      /\ co'[s].permit = co[s].permit /\ \A t \in Sides : t # s => co'[t] = co[t]
  <2>1. co'[s] = [co[s] EXCEPT !.ended = "cancelled"] /\ co[s] \in Coordinator
    BY <1>1, <1>2 DEF Shape
  <2>2. \A t \in Sides : t # s => co'[t] = co[t]
    BY <1>1, <1>2 DEF Shape
  <2> QED BY ONLY <2>1, <2>2 DEF Coordinator
<1>4. \A t \in Sides : open'[t] => open[t]
  BY <1>1, <1>2 DEF Shape
<1>5. serial'[s].enabled /\ serial'[s].internal => link[s].settled <= serial'[s].target
  BY <1>1, <1>2 DEF Frugal, Clocking
<1>6. (co'[s].progress = 0 => co'[s].local = 0 /\ co'[s].permit = 0) /\ fault'[s] # "capacity"
  BY <1>1, <1>2, <1>3 DEF Frugal
<1> QED BY <1>1, <1>2, <1>3, <1>4, <1>5, <1>6, StillRoomy

\* What was not read is gone, with the side that would have read it.
LEMMA EofRoomy ==
  ASSUME IInv, RInv, NEW s \in Sides, Eof(s)
  PROVE  RInv'
<1> DEFINE o == Other(s)
<1>1. o \in Sides /\ o # s /\ Other(o) = s /\ Shape /\ Frugal(s) /\ Frugal(o)
  BY Peers, Sidewise, Roomwise
<1>2. /\ open' = [open EXCEPT ![s] = FALSE] /\ wire' = [wire EXCEPT ![o] = <<>>]
      /\ mode' = mode /\ serial' = serial /\ link' = link /\ fences' = fences /\ co' = co
      /\ fault' = fault
  BY DEF Eof
<1>3. open'[s] = FALSE /\ open'[o] = open[o] /\ Stream(o)' = Stream(o)
  BY <1>1, <1>2 DEF Shape, Stream
<1>4. Frugal(s)' /\ Frugal(o)'
  BY <1>1, <1>2, FrugalSame
<1>5. open'[o] => Roomy(o)'
  BY <1>1, <1>2, <1>3, Roomwise, RoomySame
<1> QED BY <1>3, <1>4, <1>5, BothRoomy

\* A fence is forgotten.
LEMMA PollFenceRoomy ==
  ASSUME IInv, RInv, NEW s \in Sides, PollFence(s)
  PROVE  RInv'
<1>1. Shape /\ Frugal(s) /\ fences[s] \in Fencing
  BY Sidewise, Roomwise, Typed
<1>2. PICK f \in fences[s].sent :
        /\ fences' = [fences EXCEPT ![s].sent = @ \ {f}]
        /\ pc' = pc /\ mode' = mode /\ co' = co /\ serial' = serial /\ link' = link /\ open' = open
        /\ wire' = wire /\ fault' = fault
  BY DEF PollFence
<1>3. fences'[s] = [fences[s] EXCEPT !.sent = @ \ {f}] /\ \A t \in Sides : t # s => fences'[t] = fences[t]
  BY <1>1, <1>2 DEF Shape
<1>4. /\ fences'[s].started = fences[s].started /\ fences'[s].seen = fences[s].seen
      /\ fences'[s].owed = fences[s].owed
  BY ONLY <1>1, <1>3 DEF Fencing
<1>5. serial'[s].enabled /\ serial'[s].internal => link[s].settled <= serial'[s].target
  BY <1>1, <1>2 DEF Frugal, Clocking
<1>6. (co'[s].progress = 0 => co'[s].local = 0 /\ co'[s].permit = 0) /\ fault'[s] # "capacity"
  BY <1>1, <1>2 DEF Frugal
<1> QED BY <1>1, <1>2, <1>3, <1>4, <1>5, <1>6, StillRoomy

\* Nothing is executed before the peer has announced its time.
LEMMA ReserveRoomy ==
  ASSUME IInv, RInv, NEW s \in Sides, Reserve(s)
  PROVE  RInv'
<1>1. Shape /\ Frugal(s)
  BY Sidewise, Roomwise
<1>2. CASE \E e \in co[s].held : Late(e, co[s].local)
  BY <1>2, FailRoomy DEF Reserve
<1>3. CASE ~\E e \in co[s].held : Late(e, co[s].local)
  <2>1. /\ mode' = mode /\ serial' = serial /\ link' = link /\ fences' = fences /\ open' = open
        /\ wire' = wire /\ fault' = fault
        /\ co' = co \/ (co' = [co EXCEPT ![s].permit = Need] /\ Fits(co[s], Need))
    BY <1>3 DEF Reserve
  <2>2. serial'[s].enabled /\ serial'[s].internal => link[s].settled <= serial'[s].target
    BY <1>1, <2>1 DEF Frugal, Clocking
  <2>3. fault'[s] # "capacity"
    BY <1>1, <2>1 DEF Frugal
  <2>4. CASE co' = co
    BY <1>1, <2>1, <2>2, <2>3, <2>4, StillRoomy DEF Frugal
  <2>5. CASE co' = [co EXCEPT ![s].permit = Need] /\ Fits(co[s], Need)
    <3>1. co[s].progress > 0 /\ co[s].progress \in Nat
      BY <1>1, <2>5, Numbers DEF Fits
    <3>2. co'[s] = [co[s] EXCEPT !.permit = Need] /\ co[s] \in Coordinator
      BY <1>1, <2>5 DEF Shape
    <3>3. \A t \in Sides : t # s => co'[t] = co[t]
      BY <1>1, <2>5 DEF Shape
    <3>4. co'[s].progress = co[s].progress /\ co'[s].peer = co[s].peer
      BY ONLY <3>2 DEF Coordinator
    <3>5. co'[s].progress # 0
      BY <3>1, <3>4
    <3> QED BY <1>1, <2>1, <2>2, <2>3, <3>3, <3>4, <3>5, StillRoomy
  <2> QED BY <2>1, <2>4, <2>5
<1> QED BY <1>2, <1>3

\* The serial core catches up with an access.
LEMMA AccessRoomy ==
  ASSUME IInv, RInv, NEW s \in Sides, NEW a, Access(s, a)
  PROVE  RInv'
<1>1. Shape /\ Frugal(s)
  BY Sidewise, Roomwise
<1>2. /\ serial' = [serial EXCEPT ![s].now = a]
      /\ mode' = mode /\ co' = co /\ link' = link /\ fences' = fences /\ open' = open
      /\ wire' = wire /\ fault' = fault
  BY DEF Access
<1>3. serial'[s] = [serial[s] EXCEPT !.now = a] /\ serial[s] \in SerialCore
  BY <1>1, <1>2 DEF Shape
<1>4. /\ serial'[s].enabled = serial[s].enabled /\ serial'[s].internal = serial[s].internal
      /\ serial'[s].target = serial[s].target
  BY ONLY <1>3 DEF SerialCore
<1>5. \A t \in Sides : t # s => serial'[t] = serial[t]
  BY <1>1, <1>2 DEF Shape
<1>6. serial'[s].enabled /\ serial'[s].internal => link[s].settled <= serial'[s].target
  BY <1>1, <1>4 DEF Frugal, Clocking
<1> QED BY <1>1, <1>2, <1>5, <1>6, StillRoomy DEF Frugal

\* A transfer that is armed ends its first bit beyond what was settled.
LEMMA TouchRoomy ==
  ASSUME IInv, RInv, NEW s \in Sides, NEW x, Touch(s, x)
  PROVE  RInv'
<1>1. Shape /\ Frugal(s) /\ Core(s) /\ Bounded(s)
  BY Sidewise, Roomwise
<1>2. /\ pc[s] = "access" /\ serial' = [serial EXCEPT ![s] = SetSC(@, x)]
      /\ mode' = mode /\ co' = co /\ link' = link /\ fences' = fences /\ open' = open
      /\ wire' = wire /\ fault' = fault
  BY DEF Touch
<1> DEFINE core == serial[s]
           next == SetSC(core, x)
<1>3. serial'[s] = next /\ \A t \in Sides : t # s => serial'[t] = serial[t]
  BY <1>1, <1>2 DEF Shape
<1>4. core \in SerialCore /\ core.enabled = (core.bits > 0)
  BY <1>1 DEF Shape, Core
<1>5. /\ next \in SerialCore
      /\ next.enabled /\ next.internal =>
           \/ core.enabled /\ core.internal /\ next.target = core.target
           \/ next.target > core.now
  BY <1>4, Rewritten
<1>6. link[s].settled <= core.now
  <2>1. link[s].settled <= co[s].local /\ co[s].local <= core.now
    BY <1>1, <1>2 DEF Bounded, Core
  <2>2. link[s].settled \in Nat /\ co[s].local \in Nat /\ core.now \in Nat
    BY <1>1, Numbers
  <2> HIDE DEF core
  <2> QED BY <2>1, <2>2
<1>7. next.enabled /\ next.internal => link[s].settled <= next.target
  <2>1. core.enabled /\ core.internal => link[s].settled <= core.target
    BY <1>1 DEF Frugal, Clocking
  <2>2. link[s].settled \in Nat /\ core.now \in Nat /\ core.target \in Nat
    BY <1>1, Numbers
  <2>3. next.target \in Nat
    BY <1>5 DEF SerialCore
  <2> HIDE DEF core, next
  <2> QED BY <1>5, <1>6, <2>1, <2>2, <2>3
<1> HIDE DEF next
<1>8. serial'[s].enabled /\ serial'[s].internal => link[s].settled <= serial'[s].target
  BY <1>3, <1>7
<1> QED BY <1>1, <1>2, <1>3, <1>8, StillRoomy DEF Frugal

\* Only a side that has heard of its peer executes.
LEMMA CommitRoomy ==
  ASSUME IInv, RInv, NEW s \in Sides, NEW elapsed \in 1..co[s].permit, NEW executed,
         Commit(s, elapsed, executed)
  PROVE  RInv'
<1> DEFINE c == co[s]
           now == c.local + elapsed
           late == IF \E e \in c.held : Late(e, now) THEN "commit.held_lateness"
                   ELSE IF \E e \in c.edges : Late(e, now) THEN "commit.edge_lateness"
                   ELSE "none"
           broken == IF fault[s] # "none" THEN fault[s]
                     ELSE IF c.ended # "none" THEN Seen(s, "closed")
                     ELSE IF late # "none" THEN "lateness"
                     ELSE "none"
           left == IF c.episodeOpen THEN c.instructions - executed ELSE c.instructions
           ended == IF c.ended = "none" THEN late ELSE c.ended
           retired == IF c.held = {} THEN 0 ELSE link[s].retired + executed
           kept == IF broken = "none" THEN now ELSE serial[s].now
<1>1. Shape /\ Frugal(s)
  BY Sidewise, Roomwise
<1>2. /\ co' = [co EXCEPT ![s].local = now, ![s].permit = 0, ![s].instructions = left, ![s].ended = ended]
      /\ link' = [link EXCEPT ![s].retired = retired]
      /\ fault' = [fault EXCEPT ![s] = broken]
      /\ serial' = [serial EXCEPT ![s].now = kept]
      /\ mode' = mode /\ fences' = fences /\ open' = open /\ wire' = wire
  BY DEF Commit
<1>3. broken # "capacity"
  BY <1>1 DEF Frugal, Seen
<1>4. co[s].permit \in Nat /\ co[s].permit # 0 /\ co[s].progress # 0
  <2>1. co[s].permit \in Nat
    BY <1>1, Numbers
  <2>2. co[s].permit # 0
    BY <2>1
  <2> QED BY <1>1, <2>1, <2>2 DEF Frugal
<1> HIDE DEF now, late, broken, left, ended, retired, kept
<1>5. /\ co'[s] = [co[s] EXCEPT !.local = now, !.permit = 0, !.instructions = left, !.ended = ended]
      /\ link'[s] = [link[s] EXCEPT !.retired = retired] /\ fault'[s] = broken
      /\ serial'[s] = [serial[s] EXCEPT !.now = kept]
      /\ co[s] \in Coordinator /\ link[s] \in Bookkeeping /\ serial[s] \in SerialCore
      /\ \A t \in Sides : t # s => co'[t] = co[t] /\ link'[t] = link[t] /\ serial'[t] = serial[t]
                                   /\ fault'[t] = fault[t]
  BY <1>1, <1>2 DEF Shape
<1>6. co'[s].progress = co[s].progress /\ co'[s].peer = co[s].peer
  BY ONLY <1>5 DEF Coordinator
<1>7. /\ link'[s].sentMark = link[s].sentMark /\ link'[s].sentProgress = link[s].sentProgress
      /\ link'[s].settled = link[s].settled /\ link'[s].ingress = link[s].ingress
      /\ link'[s].waiting = link[s].waiting
  BY ONLY <1>5 DEF Bookkeeping
<1>8. /\ serial'[s].enabled = serial[s].enabled /\ serial'[s].internal = serial[s].internal
      /\ serial'[s].target = serial[s].target
  BY ONLY <1>5 DEF SerialCore
<1>9. serial'[s].enabled /\ serial'[s].internal => link[s].settled <= serial'[s].target
  BY <1>1, <1>8 DEF Frugal, Clocking
<1>10. fault'[s] # "capacity" /\ co'[s].progress # 0
  BY <1>3, <1>4, <1>5, <1>6
<1>11. /\ \A t \in Sides : t # s =>
            /\ co'[t] = co[t] /\ link'[t] = link[t] /\ serial'[t] = serial[t]
            /\ fences'[t] = fences[t] /\ mode'[t] = mode[t] /\ fault'[t] = fault[t]
       /\ wire' = wire /\ \A t \in Sides : open'[t] => open[t]
       /\ fences'[s].started = fences[s].started /\ fences'[s].seen = fences[s].seen
       /\ fences'[s].owed = fences[s].owed /\ (mode'[s] = "fence" => mode[s] = "fence")
  BY <1>2, <1>5
<1> QED BY ONLY RInv, s \in Sides, <1>1, <1>6, <1>7, <1>9, <1>10, <1>11, StillRoomy

\* The serial core cannot be served in the mode it is in, or no more credit is lent.
LEMMA GiveUpRoomy ==
  ASSUME IInv, RInv, NEW s \in Sides, ClockConflict(s) \/ AllowanceExhausted(s)
  PROVE  RInv'
BY FailRoomy DEF ClockConflict, AllowanceExhausted, Fail

-----------------------------------------------------------------------------
(* Staging *)

\* The backlog is a number.
LEMMA BacklogCounts ==
  ASSUME IInv, NEW s \in Sides
  PROVE  Backlog(s) \in Int
<1>1. /\ Shape /\ Placed(s) /\ Other(s) \in Sides /\ Len(link[s].ingress) \in Nat
  BY Peers, Sidewise, Typed, Elements
<1>2. co[s].edges \cup link[s].delivery \subseteq {EdgeOf(link[Other(s)])} /\ co[s].edges \cap link[s].delivery = {}
  BY <1>1 DEF Placed, Here
<1>3. Cardinality(co[s].edges) \in Nat /\ Cardinality(link[s].delivery) \in Nat
  BY <1>2, AtMostOne
<1>4. Cardinality(Gaps(link[s])) = 0
  BY NoGaps, FS_EmptySet
<1> QED BY <1>1, <1>3, <1>4 DEF Backlog

\* What is staged stays on the way, and holds no answer.
LEMMA StagedRoomy ==
  ASSUME IInv, RInv, NEW s \in Sides, NEW n \in 0..Len(Incoming(s)),
         \A i \in 1..n : Incoming(s)[i].type # "EdgeResponse",
         link' = [link EXCEPT ![s].ingress = @ \o SubSeq(Incoming(s), 1, n)],
         wire' = [wire EXCEPT ![Other(s)] = SubSeq(Incoming(s), n + 1, Len(Incoming(s)))],
         co' = co, serial' = serial, fences' = fences, open' = open, fault' = fault,
         \A t \in Sides : t # s => mode'[t] = mode[t],
         mode'[s] = "fence" => mode[s] = "fence" \/ fences[s].started < MaxFences[s]
  PROVE  RInv'
<1> DEFINE o == Other(s)
           w == Incoming(s)
           a == SubSeq(w, 1, n)
           b == SubSeq(w, n + 1, Len(w))
           g == link[s].ingress
<1>1. o \in Sides /\ o # s /\ Other(o) = s /\ Shape /\ Frugal(s) /\ Frugal(o)
  BY Peers, Sidewise, Roomwise
<1>2. /\ w = wire[o] /\ w \in Seq(Message) /\ link[s] \in Bookkeeping /\ g \in Seq(Message)
  BY <1>1, Typed DEF Incoming
<1>3. /\ a \in Seq(Message) /\ b \in Seq(Message) /\ a \o b = w
      /\ DOMAIN a = 1..n /\ \A i \in 1..n : a[i] = w[i]
  BY <1>2, Divided
<1>4. \A i \in DOMAIN a : ~Is(a, i, "EdgeResponse")
  BY <1>3 DEF Is
<1> HIDE DEF a, b, w
<1>5. /\ link'[s] = [link[s] EXCEPT !.ingress = g \o a] /\ link'[o] = link[o]
      /\ wire'[o] = b /\ wire'[s] = wire[s]
  BY <1>1 DEF Shape, a, b, w
<1>6. /\ link'[s].ingress = g \o a /\ link'[s].waiting = link[s].waiting
      /\ link'[s].settled = link[s].settled
      /\ link'[s].sentProgress = link[s].sentProgress /\ link'[s].sentMark = link[s].sentMark
  <2> HIDE DEF g
  <2> QED BY ONLY <1>2, <1>5 DEF Bookkeeping
<1>7. Stream(s)' = Stream(s)
  <2>1. Stream(s)' = (g \o a) \o b /\ Stream(s) = g \o w
    BY <1>2, <1>5, <1>6 DEF Stream
  <2>2. (g \o a) \o b = g \o (a \o b)
    <3>1. g \in Seq(Message) /\ a \in Seq(Message) /\ b \in Seq(Message)
      BY <1>2, <1>3
    <3> HIDE DEF g
    <3> QED BY <3>1, ConcatAssociative
  <2> HIDE DEF g
  <2> QED BY ONLY <1>3, <2>1, <2>2
<1>8. Stream(o)' = Stream(o)
  BY <1>1, <1>5 DEF Stream
<1>9. ASSUME NEW i \in DOMAIN (g \o a)
      PROVE  (g \o a)[i].type # "EdgeResponse"
  <2>1. \A k \in DOMAIN g : g[k].type # "EdgeResponse"
    BY <1>1 DEF Frugal, Is
  <2> HIDE DEF g
  <2>2. /\ \A k \in DOMAIN g : (g \o a)[k] = g[k]
        /\ \A j \in DOMAIN a : (g \o a)[Len(g) + j] = a[j]
        /\ i \in DOMAIN g \/ \E j \in DOMAIN a : i = Len(g) + j
    <3>1. g \in Seq(Message) /\ a \in Seq(Message) /\ i \in DOMAIN (g \o a)
      BY <1>2, <1>3, <1>9
    <3> QED BY ONLY <3>1, Joined
  <2> QED BY <1>4, <2>1, <2>2 DEF Is
<1>10. Frugal(s)'
  <2>1. \A i \in DOMAIN link'[s].ingress : link'[s].ingress[i].type # "EdgeResponse"
    BY <1>6, <1>9
  <2>2. mode'[s] = "fence" => fences[s].started < MaxFences[s]
    BY <1>1 DEF Frugal
  <2>3. /\ fault[s] # "capacity"
        /\ co[s].progress = 0 => co[s].local = 0 /\ co[s].permit = 0
        /\ link[s].sentMark = -1 => link[s].sentProgress = 0 /\ link[s].waiting = 0
        /\ link[s].sentMark # -1 => link[s].sentProgress <= link[s].sentMark
        /\ serial[s].enabled /\ serial[s].internal => link[s].settled <= serial[s].target
        /\ fences[s].started <= MaxFences[s] /\ fences[s].seen <= MaxFences[Other(s)]
        /\ Len(fences[s].owed) <= fences[s].seen
    BY <1>1 DEF Frugal, Clocking
  <2> QED BY <1>6, <2>1, <2>2, <2>3 DEF Frugal, Clocking, Is
<1>11. Frugal(o)'
  BY <1>1, <1>5, FrugalSame
<1>12. \A t \in Sides :
         /\ link'[t].sentProgress = link[t].sentProgress /\ link'[t].waiting = link[t].waiting
         /\ link'[t].sentMark = link[t].sentMark
  BY <1>5, <1>6, Peers
<1> QED BY <1>7, <1>8, <1>10, <1>11, <1>12, QuietKeeps

\* There is room for what a pump takes.
LEMMA PumpRoomy ==
  ASSUME Ample, IInv, RInv, NEW s \in Sides, NEW n \in Polled(s),
         PumpBefore(s, n) \/ PumpEnd(s, n) \/ PumpFence(s, n) \/ PumpWait(s, n)
  PROVE  RInv'
<1> DEFINE o == Other(s)
           w == Incoming(s)
<1>1. /\ o \in Sides /\ o # s /\ Other(o) = s
      /\ Shape /\ Position(s) /\ Placed(o) /\ w = wire[o] /\ w \in Seq(Message)
      /\ co[s].permit \in Nat
  BY Peers, Sidewise, Typed, Numbers DEF Incoming
<1>2. PICK m \in {"before", "wait", "end", "fence"} :
        /\ pc[s] = "starved" \/ AtBoundary(s)
        /\ Pump(s, m, n)
        /\ m = "fence" => fences[s].started < MaxFences[s]
  BY DEF PumpBefore, PumpEnd, PumpFence, PumpWait
<1>3. n \in 0..Len(w) /\ n \in Nat
  BY <1>1, Constants, Elements DEF Polled
<1>4. link[s].waiting = 0 /\ open[s]
  BY <1>1, <1>2 DEF Position, AtBoundary, Pump, Usable
<1> DEFINE staged == SubSeq(Incoming(s), 1, n)
           responses == {i \in 1..n : staged[i].type = "EdgeResponse"}
<1>5. \A i \in 1..n : staged[i] = w[i]
  BY <1>1, <1>3, Divided
<1>6. \A i \in DOMAIN w : ~Is(w, i, "EdgeResponse")
  BY <1>1, <1>4 DEF Placed, Answer
<1>7. \A i \in 1..n : i \in DOMAIN w
  BY <1>1, <1>3, Elements
<1>8. \A i \in 1..n : Incoming(s)[i].type # "EdgeResponse" /\ staged[i].type # "EdgeResponse"
  BY <1>5, <1>6, <1>7 DEF Is
<1>9. responses = {}
  BY <1>8
<1>10. ~(n > 0 /\ Backlog(s) + n > Capacity)
  <2>1. SUFFICES ASSUME n > 0, Backlog(s) + n > Capacity
                 PROVE  FALSE
    OBVIOUS
  <2>2. n \in 1..Len(Incoming(s))
    BY <1>1, <1>3, <2>1, Elements
  <2>3. Backlog(s) + n <= Capacity
    BY <1>4, <1>8, <2>2, RoomEnough
  <2>4. Backlog(s) + n \in Int /\ Capacity \in Int
    BY <1>3, Constants, BacklogCounts
  <2> QED BY ONLY <2>1, <2>3, <2>4
<1>11. /\ link' = [link EXCEPT ![s].ingress = @ \o SubSeq(Incoming(s), 1, n)]
       /\ wire' = [wire EXCEPT ![Other(s)] = SubSeq(@, n + 1, Len(@))]
       /\ mode' = [mode EXCEPT ![s] = m]
       /\ co' = co /\ serial' = serial /\ fences' = fences /\ open' = open /\ fault' = fault
  BY <1>2, <1>9, <1>10 DEF Pump
<1>12. wire' = [wire EXCEPT ![Other(s)] = SubSeq(Incoming(s), n + 1, Len(Incoming(s)))]
  BY <1>1, <1>11 DEF Incoming
<1>13. mode'[s] = m /\ \A t \in Sides : t # s => mode'[t] = mode[t]
  BY <1>1, <1>11 DEF Shape
<1> QED BY <1>2, <1>3, <1>8, <1>11, <1>12, <1>13, StagedRoomy

\* And for what a side takes while it waits for its response.
LEMMA StageWhileWaitingRoomy ==
  ASSUME Ample, IInv, RInv, NEW s \in Sides, StageWhileWaiting(s)
  PROVE  RInv'
<1> DEFINE w == Incoming(s)
<1>1. /\ Shape /\ w \in Seq(Message) /\ w # <<>> /\ open[s]
      /\ Head(w).type # "EdgeResponse" /\ link[s].ingress \in Seq(Message)
  BY Sidewise, Typed DEF Incoming, StageWhileWaiting, Replying, Usable
<1>2. 1 \in DOMAIN w /\ Head(w) = w[1] /\ Len(w) \in Nat /\ 1 \in 1..Len(w) /\ 1 \in 0..Len(w) /\ w[1] \in Message
  BY <1>1, Elements
<1>3. \A i \in 1..1 : Incoming(s)[i].type # "EdgeResponse"
  BY <1>1, <1>2
<1>4. ~(Backlog(s) >= Capacity)
  <2>1. Backlog(s) + 1 <= Capacity
    BY <1>1, <1>2, <1>3, RoomEnough
  <2>2. Backlog(s) \in Int /\ Capacity \in Int
    BY Constants, BacklogCounts
  <2> QED BY ONLY <2>1, <2>2
<1>5. /\ link' = [link EXCEPT ![s].ingress = Append(@, Head(w))]
      /\ wire' = [wire EXCEPT ![Other(s)] = Tail(@)]
      /\ mode' = mode
      /\ co' = co /\ serial' = serial /\ fences' = fences /\ open' = open /\ fault' = fault
  BY <1>4 DEF StageWhileWaiting
<1>6. Append(link[s].ingress, Head(w)) = link[s].ingress \o SubSeq(w, 1, 1)
  <2>1. Append(link[s].ingress, w[1]) = link[s].ingress \o <<w[1]>>
    BY <1>1, <1>2, AppendIsConcat
  <2>2. SubSeq(w, 1, 1) = <<w[1]>>
    <3>1. SubSeq(w, 1, 1) = <<w[1]>> \o SubSeq(w, 1 + 1, 1)
      BY <1>1, <1>2, SubSeqRecursiveFirst
    <3>2. SubSeq(w, 1 + 1, 1) = <<>>
      BY SubSeqEmpty
    <3>3. <<w[1]>> \in Seq(Message)
      BY <1>2
    <3> QED BY <3>1, <3>2, <3>3, ConcatEmptySeq
  <2> QED BY <1>2, <2>1, <2>2
<1>7. Tail(w) = SubSeq(w, 1 + 1, Len(w))
  BY <1>1, TailIsSubSeq
<1>8. /\ link' = [link EXCEPT ![s].ingress = @ \o SubSeq(Incoming(s), 1, 1)]
      /\ wire' = [wire EXCEPT ![Other(s)] = SubSeq(Incoming(s), 1 + 1, Len(Incoming(s)))]
  BY <1>1, <1>5, <1>6, <1>7 DEF Shape, Incoming
<1> QED BY <1>2, <1>3, <1>5, <1>8, StagedRoomy

-----------------------------------------------------------------------------
(* Consuming *)

\* The first message that is on the way is cut off.
LEMMA Consumed ==
  ASSUME IInv, RInv, NEW s \in Sides, NEW type, Consuming(s, type), type # "EdgeResponse", Drop(s),
         mode' = mode, serial' = serial, open' = open, wire' = wire, fault' = fault,
         co'[Other(s)] = co[Other(s)], co'[s].local = co[s].local, co'[s].permit = co[s].permit,
         co[s].progress # 0 => co'[s].progress # 0,
         fences'[Other(s)] = fences[Other(s)], fences'[s].started = fences[s].started,
         fences'[s].seen <= MaxFences[Other(s)], Len(fences'[s].owed) <= fences'[s].seen,
         Extra(link[s], fences'[s]) = Extra(link[s], fences[s]),
         Room(Tail(link[s].ingress) \o wire[Other(s)], From(co'[s]), link[Other(s)].sentProgress,
              Extra(link[Other(s)], fences[Other(s)]), link[Other(s)].waiting)
  PROVE  RInv'
<1> DEFINE o == Other(s)
           g == link[s].ingress
<1>1. o \in Sides /\ o # s /\ Other(o) = s /\ Shape /\ Frugal(s) /\ Frugal(o)
  BY Peers, Sidewise, Roomwise
<1>2. open[s] /\ g # <<>> /\ g \in Seq(Message)
  BY <1>1, Opening, Typed
<1>3. /\ link'[o] = link[o] /\ link'[s].settled = link[s].settled /\ link'[s].waiting = link[s].waiting
      /\ link'[s].sentProgress = link[s].sentProgress /\ link'[s].sentMark = link[s].sentMark
      /\ Stream(s)' = Tail(g) \o wire[o] /\ Stream(o)' = Stream(o)
  BY <1>1, <1>2, Dropped
<1>4. link'[s].ingress = Tail(g)
  <2>1. link'[s] = [link[s] EXCEPT !.ingress = Tail(g)] /\ link[s] \in Bookkeeping
    BY <1>1 DEF Drop, Shape
  <2> HIDE DEF g
  <2> QED BY ONLY <2>1 DEF Bookkeeping
<1>5. ASSUME NEW i \in DOMAIN Tail(g)
      PROVE  Tail(g)[i].type # "EdgeResponse"
  <2>1. \A k \in DOMAIN g : g[k].type # "EdgeResponse"
    BY <1>1 DEF Frugal, Is
  <2> HIDE DEF g
  <2>2. /\ Tail(g) \in Seq(Message) /\ Len(Tail(g)) = Len(g) - 1 /\ Len(g) \in Nat
        /\ \A k \in 1..Len(Tail(g)) : Tail(g)[k] = g[k + 1]
    BY <1>2, HeadTailProperties, Elements
  <2>3. i \in 1..Len(Tail(g)) /\ DOMAIN g = 1..Len(g)
    BY <1>2, <2>2, Elements
  <2>4. i + 1 \in 1..Len(g)
    BY <2>2, <2>3
  <2> QED BY <2>1, <2>2, <2>3, <2>4
<1>6. Frugal(s)'
  <2>1. \A i \in DOMAIN link'[s].ingress : link'[s].ingress[i].type # "EdgeResponse"
    BY <1>4, <1>5
  <2>2. co'[s].progress = 0 => co'[s].local = 0 /\ co'[s].permit = 0
    BY <1>1 DEF Frugal
  <2>3. /\ fault[s] # "capacity"
        /\ link[s].sentMark = -1 => link[s].sentProgress = 0 /\ link[s].waiting = 0
        /\ link[s].sentMark # -1 => link[s].sentProgress <= link[s].sentMark
        /\ serial[s].enabled /\ serial[s].internal => link[s].settled <= serial[s].target
        /\ fences[s].started <= MaxFences[s]
        /\ mode[s] = "fence" => fences[s].started < MaxFences[s]
    BY <1>1 DEF Frugal, Clocking
  <2> QED BY <1>3, <2>1, <2>2, <2>3 DEF Frugal, Clocking, Is
<1>7. Frugal(o)'
  BY <1>1, <1>3, FrugalSame
<1>8. Roomy(s)'
  BY <1>3, RoomyNext
<1>9. open'[o] => Roomy(o)'
  <2>1. SUFFICES ASSUME open[o]
                 PROVE  Roomy(o)'
    OBVIOUS
  <2>2. Room(Stream(o), From(co[o]), link[s].sentProgress, Extra(link[s], fences[s]), link[s].waiting)
    BY <1>1, <2>1, Roomwise DEF Roomy
  <2>3. Extra(link'[s], fences'[s]) = Extra(link[s], fences[s])
    BY <1>3 DEF Extra
  <2> QED BY <1>1, <1>3, <2>2, <2>3, RoomyNext
<1> QED BY <1>6, <1>7, <1>8, <1>9, BothRoomy

\* What is cut off is the first message of what is on the way.
LEMMA Beginning ==
  ASSUME IInv, RInv, NEW s \in Sides, NEW type, Consuming(s, type)
  PROVE  /\ Cut(Tail(link[s].ingress) \o wire[Other(s)], Stream(s), 1)
         /\ Stream(s)[1] = Head1(s) /\ Stream(s)[1].type = type
         /\ Room(Stream(s), From(co[s]), link[Other(s)].sentProgress,
                 Extra(link[Other(s)], fences[Other(s)]), link[Other(s)].waiting)
         /\ From(co[s]) \in Int /\ link[Other(s)].sentProgress \in Nat
         /\ Extra(link[Other(s)], fences[Other(s)]) \in Nat
         /\ Numbered(Stream(s), co[s].edgeSequence, link[Other(s)].out, link[Other(s)].scheduled)
<1>1. /\ Other(s) \in Sides /\ Shape /\ Received(s) /\ open[s] /\ link[s].ingress # <<>>
      /\ Stream(s)[1] = Head1(s) /\ Head1(s).type = type
      /\ link[s].ingress \in Seq(Message) /\ wire[Other(s)] \in Seq(Message)
  BY Peers, Sidewise, Opening, Typed
<1>2. Cut(Tail(link[s].ingress) \o wire[Other(s)], Stream(s), 1)
  BY <1>1, CutHead DEF Stream
<1>3. /\ From(co[s]) \in Int /\ link[Other(s)].sentProgress \in Nat
      /\ Extra(link[Other(s)], fences[Other(s)]) \in Nat
  BY <1>1, Budget, Numbers
<1>4. Roomy(s)
  BY <1>1, Roomwise
<1> QED BY <1>1, <1>2, <1>3, <1>4 DEF Roomy, Received

\* A message that is neither a progress nor an edge leaves what follows as it was.
LEMMA RoomLess ==
  ASSUME NEW v, NEW w, NEW d, Cut(v, w, d), NEW from \in Int, NEW last \in Nat, NEW extra \in Nat,
         NEW waiting, Room(w, from, last, extra, waiting),
         w[d].type \notin {"Progress", "EdgeRequest"}
  PROVE  Room(v, from, last, extra, waiting)
<1>1. Asking(v) <=> Asking(w)
  <2>1. /\ \A i \in DOMAIN v : Place(i, d) \in DOMAIN w /\ v[i] = w[Place(i, d)]
        /\ \A k \in DOMAIN w : k # d => \E i \in DOMAIN v : Place(i, d) = k
    BY Kept
  <2> QED BY <2>1 DEF Asking, Is
<1>2. CASE waiting = 0 \/ Asking(w)
  BY <1>1, <1>2, SpacedLess, FiringLess DEF Room
<1>3. CASE ~(waiting = 0 \/ Asking(w))
  BY <1>1, <1>3, TrailingLess DEF Room
<1> QED BY <1>2, <1>3

\* The progress that is consumed is the new start.
LEMMA ConsumeProgressRoomy ==
  ASSUME IInv, RInv, NEW s \in Sides, ConsumeProgress(s)
  PROVE  RInv'
<1> DEFINE o == Other(s)
           at == Head1(s).at
           w == Stream(s)
           v == Tail(link[s].ingress) \o wire[o]
           from == From(co[s])
           last == link[o].sentProgress
           extra == Extra(link[o], fences[o])
           waiting == link[o].waiting
<1>1. o \in Sides /\ o # s /\ Shape /\ Frugal(s) /\ Consuming(s, "Progress") /\ Head1(s) \in Message
  BY Peers, Sidewise, Roomwise, Opening DEF ConsumeProgress
<1>2. /\ Cut(v, w, 1) /\ w[1] = Head1(s) /\ w[1].type = "Progress" /\ Room(w, from, last, extra, waiting)
      /\ from \in Int /\ last \in Nat /\ extra \in Nat
  BY <1>1, Beginning
<1>3. at \in Nat /\ w[1].at = at
  <2>1. Head1(s).type = "Progress"
    BY <1>2
  <2> QED BY <1>1, <1>2, <2>1, Fields
<1> HIDE DEF w, v, from, last, extra, waiting
<1>4. Room(v, at, last, extra, waiting)
  <2>1. Asking(v) <=> Asking(w)
    <3>1. /\ \A i \in DOMAIN v : Place(i, 1) \in DOMAIN w /\ v[i] = w[Place(i, 1)]
          /\ \A k \in DOMAIN w : k # 1 => \E i \in DOMAIN v : Place(i, 1) = k
      BY <1>2, Kept
    <3> QED BY <1>2, <3>1 DEF Asking, Is
  <2> HIDE DEF at
  <2>2. CASE waiting = 0 \/ Asking(w)
    <3>1. Spaced(w, from, last, extra) /\ Firing(w, from, last)
      BY <1>2, <2>2 DEF Room
    <3>2. Spaced(v, at, last, extra)
      BY <1>2, <1>3, <3>1, SpacedNext
    <3>3. Firing(v, at, last)
      BY <1>2, <1>3, <3>1, FiringNext
    <3> QED BY <2>1, <2>2, <3>2, <3>3 DEF Room
  <2>3. CASE ~(waiting = 0 \/ Asking(w))
    <3>1. Trailing(w, from, last)
      BY <1>2, <2>3 DEF Room
    <3>2. Trailing(v, at, last)
      BY <1>2, <3>1, TrailingLess
    <3> QED BY <2>1, <2>3, <3>2 DEF Room
  <2> QED BY <2>2, <2>3
<1>5. CASE (co[s].progress = 0 => at = 0) /\ at >= co[s].peer
  <2>1. /\ co' = [co EXCEPT ![s].peer = at, ![s].progress = @ + 1] /\ Drop(s)
        /\ mode' = mode /\ serial' = serial /\ fences' = fences /\ open' = open
        /\ wire' = wire /\ fault' = fault
    BY <1>5 DEF ConsumeProgress
  <2>2. /\ co'[s] = [co[s] EXCEPT !.peer = at, !.progress = @ + 1] /\ co'[o] = co[o]
        /\ co[s] \in Coordinator
    BY <1>1, <2>1 DEF Shape
  <2>3. /\ co'[s].peer = at /\ co'[s].progress = co[s].progress + 1
        /\ co'[s].local = co[s].local /\ co'[s].permit = co[s].permit
    <3> HIDE DEF at
    <3> QED BY ONLY <2>2 DEF Coordinator
  <2>4. co[s].progress \in Nat /\ co'[s].progress # 0
    <3>1. co[s].progress \in Nat
      BY <1>1, Numbers
    <3> QED BY <2>3, <3>1
  <2>5. From(co'[s]) = at
    BY <2>3, <2>4 DEF From
  <2>6. /\ fences'[s].seen <= MaxFences[o] /\ Len(fences'[s].owed) <= fences'[s].seen
        /\ fences'[s] = fences[s] /\ fences'[o] = fences[o]
    BY <1>1, <2>1 DEF Frugal
  <2>7. Room(Tail(link[s].ingress) \o wire[o], From(co'[s]), link[o].sentProgress,
             Extra(link[o], fences[o]), link[o].waiting)
    BY <1>4, <2>5 DEF v, last, extra, waiting
  <2> QED BY <1>1, <2>1, <2>2, <2>3, <2>4, <2>6, <2>7, Consumed
<1>6. CASE ~((co[s].progress = 0 => at = 0) /\ at >= co[s].peer)
  <2>1. FailWith(s, "protocol", "validation")
    BY <1>6 DEF ConsumeProgress
  <2> QED BY <2>1, FailRoomy
<1> QED BY <1>5, <1>6

\* When the edge is consumed, all that follows is its watermark and a progress.
LEMMA ConsumeEdgeRequestRoomy ==
  ASSUME IInv, RInv, NEW s \in Sides, ConsumeEdgeRequest(s)
  PROVE  RInv'
<1> DEFINE o == Other(s)
           w == Stream(s)
           v == Tail(link[s].ingress) \o wire[o]
           from == From(co[s])
           last == link[o].sentProgress
           extra == Extra(link[o], fences[o])
           waiting == link[o].waiting
           edge == [at |-> Head1(s).at, seq |-> Head1(s).id]
<1>1. o \in Sides /\ o # s /\ Shape /\ Frugal(s) /\ Placed(s) /\ Consuming(s, "EdgeRequest") /\ open[s]
  BY Peers, Sidewise, Roomwise, Opening DEF ConsumeEdgeRequest
<1>2. /\ Cut(v, w, 1) /\ w[1].type = "EdgeRequest" /\ Room(w, from, last, extra, waiting)
      /\ from \in Int /\ last \in Nat
      /\ Numbered(w, co[s].edgeSequence, link[o].out, link[o].scheduled)
  BY <1>1, Beginning
<1>3. 1 \in DOMAIN w /\ Asking(w)
  <2> HIDE DEF w, v
  <2>1. 1 \in DOMAIN w
    BY <1>2, Kept
  <2> QED BY <1>2, <2>1 DEF Asking, Is
<1>4. waiting # 0
  BY <1>1, <1>3 DEF Placed
<1> HIDE DEF w, v, from, last, extra, waiting
<1>5. ~Asking(v)
  <2>1. SUFFICES ASSUME NEW i \in DOMAIN v, Is(v, i, "EdgeRequest")
                 PROVE  FALSE
    BY DEF Asking
  <2>2. Place(i, 1) \in DOMAIN w /\ Place(i, 1) # 1 /\ v[i] = w[Place(i, 1)]
    BY <1>2, Kept
  <2> QED BY <1>2, <1>3, <2>1, <2>2 DEF Numbered, Is
<1>6. Room(v, from, last, extra, waiting)
  <2>1. Firing(w, from, last)
    BY <1>2, <1>3 DEF Room
  <2>2. Trailing(v, from, last)
    BY <1>2, <2>1, FiringEnds
  <2> QED BY <1>4, <1>5, <2>2 DEF Room
<1>7. CASE edge.seq # co[s].edgeSequence + 1 \/ edge.at <= co[s].mark
  <2>1. FailWith(s, "protocol", "closed")
    BY <1>7 DEF ConsumeEdgeRequest, Fail
  <2> QED BY <2>1, FailRoomy
<1>8. CASE ~(edge.seq # co[s].edgeSequence + 1 \/ edge.at <= co[s].mark) /\ Late(edge, co[s].local)
  <2>1. FailWith(s, "lateness", "receive_edge.lateness")
    BY <1>8 DEF ConsumeEdgeRequest
  <2> QED BY <2>1, FailRoomy
<1>9. CASE ~(edge.seq # co[s].edgeSequence + 1 \/ edge.at <= co[s].mark) /\ ~Late(edge, co[s].local)
  <2> DEFINE edges == co[s].edges \cup {edge}
  <2>1. /\ co' = [co EXCEPT ![s].edges = edges, ![s].edgeSequence = edge.seq, ![s].lastEdgeAt = edge.at]
        /\ Drop(s)
        /\ mode' = mode /\ serial' = serial /\ fences' = fences /\ open' = open
        /\ wire' = wire /\ fault' = fault
    BY <1>9 DEF ConsumeEdgeRequest
  <2> HIDE DEF edge, edges
  <2>2. /\ co'[s] = [co[s] EXCEPT !.edges = edges, !.edgeSequence = edge.seq, !.lastEdgeAt = edge.at]
        /\ co'[o] = co[o] /\ co[s] \in Coordinator
    BY <1>1, <2>1 DEF Shape
  <2>3. /\ co'[s].peer = co[s].peer /\ co'[s].progress = co[s].progress
        /\ co'[s].local = co[s].local /\ co'[s].permit = co[s].permit
    BY ONLY <2>2 DEF Coordinator
  <2>4. From(co'[s]) = from
    BY <2>3 DEF From, from
  <2>5. /\ fences'[s].seen <= MaxFences[o] /\ Len(fences'[s].owed) <= fences'[s].seen
        /\ fences'[s] = fences[s] /\ fences'[o] = fences[o]
    BY <1>1, <2>1 DEF Frugal
  <2>6. Room(Tail(link[s].ingress) \o wire[o], From(co'[s]), link[o].sentProgress,
             Extra(link[o], fences[o]), link[o].waiting)
    BY <1>6, <2>4 DEF v, last, extra, waiting
  <2> QED BY <1>1, <2>1, <2>2, <2>3, <2>5, <2>6, Consumed
<1> QED BY <1>7, <1>8, <1>9

\* A watermark is consumed.
LEMMA ConsumeEmissionCompleteRoomy ==
  ASSUME IInv, RInv, NEW s \in Sides, ConsumeEmissionComplete(s)
  PROVE  RInv'
<1> DEFINE o == Other(s)
           w == Stream(s)
           v == Tail(link[s].ingress) \o wire[o]
           from == From(co[s])
           last == link[o].sentProgress
           extra == Extra(link[o], fences[o])
           waiting == link[o].waiting
           m == Head1(s)
<1>1. o \in Sides /\ o # s /\ Shape /\ Frugal(s) /\ Consuming(s, "EmissionComplete")
  BY Peers, Sidewise, Roomwise DEF ConsumeEmissionComplete
<1>2. /\ Cut(v, w, 1) /\ w[1].type = "EmissionComplete" /\ Room(w, from, last, extra, waiting)
      /\ from \in Int /\ last \in Nat /\ extra \in Nat
  BY <1>1, Beginning
<1> HIDE DEF w, v, from, last, extra, waiting
<1>3. Room(v, from, last, extra, waiting)
  BY <1>2, RoomLess
<1>4. CASE m.id = co[s].edgeSequence /\ m.at >= co[s].mark
  <2>1. /\ co' = [co EXCEPT ![s].mark = m.at, ![s].markSequence = m.id] /\ Drop(s)
        /\ mode' = mode /\ serial' = serial /\ fences' = fences /\ open' = open
        /\ wire' = wire /\ fault' = fault
    BY <1>4 DEF ConsumeEmissionComplete
  <2> HIDE DEF m
  <2>2. /\ co'[s] = [co[s] EXCEPT !.mark = m.at, !.markSequence = m.id]
        /\ co'[o] = co[o] /\ co[s] \in Coordinator
    BY <1>1, <2>1 DEF Shape
  <2>3. /\ co'[s].peer = co[s].peer /\ co'[s].progress = co[s].progress
        /\ co'[s].local = co[s].local /\ co'[s].permit = co[s].permit
    BY ONLY <2>2 DEF Coordinator
  <2>4. From(co'[s]) = from
    BY <2>3 DEF From, from
  <2>5. /\ fences'[s].seen <= MaxFences[o] /\ Len(fences'[s].owed) <= fences'[s].seen
        /\ fences'[s] = fences[s] /\ fences'[o] = fences[o]
    BY <1>1, <2>1 DEF Frugal
  <2>6. Room(Tail(link[s].ingress) \o wire[o], From(co'[s]), link[o].sentProgress,
             Extra(link[o], fences[o]), link[o].waiting)
    BY <1>3, <2>4 DEF v, last, extra, waiting
  <2> QED BY <1>1, <2>1, <2>2, <2>3, <2>5, <2>6, Consumed
<1>5. CASE ~(m.id = co[s].edgeSequence /\ m.at >= co[s].mark)
  <2>1. FailWith(s, "protocol", "closed")
    BY <1>5 DEF ConsumeEmissionComplete, Fail
  <2> QED BY <2>1, FailRoomy
<1> QED BY <1>4, <1>5

\* A fence that is seen is owed: nothing more may be on the way for it.
LEMMA ConsumeFenceRoomy ==
  ASSUME IInv, RInv, NEW s \in Sides, ConsumeFence(s)
  PROVE  RInv'
<1> DEFINE o == Other(s)
           w == Stream(s)
           v == Tail(link[s].ingress) \o wire[o]
           from == From(co[s])
           last == link[o].sentProgress
           extra == Extra(link[o], fences[o])
           waiting == link[o].waiting
           m == Head1(s)
           f == fences[s]
           debt == [id |-> m.id, through |-> m.through]
<1>1. /\ o \in Sides /\ o # s /\ Shape /\ Frugal(s) /\ Frugal(o) /\ Consuming(s, "Fence") /\ Received(s)
      /\ open[s] /\ m \in Message /\ m.type = "Fence"
  BY Peers, Sidewise, Roomwise, Opening DEF ConsumeFence
<1>2. /\ Cut(v, w, 1) /\ w[1] = m /\ w[1].type = "Fence" /\ Room(w, from, last, extra, waiting)
      /\ from \in Int /\ last \in Nat /\ extra \in Nat
  BY <1>1, Beginning
<1>3. Fenced(w, f.seen, fences[o].started, fences[o].sent)
  BY <1>1 DEF Received
<1> HIDE DEF w, v, from, last, extra, waiting
<1>4. Room(v, from, last, extra, waiting)
  BY <1>2, RoomLess
<1>5. m.id <= MaxFences[o] /\ m.id \in Nat /\ m.through \in Nat
  <2>1. 1 \in DOMAIN w
    BY <1>2, Kept
  <2>2. m.id <= fences[o].started
    BY <1>2, <1>3, <2>1 DEF Fenced, Is
  <2>3. m.id \in Nat /\ m.through \in Nat
    BY <1>1, Fields
  <2>4. fences[o].started <= MaxFences[o] /\ fences[o].started \in Nat /\ MaxFences[o] \in Nat
    BY <1>1, Numbers, CableAssumption DEF Frugal
  <2> HIDE DEF m
  <2> QED BY <2>2, <2>3, <2>4
<1>6. f \in Fencing /\ f.owed \in Seq([id : Nat, through : Nat]) /\ f.seen \in Nat /\ f.started \in Nat
  BY <1>1, Numbers DEF Shape
<1>7. CASE m.id = f.seen + 1 /\ m.through = co[s].edgeSequence /\ Len(f.owed) < Capacity
  <2>1. /\ fences' = [fences EXCEPT ![s].seen = m.id, ![s].owed = Append(@, debt)] /\ Drop(s)
        /\ mode' = mode /\ co' = co /\ serial' = serial /\ open' = open
        /\ wire' = wire /\ fault' = fault
    BY <1>7 DEF ConsumeFence
  <2>2. fences'[s] = [f EXCEPT !.seen = m.id, !.owed = Append(f.owed, debt)] /\ fences'[o] = fences[o]
    BY <1>1, <2>1 DEF Shape
  <2>3. debt \in [id : Nat, through : Nat]
    BY <1>5
  <2>4. Len(Append(f.owed, debt)) = Len(f.owed) + 1 /\ Len(f.owed) \in Nat
    BY <1>6, <2>3, AppendProperties, LenProperties
  <2>5. /\ fences'[s].seen = m.id /\ fences'[s].owed = Append(f.owed, debt)
        /\ fences'[s].started = f.started
    <3> DEFINE next == Append(f.owed, debt)
    <3>1. f \in Fencing /\ fences'[s] = [f EXCEPT !.seen = m.id, !.owed = next]
      BY <1>6, <2>2
    <3> HIDE DEF next, f, m
    <3>2. fences'[s].seen = m.id /\ fences'[s].owed = next /\ fences'[s].started = f.started
      BY ONLY <3>1 DEF Fencing
    <3> QED BY <3>2 DEF next
  <2>6. Len(f.owed) <= f.seen
    BY <1>1 DEF Frugal
  <2> DEFINE k == Len(f.owed)
             x == f.seen
             y == f.started
             z == IF link[s].sentMark = -1 THEN 0 ELSE 1
  <2>7. k \in Nat /\ x \in Nat /\ y \in Nat /\ z \in Nat /\ k <= x
    BY <1>6, <2>4, <2>6
  <2>8. Extra(link[s], fences'[s]) = z + y + m.id - (k + 1) /\ Extra(link[s], f) = z + y + x - k
    BY <2>4, <2>5 DEF Extra
  <2>9. m.id = x + 1 /\ Len(fences'[s].owed) = k + 1
    BY <1>7, <2>4, <2>5
  <2> HIDE DEF k, x, y, z, m
  <2>10. Extra(link[s], fences'[s]) = Extra(link[s], f) /\ k + 1 <= x + 1
    BY <2>7, <2>8, <2>9
  <2>11. fences'[s].seen <= MaxFences[o] /\ Len(fences'[s].owed) <= fences'[s].seen
    BY <1>5, <2>5, <2>9, <2>10
  <2>12. Room(Tail(link[s].ingress) \o wire[o], From(co'[s]), link[o].sentProgress,
              Extra(link[o], fences[o]), link[o].waiting)
    BY <1>4, <2>1 DEF v, last, extra, waiting, from
  <2> QED BY <1>1, <2>1, <2>2, <2>5, <2>10, <2>11, <2>12, Consumed
<1>8. CASE ~(m.id = f.seen + 1 /\ m.through = co[s].edgeSequence /\ Len(f.owed) < Capacity)
  <2>1. FailWith(s, "protocol", "closed")
    BY <1>8 DEF ConsumeFence, Fail
  <2> QED BY <2>1, FailRoomy
<1> QED BY <1>7, <1>8

\* An acknowledgement is consumed.
LEMMA ConsumeFenceAckRoomy ==
  ASSUME IInv, RInv, NEW s \in Sides, ConsumeFenceAck(s)
  PROVE  RInv'
<1> DEFINE o == Other(s)
           w == Stream(s)
           v == Tail(link[s].ingress) \o wire[o]
           from == From(co[s])
           last == link[o].sentProgress
           extra == Extra(link[o], fences[o])
           waiting == link[o].waiting
           m == Head1(s)
           f == fences[s]
           sent == [id |-> m.id, through |-> m.through, acked |-> FALSE]
           next == (f.sent \ {sent}) \cup {[sent EXCEPT !.acked = TRUE]}
<1>1. o \in Sides /\ o # s /\ Shape /\ Frugal(s) /\ Consuming(s, "FenceAck") /\ f \in Fencing
  BY Peers, Sidewise, Roomwise, Typed DEF ConsumeFenceAck
<1>2. /\ Cut(v, w, 1) /\ w[1].type = "FenceAck" /\ Room(w, from, last, extra, waiting)
      /\ from \in Int /\ last \in Nat /\ extra \in Nat
  BY <1>1, Beginning
<1> HIDE DEF w, v, from, last, extra, waiting
<1>3. Room(v, from, last, extra, waiting)
  BY <1>2, RoomLess
<1>4. CASE sent \in f.sent
  <2>1. /\ fences' = [fences EXCEPT ![s].sent = next] /\ Drop(s)
        /\ mode' = mode /\ co' = co /\ serial' = serial /\ open' = open
        /\ wire' = wire /\ fault' = fault
    BY <1>4 DEF ConsumeFenceAck
  <2> HIDE DEF next
  <2>2. fences'[s] = [f EXCEPT !.sent = next] /\ fences'[o] = fences[o]
    BY <1>1, <2>1 DEF Shape
  <2>3. fences'[s].seen = f.seen /\ fences'[s].owed = f.owed /\ fences'[s].started = f.started
    <3> HIDE DEF f
    <3> QED BY ONLY <1>1, <2>2 DEF Fencing
  <2>4. /\ fences'[s].seen <= MaxFences[o] /\ Len(fences'[s].owed) <= fences'[s].seen
        /\ Extra(link[s], fences'[s]) = Extra(link[s], fences[s])
    BY <1>1, <2>3 DEF Frugal, Extra
  <2>5. Room(Tail(link[s].ingress) \o wire[o], From(co'[s]), link[o].sentProgress,
             Extra(link[o], fences[o]), link[o].waiting)
    BY <1>3, <2>1 DEF v, last, extra, waiting, from
  <2> QED BY <1>1, <2>1, <2>2, <2>3, <2>4, <2>5, Consumed
<1>5. CASE ~(sent \in f.sent)
  <2>1. FailWith(s, "protocol", "closed")
    BY <1>5 DEF ConsumeFenceAck, Fail
  <2> QED BY <2>1, FailRoomy
<1> QED BY <1>4, <1>5

\* Whatever is consumed, there is room.
LEMMA ConsumeRoomy ==
  ASSUME IInv, RInv, NEW s \in Sides, Consume(s)
  PROVE  RInv'
BY ConsumeProgressRoomy, ConsumeEdgeRequestRoomy, ConsumeEmissionCompleteRoomy, ConsumeFenceRoomy,
   ConsumeFenceAckRoomy DEF Consume

-----------------------------------------------------------------------------
(* An edge and its answer *)

\* An edge goes with its watermark and at most one progress, which comes last.
LEMMA Volleys ==
  ASSUME NEW n \in Nat, NEW at \in Nat, NEW p \in Nat, NEW rest,
         rest = <<>> \/ rest = <<Progress(p)>>
  PROVE  LET u == Volley(n, at, rest) IN
         /\ u \in Seq(Message) /\ Len(u) \in Nat /\ Len(u) <= 3 /\ (Len(u) = 3 => rest # <<>>)
         /\ Asking(u)
         /\ \A j \in DOMAIN u : /\ Is(u, j, "EdgeRequest") => j = 1
                                /\ Is(u, j, "Progress") => rest # <<>> /\ u[j].at = p /\ Len(u) - j <= 0
<1> DEFINE a == <<EdgeRequest(n, at), EmissionComplete(at, n)>>
           u == Volley(n, at, rest)
<1>1. /\ EdgeRequest(n, at) \in Message /\ EmissionComplete(at, n) \in Message /\ Progress(p) \in Message
      /\ EdgeRequest(n, at).type = "EdgeRequest" /\ EmissionComplete(at, n).type = "EmissionComplete"
      /\ Progress(p).type = "Progress" /\ Progress(p).at = p
  BY Messages
<1>2. /\ a \in Seq(Message) /\ Len(a) = 2 /\ a[1] = EdgeRequest(n, at)
      /\ a[2] = EmissionComplete(at, n) /\ DOMAIN a = 1..2
  <2>1. DOMAIN a = 1..Len(a)
    OBVIOUS
  <2> QED BY <1>1, <2>1
<1>3. /\ rest \in Seq(Message) /\ Len(rest) \in 0..1 /\ DOMAIN rest = 1..Len(rest)
      /\ (Len(rest) = 1 => rest # <<>>)
      /\ \A j \in DOMAIN rest : rest # <<>> /\ rest[j] = Progress(p)
  <2>1. CASE rest = <<>>
    BY <2>1, EmptySeq
  <2>2. CASE rest = <<Progress(p)>>
    <3>1. /\ <<Progress(p)>> \in Seq(Message) /\ DOMAIN <<Progress(p)>> = 1..1
          /\ <<Progress(p)>>[1] = Progress(p) /\ <<Progress(p)>> # <<>> /\ Len(<<Progress(p)>>) = 1
      BY <1>1
    <3> QED BY <2>2, <3>1
  <2> QED BY <2>1, <2>2
<1>4. u = a \o rest
  BY DEF Volley
<1> HIDE DEF a, u
<1>5. /\ u \in Seq(Message)
      /\ \A i \in DOMAIN a : i \in DOMAIN u /\ u[i] = a[i]
      /\ \A j \in DOMAIN rest : u[Len(a) + j] = rest[j]
      /\ \A i \in DOMAIN u : i \in DOMAIN a \/ \E j \in DOMAIN rest : i = Len(a) + j
  BY <1>2, <1>3, <1>4, Joined
<1>6. Len(u) \in Nat /\ Len(u) = 2 + Len(rest) /\ Len(u) <= 3 /\ (Len(u) = 3 => rest # <<>>)
  <2>1. Len(a \o rest) = Len(a) + Len(rest)
    BY <1>2, <1>3, ConcatProperties
  <2> DEFINE x == Len(u)
             y == Len(rest)
  <2>2. x = 2 + y /\ y \in 0..1 /\ (y = 1 => rest # <<>>)
    BY <1>2, <1>3, <1>4, <2>1
  <2> HIDE DEF x, y
  <2>3. x \in Nat /\ x = 2 + y /\ x <= 3 /\ (x = 3 => rest # <<>>)
    BY ONLY <2>2
  <2> QED BY <2>3 DEF x, y
<1>7. Asking(u)
  <2>1. 1 \in DOMAIN u /\ u[1].type = "EdgeRequest"
    BY <1>1, <1>2, <1>5
  <2> QED BY <2>1 DEF Asking, Is
<1>8. ASSUME NEW j \in DOMAIN u
      PROVE  /\ u[j].type = "EdgeRequest" => j = 1
             /\ u[j].type = "Progress" => rest # <<>> /\ u[j].at = p /\ Len(u) - j <= 0
  <2>1. CASE j \in DOMAIN a
    <3>1. (j = 1 /\ u[j] = EdgeRequest(n, at)) \/ (j = 2 /\ u[j] = EmissionComplete(at, n))
      BY <1>2, <1>5, <2>1
    <3> QED BY <1>1, <3>1
  <2>2. CASE \E k \in DOMAIN rest : j = Len(a) + k
    <3>1. PICK k \in DOMAIN rest : j = Len(a) + k
      BY <2>2
    <3>2. u[j] = Progress(p) /\ rest # <<>>
      BY <1>3, <1>5, <3>1
    <3>3. Len(u) - j <= 0
      <4> DEFINE y == Len(rest)
      <4>1. y \in 0..1 /\ k \in 1..y /\ Len(u) = 2 + y /\ j = 2 + k
        BY <1>2, <1>3, <1>6, <3>1
      <4> HIDE DEF y
      <4>2. (2 + y) - (2 + k) <= 0
        BY ONLY <4>1
      <4> QED BY <4>1, <4>2
    <3> QED BY <1>1, <3>2, <3>3
  <2> QED BY <1>5, <2>1, <2>2
<1> QED BY <1>5, <1>6, <1>7, <1>8 DEF u, Is

\* What a side sends when an edge fires has been settled before the edge.
LEMMA FireEdgeRoomy ==
  ASSUME IInv, RInv, NEW s \in Sides, FireEdge(s)
  PROVE  RInv'
<1> DEFINE o == Other(s)
           l == link[s]
           n == l.out + 1
           at == serial[s].target
           p == l.settled
           rest == IF l.settled > l.sentProgress THEN <<Progress(l.settled)>> ELSE <<>>
           u == <<EdgeRequest(n, at), EmissionComplete(at, n)>> \o rest
           last == l.sentProgress
           next == IF rest = <<>> THEN l.sentProgress ELSE l.settled
           w == Stream(o)
           from == From(co[o])
           extra == Extra(l, fences[s])
           more == 1 + fences[s].started + fences[s].seen - Len(fences[s].owed)
<1>1. /\ o \in Sides /\ o # s /\ Other(o) = s /\ Shape /\ Frugal(s) /\ Frugal(o)
      /\ Received(o) /\ Placed(o) /\ Position(s) /\ Core(s)
      /\ pc[s] \in {"access", "boundary"} /\ EdgeDue(s)
  BY Peers, Sidewise, Roomwise DEF FireEdge
<1>2. /\ l.out \in Nat /\ p \in Nat /\ last \in Nat /\ l.sentMark \in Int
      /\ at \in Nat /\ l \in Bookkeeping /\ w \in Seq(Message) /\ co[o].peer \in Nat
      /\ n \in Nat /\ n # 0
  <2>1. /\ l.out \in Nat /\ p \in Nat /\ last \in Nat /\ l.sentMark \in Int
        /\ at \in Nat /\ l \in Bookkeeping /\ w \in Seq(Message) /\ co[o].peer \in Nat
    BY <1>1, Typed, Numbers
  <2>2. \A k \in Nat : k + 1 \in Nat /\ k + 1 # 0
    OBVIOUS
  <2> QED BY <2>1, <2>2
<1>3. l.waiting = 0 /\ Clocking(s) /\ at > l.sentMark /\ at > 0 /\ p <= at
  BY <1>1 DEF Position, Core, EdgeDue, Frugal
<1>4. CASE ~Usable(s)
  <2>1. SerialFault(s, "closed")
    BY <1>4 DEF FireEdge
  <2> QED BY <2>1, FailRoomy
<1>5. CASE Usable(s)
  <2>1. /\ Send(s, u)
        /\ link' = [link EXCEPT ![s].out = n, ![s].waiting = n, ![s].scheduled = at,
                                ![s].sentMark = at, ![s].sentProgress = next]
        /\ mode' = mode /\ co' = co /\ serial' = serial /\ fences' = fences /\ open' = open
        /\ fault' = fault
    <3>1. ~(at <= l.sentMark)
      BY <1>2, <1>3
    <3> QED BY <1>5, <3>1 DEF FireEdge
  <2>2. rest = <<>> \/ rest = <<Progress(p)>>
    OBVIOUS
  <2>3. next \in Nat /\ last <= next /\ (rest # <<>> => next = p /\ last < next) /\ next <= at
    <3>1. <<Progress(l.settled)>> # <<>>
      OBVIOUS
    <3>2. (rest = <<>> /\ next = last) \/ (rest # <<>> /\ next = p /\ p > last)
      BY <3>1
    <3>3. last <= at
      <4>1. (l.sentMark = -1 => last = 0) /\ (l.sentMark # -1 => last <= l.sentMark)
        BY <1>1 DEF Frugal
      <4> DEFINE m == l.sentMark
      <4>2. m \in Int /\ at \in Nat /\ last \in Nat /\ (m = -1 => last = 0) /\ (m # -1 => last <= m) /\ at > m
        BY <1>2, <1>3, <4>1
      <4> HIDE DEF m, last, at
      <4> QED BY ONLY <4>2
    <3>4. p \in Nat /\ last \in Nat /\ at \in Nat /\ p <= at
      BY <1>2, <1>3
    <3> HIDE DEF rest, next, last, p, at
    <3> QED BY ONLY <3>2, <3>3, <3>4
  <2>4. /\ u \in Seq(Message) /\ Len(u) \in Nat /\ Len(u) <= 3 /\ (Len(u) = 3 => rest # <<>>)
        /\ Asking(u)
        /\ \A j \in DOMAIN u : /\ Is(u, j, "EdgeRequest") => j = 1
                               /\ Is(u, j, "Progress") => rest # <<>> /\ u[j].at = p /\ Len(u) - j <= 0
    <3> DEFINE y == Volley(n, at, rest)
    <3>1. u = y
      BY DEF Volley
    <3>2. n \in Nat /\ at \in Nat /\ p \in Nat /\ (rest = <<>> \/ rest = <<Progress(p)>>)
      BY <1>2, <2>2
    <3> HIDE DEF n, at, rest, p, u
    <3>3. /\ y \in Seq(Message) /\ Len(y) \in Nat /\ Len(y) <= 3 /\ (Len(y) = 3 => rest # <<>>)
          /\ Asking(y)
          /\ \A j \in DOMAIN y : /\ Is(y, j, "EdgeRequest") => j = 1
                                 /\ Is(y, j, "Progress") => rest # <<>> /\ y[j].at = p /\ Len(y) - j <= 0
      BY ONLY <3>2, Volleys
    <3> QED BY <3>1, <3>3
  <2> HIDE DEF u, rest, n, next
  <2>5. /\ link'[s] = [l EXCEPT !.out = n, !.waiting = n, !.scheduled = at,
                                !.sentMark = at, !.sentProgress = next]
        /\ link'[o] = link[o]
    BY <1>1, <2>1 DEF Shape
  <2>6. /\ link'[s].waiting = n /\ link'[s].sentMark = at /\ link'[s].sentProgress = next
        /\ link'[s].ingress = l.ingress /\ link'[s].settled = p
    <3> HIDE DEF at, l
    <3> QED BY ONLY ZenonT(60), <1>2, <2>5 DEF Bookkeeping, p
  <2>7. Stream(o)' = w \o u /\ Stream(s)' = Stream(s)
    BY <1>1, <2>1, <2>4, <2>5, <2>6, Sending
  <2>8. Frugal(s)'
    <3>1. /\ at # -1 /\ next <= at
      BY <1>2, <2>3
    <3>2. /\ fault[s] # "capacity"
          /\ co[s].progress = 0 => co[s].local = 0 /\ co[s].permit = 0
          /\ \A i \in DOMAIN l.ingress : l.ingress[i].type # "EdgeResponse"
          /\ fences[s].started <= MaxFences[s] /\ fences[s].seen <= MaxFences[Other(s)]
          /\ mode[s] = "fence" => fences[s].started < MaxFences[s]
          /\ Len(fences[s].owed) <= fences[s].seen
      BY <1>1 DEF Frugal, Is
    <3>3. serial[s].enabled /\ serial[s].internal => p <= serial[s].target
      BY <1>3
    <3> QED BY <2>1, <2>6, <3>1, <3>2, <3>3 DEF Frugal, Clocking, Is
  <2>9. Frugal(o)'
    BY <1>1, <2>1, <2>5, FrugalSame
  <2>10. open'[s] => Roomy(s)'
    <3>1. open[s] => Roomy(s)
      BY Roomwise
    <3> QED BY <1>1, <2>1, <2>5, <2>7, <3>1, RoomySame
  <2>11. ASSUME open[o]
         PROVE  Roomy(o)'
    <3>1. Spaced(w, from, last, extra) /\ Announced(w, co[o].progress, co[o].peer, last)
      BY <1>1, <1>3, <2>11, Roomwise DEF Roomy, Room, Received
    <3>2. ~Asking(w)
      BY <1>1, <1>3, <2>11 DEF Placed
    <3>3. from \in {-1, co[o].peer} /\ from \in Int /\ extra \in Nat
      BY <1>1, Budget
    <3>4. more \in Nat /\ extra <= more
      <4> DEFINE i == fences[s].started
                 j == fences[s].seen
                 k == Len(fences[s].owed)
      <4>1. i \in Nat /\ j \in Nat /\ k \in Nat /\ k <= j
        <5>1. i \in Nat /\ j \in Nat
          BY <1>1, Numbers
        <5>2. k \in Nat
          BY <1>1, Budget
        <5>3. k <= j
          BY <1>1 DEF Frugal
        <5> QED BY <5>1, <5>2, <5>3
      <4>2. extra = (IF l.sentMark = -1 THEN 0 ELSE 1) + i + j - k /\ more = 1 + i + j - k
        BY DEF Extra
      <4> HIDE DEF i, j, k, extra, more
      <4>3. 0 + i + j - k <= 1 + i + j - k /\ 1 + i + j - k \in Nat /\ 1 + i + j - k <= 1 + i + j - k
        BY ONLY <4>1
      <4> QED BY <4>2, <4>3
    <3>5. Extra(link'[s], fences'[s]) = more
      <4>1. at # -1
        BY <1>2
      <4> QED BY <2>1, <2>6, <4>1 DEF Extra
    <3> HIDE DEF w, from, last, extra, more, l, at, p
    <3>6. Spaced(w \o u, from, next, more)
      <4>1. \A i \in 0..Len(w) : Beside(w \o u, i) >= Beside(w, i) + 2
        BY <1>2, <2>4, <3>2, BesideMore
      <4>2. Len(u) <= 2 * (next - last) + (more - extra) + 2
        <5> DEFINE c == Len(u)
        <5>1. /\ c \in Nat /\ c <= 3 /\ (c = 3 => last < next) /\ last <= next
              /\ last \in Nat /\ next \in Nat /\ extra \in Nat /\ more \in Nat /\ extra <= more
          BY <1>2, <2>3, <2>4, <3>3, <3>4
        <5> HIDE DEF c
        <5>2. c <= 2 * (next - last) + (more - extra) + 2
          BY ONLY <5>1
        <5> QED BY <5>2 DEF c
      <4>3. \A j \in DOMAIN u : Is(u, j, "Progress") => u[j].at = next /\ Len(u) - j <= more
        <5>1. ASSUME NEW j \in DOMAIN u, Is(u, j, "Progress")
              PROVE  u[j].at = next /\ Len(u) - j <= more
          <6>1. u[j].at = next /\ Len(u) - j <= 0
            BY <2>3, <2>4, <5>1
          <6>2. j \in Nat /\ Len(u) \in Nat /\ more \in Nat
            BY <2>4, <3>4, Elements
          <6> QED BY <6>1, <6>2
        <5> QED BY <5>1
      <4>4. /\ w \in Seq(Message) /\ u \in Seq(Message) /\ from \in Int /\ last \in Nat /\ next \in Nat
            /\ extra \in Nat /\ more \in Nat /\ 2 \in Nat /\ Spaced(w, from, last, extra)
        BY <1>2, <2>3, <2>4, <3>1, <3>3, <3>4
      <4> QED BY ONLY <4>1, <4>2, <4>3, <4>4, SpacedMore
    <3>7. Firing(w \o u, from, next)
      <4>1. \A i \in Marks(w) : At(w, i, from) <= last
        <5>1. /\ w \in Seq(Message) /\ co[o].peer \in Nat /\ last \in Nat
              /\ Announced(w, co[o].progress, co[o].peer, last) /\ from \in {-1, co[o].peer}
          BY <1>2, <3>1, <3>3
        <5> QED BY ONLY <5>1, MarksEarly
      <4>2. /\ w \in Seq(Message) /\ u \in Seq(Message) /\ from \in Int /\ last \in Nat /\ next \in Nat
            /\ ~Asking(w) /\ Len(u) <= 3 /\ (Len(u) = 3 => last < next)
            /\ \A j \in DOMAIN u : Is(u, j, "EdgeRequest") => j = 1
        BY <1>2, <2>3, <2>4, <3>2, <3>3
      <4> QED BY ONLY <4>1, <4>2, FiringMore
    <3>8. Asking(w \o u)
      <4>1. PICK j \in DOMAIN u : Is(u, j, "EdgeRequest")
        BY <2>4 DEF Asking
      <4>2. Len(w) + j \in DOMAIN (w \o u) /\ (w \o u)[Len(w) + j] = u[j]
        BY <1>2, <2>4, Joined
      <4> QED BY <4>1, <4>2 DEF Asking, Is
    <3>9. Room(w \o u, from, next, more, n)
      BY <3>6, <3>7, <3>8 DEF Room
    <3>10. From(co'[o]) = from
      BY <2>1 DEF from
    <3> QED BY <1>1, <2>6, <2>7, <3>5, <3>9, <3>10, RoomyNext
  <2> QED BY <2>1, <2>8, <2>9, <2>10, <2>11, BothRoomy
<1> QED BY <1>4, <1>5

\* When the answer is taken, the edge and its answer are gone from both ways.
LEMMA TakeResponseRoomy ==
  ASSUME IInv, RInv, NEW s \in Sides, TakeResponse(s)
  PROVE  RInv'
<1> DEFINE o == Other(s)
           l == link[s]
           b == wire[o]
           m == Head(b)
           w == Stream(s)
           v == l.ingress \o Tail(b)
           d == Len(l.ingress) + 1
           r == Shift(serial[s])
           x == Stream(o)
           from == From(co[o])
           last == l.sentProgress
           extra == Extra(l, fences[s])
<1>1. /\ o \in Sides /\ o # s /\ Other(o) = s /\ Shape /\ Core(s) /\ Placed(s) /\ Placed(o)
      /\ Received(o) /\ Frugal(s) /\ Frugal(o)
      /\ open[s] /\ b # <<>> /\ m.type = "EdgeResponse"
  BY Peers, Sidewise, Roomwise DEF TakeResponse, Replying, Usable, Incoming
<1>2. /\ l.out \in Nat /\ l \in Bookkeeping /\ b \in Seq(Message) /\ l.ingress \in Seq(Message)
      /\ serial[s] \in SerialCore /\ last \in Nat /\ x \in Seq(Message) /\ co[o].peer \in Nat
      /\ l.settled \in Nat /\ serial[s].target \in Nat
  BY <1>1, Typed, Numbers
<1>3. 1 \in DOMAIN b /\ m = b[1]
  BY <1>1, <1>2, Elements
<1>4. Answer(o, m)
  BY <1>1, <1>3 DEF Placed, Is
<1>5. l.waiting # 0 /\ link[o].completed = 1..l.out
  BY <1>1, <1>4 DEF Answer
<1>6. CASE m.id # l.waiting \/ m.at < l.scheduled \/ m.at > l.scheduled + MaxEdgeLateness
  <2>1. SerialFault(s, "protocol")
    BY <1>6 DEF TakeResponse, Incoming
  <2> QED BY <2>1, FailRoomy
<1>7. CASE ~(m.id # l.waiting \/ m.at < l.scheduled \/ m.at > l.scheduled + MaxEdgeLateness)
  <2>1. /\ wire' = [wire EXCEPT ![o] = Tail(@)] /\ link' = [link EXCEPT ![s].waiting = 0]
        /\ serial' = [serial EXCEPT ![s] = r]
        /\ mode' = mode /\ co' = co /\ fences' = fences /\ open' = open /\ fault' = fault
    BY <1>7 DEF TakeResponse, Incoming
  <2>2. /\ link'[s] = [l EXCEPT !.waiting = 0] /\ link'[o] = link[o]
        /\ serial'[s] = r /\ serial'[o] = serial[o]
        /\ wire'[o] = Tail(b) /\ wire'[s] = wire[s]
    BY <1>1, <2>1 DEF Shape
  <2>3. /\ link'[s].waiting = 0 /\ link'[s].sentMark = l.sentMark
        /\ link'[s].sentProgress = last /\ link'[s].ingress = l.ingress
        /\ link'[s].settled = l.settled
    <3>1. link'[s] = [l EXCEPT !.waiting = 0] /\ 0 \in Nat /\ l \in Bookkeeping
      BY <1>2, <2>2
    <3> HIDE DEF l
    <3> QED BY ONLY <3>1 DEF Bookkeeping, last
  <2>4. /\ r \in SerialCore
        /\ r.enabled /\ r.internal =>
             serial[s].enabled /\ serial[s].internal /\ r.target = serial[s].target + EdgePeriod
    BY <1>1, <1>2, Shifted DEF Core
  <2>5. r.enabled /\ r.internal => l.settled <= r.target
    <3>1. serial[s].enabled /\ serial[s].internal => l.settled <= serial[s].target
      BY <1>1 DEF Frugal, Clocking
    <3>2. EdgePeriod \in Nat
      BY Constants
    <3> DEFINE i == l.settled
               j == serial[s].target
    <3>3. i \in Nat /\ j \in Nat /\ EdgePeriod \in Nat
      BY <1>2, <3>2
    <3> HIDE DEF i, j
    <3>4. i <= j => i <= j + EdgePeriod
      BY ONLY <3>3
    <3> QED BY <2>4, <3>1, <3>4 DEF i, j
  <2>6. Stream(s)' = v /\ Stream(o)' = x
    BY <1>1, <2>2, <2>3 DEF Stream
  <2>7. Cut(v, w, d) /\ w[d] = m
    BY <1>1, <1>2, CutWire DEF Stream
  <2> HIDE DEF v, w, d, m, b, r
  <2>8. Frugal(s)'
    <3>1. /\ fault[s] # "capacity"
          /\ co[s].progress = 0 => co[s].local = 0 /\ co[s].permit = 0
          /\ l.sentMark = -1 => last = 0
          /\ l.sentMark # -1 => last <= l.sentMark
          /\ \A i \in DOMAIN l.ingress : l.ingress[i].type # "EdgeResponse"
          /\ fences[s].started <= MaxFences[s] /\ fences[s].seen <= MaxFences[Other(s)]
          /\ mode[s] = "fence" => fences[s].started < MaxFences[s]
          /\ Len(fences[s].owed) <= fences[s].seen
      BY <1>1 DEF Frugal, Is
    <3> QED BY <2>1, <2>2, <2>3, <2>5, <3>1 DEF Frugal, Clocking, Is
  <2>9. Frugal(o)'
    BY <1>1, <2>1, <2>2, FrugalSame
  <2>10. Roomy(s)'
    <3>1. Room(w, From(co[s]), link[o].sentProgress, Extra(link[o], fences[o]), link[o].waiting)
      BY <1>1, Roomwise DEF Roomy, w
    <3>2. /\ From(co[s]) \in Int /\ link[o].sentProgress \in Nat /\ Extra(link[o], fences[o]) \in Nat
      BY <1>1, Budget, Numbers
    <3>3. w[d].type \notin {"Progress", "EdgeRequest"}
      BY <1>1, <2>7
    <3>4. Room(v, From(co[s]), link[o].sentProgress, Extra(link[o], fences[o]), link[o].waiting)
      BY <2>7, <3>1, <3>2, <3>3, RoomLess
    <3> QED BY <1>1, <2>1, <2>2, <2>6, <3>4, RoomyNext
  <2>11. ASSUME open[o]
         PROVE  Roomy(o)'
    <3>1. ~Asking(x)
      <4>1. l.waiting = l.out /\ l.out > 0
        BY <1>1, <1>5 DEF Placed
      <4>2. 1..l.out # 1..(l.out - 1)
        BY <1>2, <4>1, Upto
      <4> QED BY <1>1, <1>5, <2>11, <4>2 DEF Placed
    <3>2. Room(x, from, last, extra, l.waiting)
      BY <1>1, <2>11, Roomwise DEF Roomy
    <3>3. Trailing(x, from, last)
      BY <1>5, <3>1, <3>2 DEF Room
    <3>4. Announced(x, co[o].progress, co[o].peer, last)
      BY <1>1, <2>11 DEF Received
    <3>5. extra \in Nat /\ extra >= 1 /\ from \in {-1, co[o].peer}
      <4>1. l.sentMark # -1
        BY <1>1, <1>5 DEF Frugal
      <4> QED BY <1>1, <4>1, Budget
    <3>6. Extra(link'[s], fences'[s]) = extra /\ From(co'[o]) = from
      BY <2>1, <2>3 DEF Extra
    <3> HIDE DEF x, from, last, extra
    <3>7. Spaced(x, from, last, extra)
      <4>1. /\ x \in Seq(Message) /\ co[o].peer \in Nat /\ last \in Nat
            /\ Announced(x, co[o].progress, co[o].peer, last) /\ from \in {-1, co[o].peer}
            /\ Trailing(x, from, last) /\ extra \in Nat /\ extra >= 1
        BY <1>2, <3>3, <3>4, <3>5
      <4> QED BY ONLY <4>1, SpacedAgain
    <3>8. Firing(x, from, last)
      BY <3>1, FiringNone
    <3>9. Room(x, from, last, extra, 0)
      BY <3>7, <3>8 DEF Room
    <3> QED BY <1>1, <2>3, <2>6, <3>6, <3>9, RoomyNext
  <2> QED BY <2>1, <2>8, <2>9, <2>10, <2>11, BothRoomy
<1> QED BY <1>6, <1>7

-----------------------------------------------------------------------------
(* The delivery of an edge *)

\* Taking the batch neither sends nor stages.
LEMMA PopReadyEdgesRoomy ==
  ASSUME IInv, RInv, NEW s \in Sides, PopReadyEdges(s)
  PROVE  RInv'
<1> DEFINE c == co[s]
           R == Ready(c)
           left == c.edges \ R
<1>1. Shape /\ Frugal(s)
  BY Sidewise, Roomwise
<1>2. CASE \E e \in R : Late(e, c.local)
  <2>1. FailWith(s, "lateness", "delivery.lateness")
    BY <1>2 DEF PopReadyEdges
  <2> QED BY <2>1, FailRoomy
<1>3. CASE ~\E e \in R : Late(e, c.local)
  <2>1. /\ co' = [co EXCEPT ![s].held = R, ![s].edges = left]
        /\ link' = [link EXCEPT ![s].delivery = R, ![s].heldStart = c.local, ![s].retired = 0]
        /\ mode' = mode /\ serial' = serial /\ fences' = fences /\ open' = open /\ wire' = wire
        /\ fault' = fault
    BY <1>3 DEF PopReadyEdges
  <2> HIDE DEF R, left
  <2>2. /\ co'[s] = [co[s] EXCEPT !.held = R, !.edges = left] /\ co[s] \in Coordinator
        /\ link'[s] = [link[s] EXCEPT !.delivery = R, !.heldStart = c.local, !.retired = 0]
        /\ link[s] \in Bookkeeping
        /\ \A t \in Sides : t # s => co'[t] = co[t] /\ link'[t] = link[t]
    BY <1>1, <2>1 DEF Shape
  <2>3. /\ co'[s].progress = co[s].progress /\ co'[s].peer = co[s].peer /\ co'[s].local = co[s].local
        /\ co'[s].permit = co[s].permit
    BY ONLY <2>2 DEF Coordinator
  <2>4. /\ link'[s].sentMark = link[s].sentMark /\ link'[s].sentProgress = link[s].sentProgress
        /\ link'[s].settled = link[s].settled /\ link'[s].ingress = link[s].ingress
        /\ link'[s].waiting = link[s].waiting
    <3> HIDE DEF c
    <3> QED BY ONLY <2>2 DEF Bookkeeping
  <2>5. serial'[s].enabled /\ serial'[s].internal => link[s].settled <= serial'[s].target
    BY <1>1, <2>1 DEF Frugal, Clocking
  <2>6. (co'[s].progress = 0 => co'[s].local = 0 /\ co'[s].permit = 0) /\ fault'[s] # "capacity"
    BY <1>1, <2>1, <2>3 DEF Frugal
  <2> QED BY <1>1, <2>1, <2>2, <2>3, <2>4, <2>5, <2>6, StillRoomy
<1> QED BY <1>2, <1>3

\* The answer to an edge is the only one on the way.
LEMMA ApplyEdgeRoomy ==
  ASSUME IInv, RInv, NEW s \in Sides, ApplyEdge(s)
  PROVE  RInv'
<1> DEFINE o == Other(s)
           c == co[s]
           l == link[s]
           edge == Least(l.delivery)
           m == EdgeResponse(edge.seq, c.local)
           u == <<m>>
           r == Shift(serial[s])
           left == l.delivery \ {edge}
           done == l.completed \cup {edge.seq}
           w == Stream(o)
           from == From(co[o])
           last == l.sentProgress
           extra == Extra(l, fences[s])
<1>1. /\ o \in Sides /\ o # s /\ Other(o) = s /\ Shape /\ Core(s) /\ Placed(s) /\ Placed(o)
      /\ Frugal(s) /\ Frugal(o)
      /\ Delivering(s) /\ l.delivery # {} /\ l.waiting = 0
  BY Peers, Sidewise, Roomwise, Deliverer DEF ApplyEdge
<1>2. /\ l \in Bookkeeping /\ w \in Seq(Message) /\ last \in Nat /\ c.local \in Nat
      /\ l.delivery \subseteq Edge /\ serial[s] \in SerialCore
      /\ l.settled \in Nat /\ serial[s].target \in Nat /\ wire[s] \in Seq(Message)
      /\ link[o].ingress \in Seq(Message)
  BY <1>1, Typed, Numbers
<1>3. edge \in l.delivery /\ edge.seq \in Nat
  <2>1. PICK e \in l.delivery : TRUE
    BY <1>1
  <2>2. l.delivery = {e}
    BY <1>1, <2>1 DEF Placed, Here
  <2>3. Least(l.delivery) = e
    BY <2>2, LeastOne
  <2> QED BY <1>2, <2>1, <2>3 DEF Edge
<1>4. m \in Message /\ m.type = "EdgeResponse"
  <2> DEFINE i == edge.seq
             at == c.local
  <2>1. i \in Nat /\ at \in Nat /\ m = EdgeResponse(i, at)
    BY <1>2, <1>3
  <2> HIDE DEF m, i, at
  <2>2. EdgeResponse(i, at) \in Message /\ EdgeResponse(i, at).type = "EdgeResponse"
    BY ONLY <2>1, Messages
  <2> QED BY ONLY <2>1, <2>2
<1>5. u \in Seq(Message) /\ Len(u) = 1 /\ DOMAIN u = 1..1 /\ u[1] = m
  <2> HIDE DEF m
  <2> QED BY <1>4
<1>6. /\ serial' = [serial EXCEPT ![s] = r] /\ Send(s, u)
      /\ link' = [link EXCEPT ![s].delivery = left, ![s].completed = done]
      /\ mode' = mode /\ co' = co /\ fences' = fences /\ open' = open /\ fault' = fault
  BY DEF ApplyEdge
<1> HIDE DEF u, m, r, edge, left, done
<1>7. /\ link'[s] = [l EXCEPT !.delivery = left, !.completed = done] /\ link'[o] = link[o]
      /\ serial'[s] = r /\ serial'[o] = serial[o]
  BY <1>1, <1>6 DEF Shape
<1>8. /\ link'[s].ingress = l.ingress /\ link'[s].waiting = l.waiting
      /\ link'[s].settled = l.settled
      /\ link'[s].sentProgress = last /\ link'[s].sentMark = l.sentMark
  <2> HIDE DEF l
  <2> QED BY ONLY <1>2, <1>7 DEF Bookkeeping, last
<1>9. Stream(o)' = w \o u /\ Stream(s)' = Stream(s)
  BY <1>1, <1>5, <1>6, <1>7, <1>8, Sending
<1>10. /\ r \in SerialCore
       /\ r.enabled /\ r.internal =>
            serial[s].enabled /\ serial[s].internal /\ r.target = serial[s].target + EdgePeriod
  BY <1>1, <1>2, Shifted DEF Core, r
<1>11. r.enabled /\ r.internal => l.settled <= r.target
  <2>1. serial[s].enabled /\ serial[s].internal => l.settled <= serial[s].target
    BY <1>1 DEF Frugal, Clocking
  <2>2. EdgePeriod \in Nat
    BY Constants
  <2> DEFINE i == l.settled
             j == serial[s].target
  <2>3. i \in Nat /\ j \in Nat /\ EdgePeriod \in Nat
    BY <1>2, <2>2
  <2> HIDE DEF i, j
  <2>4. i <= j => i <= j + EdgePeriod
    BY ONLY <2>3
  <2> QED BY <1>10, <2>1, <2>4 DEF i, j
<1>12. Frugal(s)'
  <2>1. /\ fault[s] # "capacity"
        /\ co[s].progress = 0 => co[s].local = 0 /\ co[s].permit = 0
        /\ l.sentMark = -1 => last = 0 /\ l.waiting = 0
        /\ l.sentMark # -1 => last <= l.sentMark
        /\ \A i \in DOMAIN l.ingress : l.ingress[i].type # "EdgeResponse"
        /\ fences[s].started <= MaxFences[s] /\ fences[s].seen <= MaxFences[Other(s)]
        /\ mode[s] = "fence" => fences[s].started < MaxFences[s]
        /\ Len(fences[s].owed) <= fences[s].seen
    BY <1>1 DEF Frugal, Is
  <2> QED BY <1>6, <1>7, <1>8, <1>11, <2>1 DEF Frugal, Clocking, Is
<1>13. Frugal(o)'
  BY <1>1, <1>6, <1>7, FrugalSame
<1>14. open'[s] => Roomy(s)'
  BY <1>1, <1>6, <1>7, <1>9, Roomwise, RoomySame
<1>15. ASSUME open[o]
       PROVE  Roomy(o)'
  <2>1. Spaced(w, from, last, extra)
    BY <1>1, <1>15, Roomwise DEF Roomy, Room
  <2>2. from \in Int /\ extra \in Nat
    BY <1>1, Budget
  <2>3. \A j \in DOMAIN w : ~Is(w, j, "EdgeResponse")
    <3>1. \A j \in DOMAIN wire[s] : wire[s][j].type # "EdgeResponse"
      BY <1>1 DEF Placed, Answer, Is, Here
    <3>2. \A j \in DOMAIN link[o].ingress : link[o].ingress[j].type # "EdgeResponse"
      BY <1>1 DEF Frugal, Is
    <3> DEFINE a == link[o].ingress
               b == wire[s]
    <3>3. w = a \o b /\ a \in Seq(Message) /\ b \in Seq(Message)
      BY <1>1, <1>2 DEF Stream
    <3> HIDE DEF w, a, b
    <3>4. \A j \in DOMAIN (a \o b) : \/ j \in DOMAIN a /\ (a \o b)[j] = a[j]
                                     \/ \E k \in DOMAIN b : (a \o b)[j] = b[k]
      BY <3>3, Joined
    <3> QED BY <3>1, <3>2, <3>3, <3>4 DEF Is, a, b
  <2>4. ~Asking(w)
    BY <1>1, <1>15 DEF Placed
  <2>5. Extra(link'[s], fences'[s]) = extra /\ From(co'[o]) = from
    BY <1>6, <1>8 DEF Extra
  <2> HIDE DEF w, from, last, extra
  <2>6. Is(u, 1, "EdgeResponse") /\ 1 \in DOMAIN u /\ \A j \in DOMAIN u : j = 1
    BY <1>4, <1>5 DEF Is
  <2>7. Spaced(w \o u, from, last, extra)
    <3>1. \A i \in 0..Len(w) : Beside(w \o u, i) >= Beside(w, i) + 1
      BY <1>2, <1>5, <2>3, <2>6, BesideMore
    <3>2. Len(u) <= 2 * (last - last) + (extra - extra) + 1
      BY <1>2, <1>5, <2>2
    <3>3. \A j \in DOMAIN u : Is(u, j, "Progress") => u[j].at = last /\ Len(u) - j <= extra
      BY <2>6 DEF Is
    <3>4. /\ w \in Seq(Message) /\ u \in Seq(Message) /\ from \in Int /\ last \in Nat
          /\ extra \in Nat /\ 1 \in Nat /\ Spaced(w, from, last, extra)
      BY <1>2, <1>5, <2>1, <2>2
    <3> QED BY ONLY <3>1, <3>2, <3>3, <3>4, SpacedMore
  <2>8. ~Asking(w \o u)
    <3>1. \A j \in DOMAIN (w \o u) : \/ j \in DOMAIN w /\ (w \o u)[j] = w[j]
                                     \/ \E k \in DOMAIN u : (w \o u)[j] = u[k]
      <4>1. w \in Seq(Message) /\ u \in Seq(Message)
        BY <1>2, <1>5
      <4> QED BY ONLY <4>1, Joined
    <3> QED BY <2>4, <2>6, <3>1 DEF Asking, Is
  <2>9. Firing(w \o u, from, last)
    BY <2>8, FiringNone
  <2>10. Room(w \o u, from, last, extra, l.waiting)
    BY <1>1, <2>7, <2>9 DEF Room
  <2> QED BY <1>1, <1>8, <1>9, <2>5, <2>10, RoomyNext
<1> QED BY <1>6, <1>12, <1>13, <1>14, <1>15, BothRoomy

-----------------------------------------------------------------------------
(* The end of a pump *)

\* In three parts that follow each other the only progress is the last of the second part.
LEMMA LastOfThree ==
  ASSUME NEW a \in Seq(Message), NEW p \in Seq(Message), NEW f \in Seq(Message),
         \A i \in DOMAIN a : a[i].type # "Progress", \A i \in DOMAIN f : f[i].type # "Progress",
         \A i \in DOMAIN p : p[i].type = "Progress" => i = Len(p)
  PROVE  /\ Len((a \o p) \o f) = Len(a) + Len(p) + Len(f)
         /\ \A j \in DOMAIN ((a \o p) \o f) :
              ((a \o p) \o f)[j].type = "Progress" => Len((a \o p) \o f) - j = Len(f)
<1> DEFINE q == a \o p
           u == q \o f
<1>1. /\ q \in Seq(Message) /\ Len(q) = Len(a) + Len(p)
      /\ Len(a) \in Nat /\ Len(p) \in Nat /\ Len(f) \in Nat
  BY ConcatProperties, Elements
<1>2. \A i \in DOMAIN q : q[i].type = "Progress" => i = Len(q)
  <2>1. \A i \in DOMAIN q : i \in DOMAIN a \/ \E j \in DOMAIN p : i = Len(a) + j
    BY Joined
  <2>2. \A i \in DOMAIN a : q[i] = a[i]
    BY Joined
  <2>3. \A j \in DOMAIN p : q[Len(a) + j] = p[j]
    BY Joined
  <2> HIDE DEF q
  <2> QED BY <1>1, <2>1, <2>2, <2>3
<1> HIDE DEF q
<1>3. u \in Seq(Message) /\ Len(u) = Len(q) + Len(f)
  BY <1>1, ConcatProperties
<1>4. \A j \in DOMAIN u : u[j].type = "Progress" => j = Len(q)
  <2>1. q \in Seq(Message) /\ f \in Seq(Message)
    BY <1>1
  <2>2. \A i \in DOMAIN (q \o f) : i \in DOMAIN q \/ \E j \in DOMAIN f : i = Len(q) + j
    BY ONLY <2>1, Joined
  <2>3. \A i \in DOMAIN q : (q \o f)[i] = q[i]
    BY ONLY <2>1, Joined
  <2>4. \A j \in DOMAIN f : Len(q) + j \in DOMAIN (q \o f) /\ (q \o f)[Len(q) + j] = f[j]
    BY ONLY <2>1, Joined, Zenon
  <2>5. /\ \A i \in DOMAIN u : i \in DOMAIN q \/ \E j \in DOMAIN f : i = Len(q) + j
        /\ \A i \in DOMAIN q : u[i] = q[i]
        /\ \A j \in DOMAIN f : u[Len(q) + j] = f[j]
    BY <2>2, <2>3, <2>4
  <2> HIDE DEF u
  <2> QED BY <1>2, <2>5
<1> HIDE DEF u
<1>5. Len(u) = Len(a) + Len(p) + Len(f)
  BY <1>1, <1>3
<1>6. \A j \in DOMAIN u : u[j].type = "Progress" => Len(u) - j = Len(f)
  BY <1>1, <1>3, <1>4
<1> QED BY <1>5, <1>6 DEF u, q

\* A publication ends with its progress.
LEMMA Publicity ==
  ASSUME NEW s \in Sides, co[s].local \in Nat, link[s].out \in Nat
  PROVE  /\ Publication(s) \in Seq(Message)
         /\ \A i \in DOMAIN Publication(s) : Publication(s)[i].type = "Progress" => i = Len(Publication(s))
         /\ \A i \in DOMAIN Publication(s) :
              /\ Publication(s)[i].type # "EdgeRequest"
              /\ Publication(s)[i].type = "Progress" =>
                   Publication(s)[i].at = co[s].local /\ Due(s, link[s].sentProgress)
         /\ Due(s, link[s].sentProgress) => Publication(s) # <<>> /\ Len(Publication(s)) = 2
         /\ ~Due(s, link[s].sentProgress) /\ Due(s, link[s].sentMark) =>
              Publication(s) # <<>> /\ Len(Publication(s)) = 1
         /\ ~Due(s, link[s].sentProgress) /\ ~Due(s, link[s].sentMark) =>
              Publication(s) = <<>> /\ Len(Publication(s)) = 0
<1> DEFINE e == EmissionComplete(co[s].local, link[s].out)
           g == Progress(co[s].local)
           p == Publication(s)
<1>1. p \in Seq(Message)
  BY Publishes
<1>2. e.type = "EmissionComplete" /\ g.type = "Progress" /\ g.at = co[s].local
  BY DEF EmissionComplete, Progress
<1>3. Publication(s) = IF Due(s, link[s].sentProgress) THEN <<e, g>>
                       ELSE IF Due(s, link[s].sentMark) THEN <<e>> ELSE <<>>
  BY DEF Publication
<1> HIDE DEF e, g
<1>4. CASE Due(s, link[s].sentProgress)
  <2>1. /\ DOMAIN <<e, g>> = 1..2 /\ <<e, g>>[1] = e /\ <<e, g>>[2] = g /\ <<e, g>> # <<>>
        /\ Len(<<e, g>>) = 2
    OBVIOUS
  <2>2. p = <<e, g>>
    BY <1>3, <1>4
  <2> QED BY <1>1, <1>2, <1>4, <2>1, <2>2
<1>5. CASE ~Due(s, link[s].sentProgress) /\ Due(s, link[s].sentMark)
  <2>1. DOMAIN <<e>> = 1..1 /\ <<e>>[1] = e /\ <<e>> # <<>> /\ Len(<<e>>) = 1
    OBVIOUS
  <2>2. p = <<e>>
    BY <1>3, <1>5
  <2> QED BY <1>1, <1>2, <1>5, <2>1, <2>2
<1>6. CASE ~Due(s, link[s].sentProgress) /\ ~Due(s, link[s].sentMark)
  <2>1. DOMAIN <<>> = {} /\ Len(<<>>) = 0
    OBVIOUS
  <2>2. p = <<>>
    BY <1>3, <1>6
  <2> QED BY <1>1, <1>6, <2>1, <2>2
<1> QED BY <1>4, <1>5, <1>6

\* A watermark is due by itself only if it is the first one.
LEMMA FirstMark ==
  ASSUME NEW s \in Sides, co[s].local \in Nat, NEW sp \in Nat, NEW sm \in Nat,
         sp <= sm, Due(s, sm)
  PROVE  Due(s, sp)
<1> DEFINE now == co[s].local
<1>1. now > sm /\ (Forced(s) \/ HalfCyclesSince(now, sm) >= Threshold)
  BY DEF Due
<1>2. now \in Nat /\ now > sp
  BY <1>1
<1>3. HalfCyclesSince(now, sm) = 2 * (now - sm) /\ HalfCyclesSince(now, sp) = 2 * (now - sp)
  BY DEF HalfCyclesSince
<1>4. Threshold \in Nat
  BY Constants DEF Threshold
<1> HIDE DEF now
<1>5. 2 * (now - sm) >= Threshold => 2 * (now - sp) >= Threshold
  BY ONLY <1>2, <1>4, sm \in Nat, sp \in Nat, sp <= sm
<1>6. now > sp /\ (Forced(s) \/ HalfCyclesSince(now, sp) >= Threshold)
  BY <1>1, <1>2, <1>3, <1>5
<1> QED BY <1>6 DEF Due, now

\* The end of a pump pays acknowledgements it owed, publishes two messages for at least a cycle
\* that passed, or its first watermark alone, and starts at most a fence.
LEMMA EndPumpRoomy ==
  ASSUME IInv, RInv, NEW s \in Sides, Delivering(s), NEW rest \in Bookkeeping, EndPump(s, rest),
         rest.ingress = link[s].ingress, rest.waiting = link[s].waiting,
         rest.sentProgress = link[s].sentProgress, rest.sentMark = link[s].sentMark,
         rest.out = link[s].out,
         co' = [co EXCEPT ![s] = co'[s]],
         co'[s].local = co[s].local, co'[s].peer = co[s].peer, co'[s].progress = co[s].progress,
         co'[s].permit = co[s].permit
  PROVE  RInv'
<1> DEFINE o == Other(s)
           l == link[s]
           k == fences[s]
           now == co[s].local
           exhausted == mode[s] = "fence" /\ Cardinality(k.sent) >= Capacity
           fencing == mode[s] = "fence" /\ ~exhausted
           f == IF fencing THEN <<Fence(k.started + 1, l.out)>> ELSE <<>>
           p == Publication(s)
           due == Due(s, l.sentProgress)
           new == p # <<>>
           next == IF due THEN now ELSE l.sentProgress
           nextMark == IF new THEN now ELSE l.sentMark
           why == IF exhausted THEN "exhausted" ELSE fault[s]
           w == Stream(o)
<1>1. /\ o \in Sides /\ o # s /\ Other(o) = s
      /\ Shape /\ Placed(o) /\ Core(s) /\ Bounded(s) /\ Frugal(s) /\ Frugal(o)
  BY Peers, Sidewise, Roomwise
<1>2. /\ pc[s] \in {"consume", "deliver"} /\ open[s] /\ fault[s] = "none"
      /\ l.waiting = 0 /\ serial[s].now = now
  BY <1>1, Deliverer
<1>3. /\ l \in Bookkeeping /\ k \in Fencing /\ w \in Seq(Message)
      /\ now \in Nat /\ l.out \in Nat /\ l.sentProgress \in Nat
      /\ l.sentMark \in Int /\ l.sentMark \in Nat \cup {-1}
      /\ k.started \in Nat /\ k.seen \in Nat /\ k.owed \in Seq(Debt) /\ k.sent \subseteq FenceSent
      /\ serial[s].target \in Nat /\ Len(k.owed) \in Nat /\ MaxFences[s] \in Nat
  BY <1>1, Typed, Numbers, Budget, CableAssumption DEF Debt
<1>4. PICK n \in 0..Len(k.owed) : Acknowledged(s) = 1..n /\ Cardinality(Acknowledged(s)) = n
  <2>1. Len(k.owed) \in Nat
    BY <1>3
  <2>2. Acknowledged(s) \subseteq 1..Len(k.owed)
    BY DEF Acknowledged
  <2>3. \A i \in Acknowledged(s) : \A j \in 1..i : j \in Acknowledged(s)
    <3> SUFFICES ASSUME NEW i \in Acknowledged(s), NEW j \in 1..i PROVE j \in Acknowledged(s)
      OBVIOUS
    <3>1. i \in 1..Len(k.owed) /\ \A x \in 1..i : Applied(l, k.owed[x].through)
      BY DEF Acknowledged
    <3>2. j \in 1..Len(k.owed) /\ \A x \in 1..j : x \in 1..i
      BY <2>1, <3>1
    <3> QED BY <3>1, <3>2 DEF Acknowledged
  <2> QED BY <2>1, <2>2, <2>3, Prefix
<1> DEFINE acks == Acks(k.owed, n)
           left == SubSeq(k.owed, n + 1, Len(k.owed))
           u == (acks \o p) \o f
           started == k.started + Len(f)
           rests == [rest EXCEPT !.settled = now, !.sentProgress = next, !.sentMark = nextMark]
<1>5. acks = [i \in Acknowledged(s) |-> FenceAck(k.owed[i].id, k.owed[i].through)]
  BY <1>4 DEF Acks
<1>6. /\ f \in Seq(Message) /\ Len(f) \in {0, 1} /\ \A i \in DOMAIN f : f[i].type = "Fence"
      /\ Len(f) = 1 => mode[s] = "fence"
  <2>1. CASE fencing
    <3> DEFINE m == Fence(k.started + 1, l.out)
    <3>1. f = <<m>> /\ Len(<<m>>) = 1 /\ DOMAIN <<m>> = {1} /\ <<m>>[1] = m
      BY <2>1
    <3>2. m \in Message /\ m.type = "Fence"
      <4> DEFINE i == k.started + 1
                 out == l.out
      <4>1. i \in Nat /\ out \in Nat /\ m = Fence(i, out)
        BY <1>3
      <4> HIDE DEF i, out, m
      <4>2. Fence(i, out) \in Message /\ Fence(i, out).type = "Fence"
        BY ONLY <4>1, Messages
      <4> QED BY ONLY <4>1, <4>2
    <3> HIDE DEF m, f
    <3>3. <<m>> \in Seq(Message)
      BY <3>2, Alone
    <3> QED BY <2>1, <3>1, <3>2, <3>3
  <2>2. CASE ~fencing
    <3>1. f = <<>> /\ Len(<<>>) = 0 /\ DOMAIN <<>> = {} /\ <<>> \in Seq(Message)
      BY <2>2
    <3> HIDE DEF f
    <3> QED BY <3>1
  <2> QED BY <2>1, <2>2
<1> HIDE DEF f
<1>7. /\ Send(s, u)
      /\ link' = [link EXCEPT ![s] = rests]
      /\ mode' = [mode EXCEPT ![s] = "none"]
      /\ fault' = [fault EXCEPT ![s] = why] /\ serial' = serial /\ open' = open
  <2> DEFINE as == [i \in Acknowledged(s) |-> FenceAck(k.owed[i].id, k.owed[i].through)]
             g == IF mode[s] = "fence" /\ ~exhausted THEN <<Fence(fences[s].started + 1, link[s].out)>> ELSE <<>>
  <2>1. f = g
    BY DEF f
  <2>2. Send(s, as \o Publication(s) \o f)
    BY <2>1 DEF EndPump
  <2>3. Send(s, u)
    BY <1>5, <2>2
  <2>4. link' = [link EXCEPT ![s] = [rest EXCEPT !.settled = now,
                    !.sentProgress = IF Due(s, rest.sentProgress) THEN now ELSE rest.sentProgress,
                    !.sentMark = IF Publication(s) # <<>> THEN now ELSE rest.sentMark]]
    BY DEF EndPump
  <2>5. link' = [link EXCEPT ![s] = rests]
    <3>1. /\ next = IF Due(s, rest.sentProgress) THEN now ELSE rest.sentProgress
          /\ nextMark = IF Publication(s) # <<>> THEN now ELSE rest.sentMark
      OBVIOUS
    <3> HIDE DEF next, nextMark
    <3> QED BY <2>4, <3>1
  <2>6. /\ mode' = [mode EXCEPT ![s] = "none"]
        /\ fault' = [fault EXCEPT ![s] = why] /\ serial' = serial /\ open' = open
    BY DEF EndPump
  <2> QED BY <2>3, <2>5, <2>6
<1>8. /\ \A t \in Sides : t # s => fences'[t] = fences[t]
      /\ fences'[s].owed = left /\ fences'[s].started = started /\ fences'[s].seen = k.seen
  <2> DEFINE g == IF mode[s] = "fence" /\ ~exhausted THEN <<Fence(fences[s].started + 1, link[s].out)>> ELSE <<>>
             more == k.sent \cup {[id |-> g[i].id, through |-> g[i].through, acked |-> FALSE] : i \in DOMAIN g}
             debts == SubSeq(k.owed, Cardinality(Acknowledged(s)) + 1, Len(k.owed))
             many == k.started + Len(g)
  <2>1. fences' = [fences EXCEPT ![s].owed = debts, ![s].started = many, ![s].sent = more]
    BY DEF EndPump
  <2>2. debts = left
    BY <1>4
  <2>3. many = started
    BY DEF f
  <2> HIDE DEF more, debts, many, left, started
  <2>4. /\ fences'[s] = [k EXCEPT !.owed = left, !.started = started, !.sent = more]
        /\ \A t \in Sides : t # s => fences'[t] = fences[t]
    BY <1>1, <2>1, <2>2, <2>3 DEF Shape
  <2>5. k \in Fencing
    BY <1>3
  <2> HIDE DEF k
  <2>6. fences'[s].owed = left /\ fences'[s].started = started /\ fences'[s].seen = k.seen
    BY ONLY <2>4, <2>5 DEF Fencing
  <2> QED BY <2>4, <2>6
<1>9. left \in Seq(Debt) /\ Len(left) = Len(k.owed) - n
  <2> DEFINE q == k.owed
             x == Len(q)
  <2>1. q \in Seq(Debt) /\ x = Len(q) /\ x \in Nat /\ n \in 0..x
    BY <1>3, <1>4
  <2>2. left = SubSeq(q, n + 1, x)
    OBVIOUS
  <2> HIDE DEF q, x, left
  <2>3. SubSeq(q, n + 1, x) \in Seq(Debt)
    BY ONLY <2>1, Remainder
  <2>4. Len(SubSeq(q, n + 1, x)) = x - n
    <3>1. Len(SubSeq(q, n + 1, x)) = IF n + 1 <= x THEN x - (n + 1) + 1 ELSE 0
      <4>1. \A i \in (n + 1)..x : q[i] \in Debt
        BY <2>1, ElementOfSeq
      <4>2. n + 1 \in Int /\ x \in Int
        BY <2>1
      <4> QED BY <4>1, <4>2, SubSeqProperties
    <3> QED BY ONLY <2>1, <3>1
  <2> QED BY <2>2, <2>3, <2>4 DEF q, x
<1>10. /\ acks \in Seq(Message) /\ Len(acks) = n /\ \A i \in DOMAIN acks : acks[i].type = "FenceAck"
  <2> DEFINE q == k.owed
  <2>1. q \in Seq(Debt) /\ n \in 0..Len(q) /\ acks = Acks(q, n) /\ Len(q) \in Nat
    BY <1>3, <1>4
  <2> HIDE DEF q, acks
  <2>2. acks \in Seq(Message) /\ DOMAIN acks = 1..n /\ \A i \in 1..n : acks[i].type = "FenceAck"
    BY ONLY <2>1, Debts
  <2>3. Len(acks) = n
    BY <2>1, <2>2, LenProperties
  <2> QED BY <2>2, <2>3
<1>11. /\ p \in Seq(Message) /\ \A i \in DOMAIN p : p[i].type = "Progress" => i = Len(p)
       /\ \A i \in DOMAIN p :
            p[i].type # "EdgeRequest" /\ (p[i].type = "Progress" => p[i].at = now /\ due)
       /\ due => new /\ Len(p) = 2
       /\ ~due /\ Due(s, l.sentMark) => new /\ Len(p) = 1
       /\ ~due /\ ~Due(s, l.sentMark) => ~new /\ Len(p) = 0
  BY <1>3, Publicity
<1>12. ~due /\ Due(s, l.sentMark) => l.sentMark = -1
  <2> SUFFICES ASSUME ~due, Due(s, l.sentMark), l.sentMark # -1 PROVE FALSE
    OBVIOUS
  <2>1. l.sentMark \in Nat /\ l.sentProgress \in Nat /\ l.sentProgress <= l.sentMark
    BY <1>1, <1>3 DEF Frugal
  <2>2. Due(s, l.sentProgress)
    BY <1>3, <2>1, FirstMark
  <2> QED BY <2>2
<1>13. due => now > l.sentProgress
  BY DEF Due
<1>14. l.sentMark <= now /\ l.sentProgress <= now
  BY <1>1, <1>2 DEF Core, Bounded
<1>15. /\ u \in Seq(Message) /\ Len(u) = n + Len(p) + Len(f)
       /\ \A j \in DOMAIN u : u[j].type = "Progress" => Len(u) - j = Len(f)
       /\ \A j \in DOMAIN u : u[j].type # "EdgeRequest" /\ (u[j].type = "Progress" => u[j].at = next)
  <2>1. /\ acks \in Seq(Message) /\ p \in Seq(Message) /\ f \in Seq(Message)
        /\ \A i \in DOMAIN acks : acks[i].type # "Progress"
        /\ \A i \in DOMAIN f : f[i].type # "Progress"
        /\ \A i \in DOMAIN p : p[i].type = "Progress" => i = Len(p)
        /\ Len(acks) = n
    BY <1>6, <1>10, <1>11
  <2>2. u = (acks \o p) \o f
    OBVIOUS
  <2> HIDE DEF acks, p, u
  <2>3. /\ (acks \o p) \o f \in Seq(Message)
    BY ONLY <2>1, Threefold
  <2>4. /\ Len((acks \o p) \o f) = Len(acks) + Len(p) + Len(f)
        /\ \A j \in DOMAIN ((acks \o p) \o f) :
             ((acks \o p) \o f)[j].type = "Progress" => Len((acks \o p) \o f) - j = Len(f)
    BY ONLY <2>1, LastOfThree
  <2>5. \A i \in DOMAIN p :
          p[i].type # "EdgeRequest" /\ (p[i].type = "Progress" => p[i].at = next)
    <3>1. next = IF due THEN now ELSE l.sentProgress
      OBVIOUS
    <3> HIDE DEF next, due, now
    <3> QED BY <1>11, <3>1
  <2>6. \A j \in DOMAIN u : u[j].type # "EdgeRequest" /\ (u[j].type = "Progress" => u[j].at = next)
    <3>1. \A j \in DOMAIN u : \/ j \in DOMAIN acks /\ u[j] = acks[j]
                              \/ \E i \in DOMAIN p : u[j] = p[i]
                              \/ \E i \in DOMAIN f : u[j] = f[i]
      BY <2>1, <2>2, Threefold
    <3> HIDE DEF next
    <3> QED BY <1>6, <1>10, <2>5, <3>1
  <2>7. Len(u) = n + Len(p) + Len(f) /\ \A j \in DOMAIN u : u[j].type = "Progress" => Len(u) - j = Len(f)
    BY <2>1, <2>2, <2>4
  <2>8. u \in Seq(Message)
    BY <2>2, <2>3
  <2> HIDE DEF next
  <2> QED BY <2>6, <2>7, <2>8
<1>16. /\ next \in Nat /\ nextMark \in Nat \cup {-1}
       /\ (due => next = now) /\ (~due => next = l.sentProgress)
       /\ (new => nextMark = now) /\ (~new => nextMark = l.sentMark)
  BY <1>3
<1> DEFINE x == Len(u)
           y == Len(f)
           z == Len(p)
           d == Len(k.owed)
           e == Len(left)
           sp == l.sentProgress
           sm == l.sentMark
           st == k.started
           seen == k.seen
           dueMark == Due(s, sm)
           extra == (IF sm = -1 THEN 0 ELSE 1) + st + seen - d
           more == (IF nextMark = -1 THEN 0 ELSE 1) + started + seen - e
<1>17. /\ x = n + z + y /\ y \in {0, 1} /\ n \in 0..d /\ d \in Nat /\ e = d - n /\ d <= seen
       /\ sp \in Nat /\ sm \in Int /\ sm \in Nat \cup {-1} /\ st \in Nat /\ seen \in Nat
       /\ started = st + y /\ now \in Nat
       /\ next \in Nat /\ nextMark \in Nat \cup {-1} /\ sm <= now /\ sp <= now
       /\ (due => new /\ z = 2 /\ next = now /\ now > sp)
       /\ (~due => next = sp)
       /\ (~due /\ dueMark => new /\ z = 1 /\ sm = -1)
       /\ (~due /\ ~dueMark => ~new /\ z = 0)
       /\ (new => nextMark = now) /\ (~new => nextMark = sm)
       /\ (sm # -1 => sp <= sm) /\ (sm = -1 => sp = 0)
       /\ extra = (IF sm = -1 THEN 0 ELSE 1) + st + seen - d
       /\ more = (IF nextMark = -1 THEN 0 ELSE 1) + started + seen - e
  BY <1>1, <1>3, <1>4, <1>6, <1>9, <1>11, <1>12, <1>13, <1>14, <1>15, <1>16 DEF Frugal
<1>18. /\ extra = Extra(l, k) /\ extra \in Nat
  BY Budget DEF Extra
<1> HIDE DEF rests, acks, left, u, started, p, next, nextMark, why, exhausted, fencing, due, new, now
<1>19. /\ link'[s] = rests /\ link'[o] = link[o] /\ fences'[o] = fences[o] /\ co'[o] = co[o]
       /\ serial'[s] = serial[s] /\ serial'[o] = serial[o] /\ mode'[s] = "none" /\ mode'[o] = mode[o]
       /\ fault'[s] = why /\ fault'[o] = fault[o]
  BY <1>1, <1>7, <1>8 DEF Shape
<1>20. /\ link'[s].settled = now /\ link'[s].sentProgress = next /\ link'[s].sentMark = nextMark
       /\ link'[s].ingress = l.ingress /\ link'[s].waiting = 0
  <2>1. /\ link'[s].settled = now /\ link'[s].sentProgress = next /\ link'[s].sentMark = nextMark
        /\ link'[s].ingress = rest.ingress /\ link'[s].waiting = rest.waiting
    <3>1. /\ rest \in Bookkeeping /\ now \in Nat /\ next \in Nat /\ nextMark \in Nat \cup {-1}
          /\ link'[s] = [rest EXCEPT !.settled = now, !.sentProgress = next, !.sentMark = nextMark]
      BY <1>17, <1>19 DEF rests
    <3> QED BY ONLY ZenonT(60), <3>1 DEF Bookkeeping
  <2> QED BY <1>2, <2>1
<1>21. Stream(o)' = w \o u /\ Stream(s)' = Stream(s)
  BY <1>1, <1>7, <1>15, <1>19, <1>20, Sending
<1> HIDE DEF x, y, z, d, e, sp, sm, st, seen, dueMark, extra, more
<1>22. /\ x <= 2 * (next - sp) + (more - extra) + 0 /\ y <= more /\ more \in Nat
       /\ nextMark = -1 => next = 0
       /\ nextMark # -1 => next <= nextMark
       /\ e <= seen
  <2>1. e \in Nat /\ e <= d /\ e <= seen /\ started \in Nat /\ y <= started
    BY ONLY <1>17
  <2>2. CASE due
    <3>1. /\ z = 2 /\ next = now /\ now > sp /\ nextMark = now
      BY <1>17, <2>2
    <3>2. nextMark # -1
      BY <1>17, <3>1
    <3>3. more = 1 + started + seen - e
      BY <1>17, <3>2
    <3>4. extra <= 1 + st + seen - d
      BY ONLY <1>17
    <3> QED BY ONLY <1>17, <2>1, <3>1, <3>2, <3>3, <3>4
  <2>3. CASE ~due /\ dueMark
    <3>1. z = 1 /\ next = sp /\ sm = -1 /\ nextMark = now
      BY <1>17, <2>3
    <3>2. nextMark # -1
      BY <1>17, <3>1
    <3>3. more = 1 + started + seen - e /\ extra = st + seen - d
      BY <1>17, <3>1, <3>2
    <3> QED BY ONLY <1>17, <2>1, <3>1, <3>2, <3>3
  <2>4. CASE ~due /\ ~dueMark
    <3>1. z = 0 /\ next = sp /\ nextMark = sm
      BY <1>17, <2>4
    <3> DEFINE b == IF sm = -1 THEN 0 ELSE 1
    <3>2. b \in Nat /\ more = b + started + seen - e /\ extra = b + st + seen - d
      BY <1>17, <3>1
    <3> HIDE DEF b
    <3> QED BY ONLY <1>17, <2>1, <3>1, <3>2
  <2> QED BY <2>2, <2>3, <2>4
<1>23. Extra(link'[s], fences'[s]) = more
  BY <1>8, <1>20 DEF Extra, more, started, seen, e
<1>24. Frugal(s)'
  <2>1. fault'[s] # "capacity"
    BY <1>2, <1>19 DEF why
  <2>2. co'[s].progress = 0 => co'[s].local = 0 /\ co'[s].permit = 0
    BY <1>1 DEF Frugal
  <2>3. Clocking(s)' => now <= serial[s].target
    <3>1. Clocking(s) => serial[s].target > serial[s].now
      BY <1>1, <1>2 DEF Core, Settled
    <3>2. Clocking(s)' <=> Clocking(s)
      BY <1>19 DEF Clocking
    <3>3. now \in Nat /\ serial[s].target \in Nat /\ serial[s].now = now
      BY <1>2, <1>3, <1>17
    <3> QED BY <3>1, <3>2, <3>3
  <2>4. started <= MaxFences[s]
    <3>1. st <= MaxFences[s] /\ (y = 1 => st < MaxFences[s])
      BY <1>1, <1>6 DEF Frugal, st, y
    <3>2. MaxFences[s] \in Nat
      BY <1>3
    <3> DEFINE max == MaxFences[s]
    <3>3. /\ max \in Nat /\ st \in Nat /\ y \in {0, 1} /\ started = st + y
          /\ st <= max /\ (y = 1 => st < max)
      BY <1>17, <3>1, <3>2
    <3> HIDE DEF max
    <3>4. started <= max
      BY ONLY <3>3
    <3> QED BY <3>4 DEF max
  <2>5. /\ seen <= MaxFences[Other(s)] /\ \A i \in DOMAIN l.ingress : l.ingress[i].type # "EdgeResponse"
    BY <1>1 DEF Frugal, Is, seen
  <2>6. /\ link'[s].sentMark = -1 => link'[s].sentProgress = 0 /\ link'[s].waiting = 0
        /\ link'[s].sentMark # -1 => link'[s].sentProgress <= link'[s].sentMark
    BY <1>20, <1>22
  <2>7. Len(fences'[s].owed) <= fences'[s].seen /\ fences'[s].seen = seen /\ fences'[s].started = started
    BY <1>8, <1>22 DEF e, seen
  <2>8. Clocking(s)' => link'[s].settled <= serial'[s].target
    BY <1>19, <1>20, <2>3
  <2>9. \A i \in DOMAIN link'[s].ingress : link'[s].ingress[i].type # "EdgeResponse"
    BY <1>20, <2>5
  <2>10. mode'[s] # "fence"
    BY <1>19
  <2> QED BY <2>1, <2>2, <2>4, <2>5, <2>6, <2>7, <2>8, <2>9, <2>10 DEF Frugal, Is
<1>25. Frugal(o)'
  BY <1>1, <1>19, FrugalSame
<1>26. open'[s] => Roomy(s)'
  <2>1. open[s] => Roomy(s)
    BY Roomwise
  <2> QED BY <1>1, <1>7, <1>19, <1>21, <2>1, RoomySame
<1>27. ASSUME open[o]
       PROVE  Roomy(o)'
  <2> DEFINE from == From(co[o])
  <2>1. Room(w, from, sp, extra, 0)
    BY <1>1, <1>2, <1>18, <1>27, Roomwise DEF Roomy, sp
  <2>2. Spaced(w, from, sp, extra)
    BY <2>1 DEF Room
  <2>3. from \in Int /\ From(co'[o]) = from
    BY <1>1, <1>19, Budget
  <2>4. ~Asking(w)
    BY <1>1, <1>2, <1>27 DEF Placed
  <2>5. w \in Seq(Message) /\ u \in Seq(Message)
    BY <1>3, <1>15
  <2>6. /\ \A j \in DOMAIN u : u[j].type # "EdgeRequest"
        /\ \A j \in DOMAIN u : Is(u, j, "Progress") => u[j].at = next /\ Len(u) - j <= more
    <3>1. \A j \in DOMAIN u : u[j].type = "Progress" => u[j].at = next /\ Len(u) - j = y
      BY <1>15 DEF y
    <3>2. y <= more
      BY <1>22
    <3> QED BY <1>15, <3>1, <3>2 DEF Is
  <2> HIDE DEF w, from
  <2>7. ~Asking(w \o u)
    <3>1. \A j \in DOMAIN (w \o u) : j \in DOMAIN w \/ \E i \in DOMAIN u : j = Len(w) + i
      BY ONLY <2>5, Joined
    <3>2. \A j \in DOMAIN w : (w \o u)[j] = w[j]
      BY ONLY <2>5, Joined
    <3>3. \A i \in DOMAIN u : (w \o u)[Len(w) + i] = u[i]
      BY ONLY <2>5, Joined
    <3> QED BY <2>4, <2>6, <3>1, <3>2, <3>3 DEF Asking, Is
  <2>8. Spaced(w \o u, from, next, more)
    <3>1. \A i \in 0..Len(w) : Beside(w \o u, i) >= Beside(w, i) + 0
      <4>1. \A i \in 0..Len(w) : /\ Beside(w, i) \in Nat /\ Beside(w \o u, i) \in Nat
                                 /\ Beside(w \o u, i) >= Beside(w, i)
        BY ONLY <2>5, BesideMore
      <4> QED BY <4>1
    <3>2. Len(u) <= 2 * (next - sp) + (more - extra) + 0
      BY <1>22 DEF x
    <3>3. sp \in Nat /\ next \in Nat /\ extra \in Nat /\ more \in Nat /\ 0 \in Nat
      BY <1>17, <1>18, <1>22
    <3>4. \A j \in DOMAIN u : Is(u, j, "Progress") => u[j].at = next /\ Len(u) - j <= more
      BY <2>6
    <3> QED BY ONLY <2>2, <2>3, <2>5, <3>1, <3>2, <3>3, <3>4, SpacedMore
  <2>9. Firing(w \o u, from, next)
    BY <2>7, FiringNone
  <2>10. Room(w \o u, from, next, more, 0)
    BY <2>8, <2>9 DEF Room
  <2>11. Stream(o)' = w \o u /\ link'[s].sentProgress = next /\ link'[s].waiting = 0
    BY <1>20, <1>21
  <2> QED BY <1>1, <1>23, <2>3, <2>10, <2>11, RoomyNext
<1> QED BY <1>1, <1>7, <1>24, <1>25, <1>26, <1>27, BothRoomy

\* Nothing is delivered, or it is kept back.
LEMMA NothingDeliveredRoomy ==
  ASSUME IInv, RInv, NEW s \in Sides, NothingToDeliver(s) \/ HoldUnarmed(s)
  PROVE  RInv'
<1>1. Delivering(s) /\ EndPump(s, link[s]) /\ co' = co
  BY DEF NothingToDeliver, HoldUnarmed, Unarmed
<1>2. Shape /\ link[s] \in Bookkeeping
  BY Sidewise, Typed
<1>3. co' = [co EXCEPT ![s] = co'[s]] /\ co'[s] = co[s]
  BY <1>1, <1>2 DEF Shape
<1> QED BY <1>1, <1>2, <1>3, EndPumpRoomy

\* The batch is acknowledged.
LEMMA AcknowledgeDeliveryRoomy ==
  ASSUME IInv, RInv, NEW s \in Sides, AcknowledgeDelivery(s)
  PROVE  RInv'
<1> DEFINE c == co[s]
           d == IF c.deliveryEpisode = NoEpisode THEN [c EXCEPT !.held = {}]
                ELSE [c EXCEPT !.held = {}, !.deliveryEpisode = NoEpisode, !.episodeOpen = FALSE,
                               !.instructions = 0]
<1>1. Delivering(s) /\ EndPump(s, link[s])
  BY DEF AcknowledgeDelivery
<1>2. co' = [co EXCEPT ![s] = d]
  BY DEF AcknowledgeDelivery
<1>3. Shape /\ link[s] \in Bookkeeping /\ c \in Coordinator
  BY Sidewise, Typed
<1>4. d.local = c.local /\ d.peer = c.peer /\ d.progress = c.progress /\ d.permit = c.permit
  <2>1. PICK no, z, h, x : no = FALSE /\ z = 0 /\ h = {} /\ x = NoEpisode
    OBVIOUS
  <2>2. \/ d = [c EXCEPT !.held = h]
        \/ d = [c EXCEPT !.held = h, !.deliveryEpisode = x, !.episodeOpen = no, !.instructions = z]
    BY <2>1
  <2> HIDE DEF c, d
  <2>3. CASE d = [c EXCEPT !.held = h]
    BY ONLY <1>3, <2>3 DEF Coordinator
  <2>4. CASE d = [c EXCEPT !.held = h, !.deliveryEpisode = x, !.episodeOpen = no, !.instructions = z]
    BY ONLY <1>3, <2>4 DEF Coordinator
  <2> QED BY <2>2, <2>3, <2>4
<1> HIDE DEF d
<1>5. co'[s] = d /\ co' = [co EXCEPT ![s] = co'[s]]
  BY <1>2, <1>3 DEF Shape
<1> QED BY <1>1, <1>3, <1>4, <1>5, EndPumpRoomy

\* An episode begins.
LEMMA BeginRearmRoomy ==
  ASSUME IInv, RInv, NEW s \in Sides, BeginRearm(s)
  PROVE  RInv'
<1> DEFINE c == co[s]
           l == link[s]
           ident == l.episodes + 1
           e == [id |-> ident, cycles |-> RearmCycles(s), cap |-> RearmInstructions(s)]
           ending == c.local + e.cycles
           cap == e.cap
           d == [c EXCEPT !.episode = e, !.deliveryEpisode = e, !.episodeOpen = TRUE,
                          !.episodeEnd = ending, !.instructions = cap]
           rest == [l EXCEPT !.episodes = ident]
<1>1. /\ Delivering(s) /\ EndPump(s, rest)
      /\ co' = [co EXCEPT ![s].episode = e, ![s].deliveryEpisode = e, ![s].episodeOpen = TRUE,
                          ![s].episodeEnd = ending, ![s].instructions = cap]
  <2>1. e.id = ident /\ e.cycles = RearmCycles(s)
    OBVIOUS
  <2>2. /\ Delivering(s) /\ EndPump(s, [link[s] EXCEPT !.episodes = e.id])
        /\ co' = [co EXCEPT ![s].episode = e, ![s].deliveryEpisode = e, ![s].episodeOpen = TRUE,
                            ![s].episodeEnd = co[s].local + e.cycles, ![s].instructions = e.cap]
    BY DEF BeginRearm, Unarmed
  <2> QED BY <2>1, <2>2
<1>2. Shape /\ l \in Bookkeeping /\ c \in Coordinator
  BY Sidewise, Typed
<1>3. ident \in Nat
  <2>1. l.episodes \in Nat
    BY <1>2 DEF Bookkeeping
  <2> QED BY <2>1
<1> HIDE DEF e, ident, ending, cap
<1>4. co'[s] = d /\ co' = [co EXCEPT ![s] = co'[s]]
  BY <1>1, <1>2 DEF Shape
<1>5. PICK yes : yes = TRUE
  OBVIOUS
<1>6. d = [c EXCEPT !.episode = e, !.deliveryEpisode = e, !.episodeOpen = yes,
                    !.episodeEnd = ending, !.instructions = cap]
  BY <1>5
<1>7. rest = [l EXCEPT !.episodes = ident]
  OBVIOUS
<1> HIDE DEF d, rest, c, l
<1>8. d.local = c.local /\ d.peer = c.peer /\ d.progress = c.progress /\ d.permit = c.permit
  BY ONLY <1>2, <1>6 DEF Coordinator
<1>9. /\ rest \in Bookkeeping /\ rest.ingress = l.ingress /\ rest.out = l.out
      /\ rest.waiting = l.waiting /\ rest.sentProgress = l.sentProgress /\ rest.sentMark = l.sentMark
  BY ONLY <1>2, <1>3, <1>7 DEF Bookkeeping
<1> QED BY <1>1, <1>4, <1>8, <1>9, EndPumpRoomy DEF c, l

\* Every step of the delivery phase preserves the invariant.
LEMMA DeliverRoomy ==
  ASSUME IInv, RInv, NEW s \in Sides, Deliver(s)
  PROVE  RInv'
BY NothingDeliveredRoomy, PopReadyEdgesRoomy, GiveUpRoomy, ApplyEdgeRoomy, AcknowledgeDeliveryRoomy,
   BeginRearmRoomy DEF Deliver

-----------------------------------------------------------------------------
(* The invariant *)

\* The first message of each side is its progress of zero: one message for the first cycle.
LEMMA InitRoomy ==
  ASSUME Init
  PROVE  RInv
<1> DEFINE g == <<Progress(0)>>
           y == [sent |-> {}, started |-> 0, seen |-> 0, owed |-> <<>>]
<1>1. /\ g \in Seq(Message) /\ DOMAIN g = {1} /\ g[1].type = "Progress" /\ g[1].at = 0
      /\ Len(g) = 1 /\ <<>> \o g = g
  <2>1. Progress(0) \in Message /\ Progress(0).type = "Progress" /\ Progress(0).at = 0
    BY Messages
  <2>2. g \in Seq(Message) /\ DOMAIN g = {1} /\ g[1] = Progress(0) /\ Len(g) = 1
    BY <2>1, Alone
  <2>3. <<>> \o g = g
    BY <2>2, ConcatEmptySeq
  <2> QED BY <2>1, <2>2, <2>3
<1> HIDE DEF g
<1>2. ASSUME NEW s \in Sides
      PROVE  Frugal(s) /\ Roomy(s)
  <2> DEFINE o == Other(s)
  <2>1. o \in Sides
    BY Peers
  <2>2. /\ fault[s] = "none" /\ mode[s] = "none" /\ co[s] = FreshCoordinator
        /\ link[s] = FreshLink /\ link[o] = FreshLink /\ wire[o] = g
        /\ fences[s] = y /\ fences[o] = y
        /\ serial[s] \in {IdleSerial, Armed(IdleSerial, TRUE), Armed(IdleSerial, FALSE)}
    BY <2>1 DEF Init, g
  <2>3. co[s].local = 0 /\ co[s].progress = 0 /\ co[s].permit = 0
    BY <2>2 DEF FreshCoordinator
  <2>4. /\ link[s].ingress = <<>> /\ link[s].settled = 0
        /\ link[s].waiting = 0 /\ link[s].sentProgress = 0 /\ link[s].sentMark = -1
        /\ link[o].waiting = 0 /\ link[o].sentProgress = 0 /\ link[o].sentMark = -1
    BY <2>2 DEF FreshLink
  <2>5. /\ fences[s].started = 0 /\ fences[s].seen = 0 /\ Len(fences[s].owed) = 0
        /\ fences[o].started = 0 /\ fences[o].seen = 0 /\ Len(fences[o].owed) = 0
    <3>1. Len(<<>>) = 0
      OBVIOUS
    <3> QED BY <2>2, <3>1
  <2>6. Clocking(s) => 0 <= serial[s].target
    <3>1. Shape
      BY InitEstablishes, Sidewise
    <3>2. serial[s].target \in Nat
      BY <3>1, Numbers
    <3> QED BY <3>2
  <2>7. MaxFences[s] \in Nat /\ MaxFences[o] \in Nat
    BY <2>1, CableAssumption
  <2>8. Frugal(s)
    <3>1. \A i \in DOMAIN link[s].ingress : FALSE
      BY <2>4
    <3> QED BY <2>2, <2>3, <2>4, <2>5, <2>6, <2>7, <3>1 DEF Frugal
  <2>9. Stream(s) = g
    BY <1>1, <2>2, <2>4 DEF Stream
  <2>10. From(co[s]) = -1 /\ Extra(link[o], fences[o]) = 0
    BY <2>3, <2>4, <2>5 DEF From, Extra
  <2>11. ~Asking(g)
    BY <1>1 DEF Asking, Is
  <2>12. Spaced(g, -1, 0, 0)
    <3>1. Marks(g) \subseteq {0, 1}
      BY <1>1 DEF Marks
    <3>2. At(g, 0, -1) = -1 /\ At(g, 1, -1) = 0
      BY <1>1 DEF At
    <3>3. \A i \in {0, 1} : ~After(g, i, "EdgeRequest") /\ ~After(g, i, "EdgeResponse")
      BY <1>1 DEF After, Is
    <3>4. Beside(g, 0) = 0 /\ Beside(g, 1) = 0
      BY <3>3 DEF Beside
    <3>5. /\ Len(g) - 0 <= 2 * (0 - At(g, 0, -1)) + Beside(g, 0) + 0
          /\ Len(g) - 1 <= 2 * (0 - At(g, 1, -1)) + Beside(g, 1) + 0
      BY <1>1, <3>2, <3>4
    <3> QED BY <3>1, <3>5 DEF Spaced
  <2>13. Firing(g, -1, 0)
    BY <2>11, FiringNone
  <2>14. Room(g, -1, 0, 0, 0)
    BY <2>12, <2>13 DEF Room
  <2>15. Roomy(s)
    BY <2>4, <2>9, <2>10, <2>14 DEF Roomy
  <2> QED BY <2>8, <2>15
<1> QED BY <1>2 DEF RInv

\* Every step of a side, its cable or its owner preserves the invariant.
LEMMA NextRoomy ==
  ASSUME Ample, IInv, RInv, Next
  PROVE  RInv'
<1>1. ASSUME NEW s \in Sides, Execute(s) PROVE RInv'
  <2>1. CASE Reserve(s)
    BY <2>1, ReserveRoomy
  <2>2. CASE \E a \in co[s].local..(co[s].local + co[s].permit) : Access(s, a)
    BY <2>2, AccessRoomy
  <2>3. CASE \E w \in Writes[s] : Touch(s, w)
    BY <2>3, TouchRoomy
  <2>4. CASE \E elapsed \in 1..co[s].permit, executed \in {0, 1} : Commit(s, elapsed, executed)
    BY <2>4, CommitRoomy
  <2>5. CASE FireEdge(s) \/ StageWhileWaiting(s) \/ TakeResponse(s)
    BY <2>5, FireEdgeRoomy, StageWhileWaitingRoomy, TakeResponseRoomy
  <2> QED BY <1>1, <2>1, <2>2, <2>3, <2>4, <2>5 DEF Execute
<1>2. ASSUME NEW s \in Sides, Owner(s) PROVE RInv'
  <2>1. CASE \E n \in Polled(s) : PumpBefore(s, n) \/ PumpEnd(s, n) \/ PumpFence(s, n) \/ PumpWait(s, n)
    BY <2>1, PumpRoomy
  <2>2. CASE PollFence(s)
    BY <2>2, PollFenceRoomy
  <2>3. CASE Deliver(s)
    BY <2>3, DeliverRoomy
  <2>4. CASE Notice(s) \/ Break(s)
    BY <2>4, StopRoomy
  <2>5. CASE Consume(s)
    BY <2>5, ConsumeRoomy
  <2> QED BY <1>1, <1>2, <2>1, <2>2, <2>3, <2>4, <2>5 DEF Owner
<1>3. ASSUME NEW s \in Sides, Eof(s) \/ Expire(s) \/ Cancel(s) PROVE RInv'
  BY <1>3, EofRoomy, StopRoomy, CancelRoomy
<1>4. Impatient \subseteq Sides /\ Cancellable \subseteq Sides
  BY CableAssumption
<1> QED BY <1>2, <1>3, <1>4 DEF Next

\* A step that changes nothing preserves it.
LEMMA StutterRoomy ==
  ASSUME RInv, UNCHANGED vars
  PROVE  RInv'
<1>1. /\ mode' = mode /\ co' = co /\ serial' = serial /\ link' = link
      /\ fences' = fences /\ open' = open /\ wire' = wire /\ fault' = fault
  BY DEF vars
<1>2. ASSUME NEW s \in Sides PROVE Frugal(s)' /\ (open'[s] => Roomy(s)')
  <2>1. Other(s) \in Sides /\ Frugal(s) /\ (open[s] => Roomy(s))
    BY Peers, Roomwise
  <2>2. Stream(s)' = Stream(s)
    BY <1>1 DEF Stream
  <2>3. Frugal(s)'
    BY <1>1, <2>1, FrugalSame
  <2>4. open'[s] => Roomy(s)'
    BY <1>1, <2>1, <2>2, RoomySame
  <2> QED BY <2>3, <2>4
<1> QED BY <1>2 DEF RInv

\* If the capacity is ample no session ever fails because what has arrived and is not yet applied
\* exceeds it, not while it waits for an answer either: ingress_capacity as _stage and _poll count
\* against it, and the delivery queue with it.
THEOREM RoomIsEnough == ASSUME Ample PROVE Spec => []RoomForAll
<1>1. Init => RInv
  BY InitRoomy
<1>2. IInv /\ RInv /\ [Next]_vars => RInv'
  BY NextRoomy, StutterRoomy
<1>3. RInv => \A s \in Sides : fault[s] # "capacity"
  BY DEF RInv, Frugal
<1>4. TypeOK /\ (\A s \in Sides : fault[s] # "capacity") => RoomForAll
  BY DEF RoomForAll
<1> QED BY <1>1, <1>2, <1>3, <1>4, CableInvariant, SidesAreTyped, PTL DEF Spec
=============================================================================
