------------------------- MODULE ExchangeLinkProofs -------------------------
(***************************************************************************)
(* Proofs about ExchangeLink for every set of callers and kinds, every     *)
(* number of exchanges, and any limits that leave room for two payloads of *)
(* each kind.                                                              *)
(***************************************************************************)
EXTENDS ExchangeLink, FiniteSetTheorems, SequenceTheorems, TLAPS

-----------------------------------------------------------------------------
(* The inductive invariant *)

(* What is on the way to an end, in the order in which it is dispatched. *)
Stream(e) == hand[e] \o wire[e]

Of(k, f) == f.op = "exchange" /\ f.kind = k

(* A call has its slot from its start to its end, and its number once it   *)
(* has written.                                                            *)
Slots ==
  /\ \A c \in Callers : pc[c] # "idle" =>
       call[c].kind \in Kinds /\ slot[At(c)][call[c].kind] = c
  /\ \A e \in Ends, k \in Kinds : slot[e][k] # Nobody =>
       LET c == slot[e][k] IN At(c) = e /\ pc[c] # "idle" /\ call[c].kind = k
  /\ \A c \in Callers : pc[c] = "wait" => call[c].own = sent[At(c)][call[c].kind]

Waiting(e, k) == slot[e][k] # Nobody /\ pc[slot[e][k]] = "wait"

(* How many payloads of the peer have been taken, as long as it matters:   *)
(* all the calls before the one that waits have had their answer.          *)
Taken(e, k) == IF Waiting(e, k) THEN sent[e][k] - 1 ELSE sent[e][k]

(* What waits in a queue follows what was taken from it. *)
QueuesFollow ==
  \A e \in Ends, k \in Kinds :
    /\ Len(inbound[e][k]) <= 2
    /\ Waiting(e, k) => sent[e][k] >= 1
    /\ link[e] = "open" \/ Waiting(e, k) =>
         \A i \in DOMAIN inbound[e][k] : inbound[e][k][i] = Taken(e, k) + i

(* A stream that carries the payloads of a kind after lo up to hi, each    *)
(* once and in order, and one that begins with the only HELLO, unless it   *)
(* has been dispatched.                                                    *)
Carries(s, k, lo, hi) ==
  /\ lo <= hi
  /\ \A i \in DOMAIN s : Of(k, s[i]) => lo < s[i].payload /\ s[i].payload <= hi
  /\ \A n \in Nat : lo < n /\ n <= hi => \E i \in DOMAIN s : Of(k, s[i]) /\ s[i].payload = n
  /\ \A i, j \in DOMAIN s : i < j /\ Of(k, s[i]) /\ Of(k, s[j]) => s[i].payload < s[j].payload

Greets(s, greeted) ==
  /\ \A i \in DOMAIN s : s[i].op = "hello" => i = 1 /\ ~greeted
  /\ ~greeted => s # <<>> /\ s[1].op = "hello"

(* What is on the way to an open end follows what has been queued there,   *)
(* up to what its peer has written last.                                   *)
Dispatched(e, k) == Taken(e, k) + Len(inbound[e][k])

StreamFollows ==
  \A e \in Ends : link[e] = "open" =>
    /\ \A k \in Kinds : Carries(Stream(e), k, Dispatched(e, k), sent[Peer(e)][k])
    /\ Greets(Stream(e), hello[e])

(* Neither end is ahead of the other by more than the exchange in flight. *)
InStep == \A e \in Ends, k \in Kinds : sent[Peer(e)][k] <= sent[e][k] + 1

IInv == TypeOK /\ Slots /\ QueuesFollow /\ StreamFollows /\ InStep /\ QueuesAccounted

-----------------------------------------------------------------------------
(* The two ends, frames and streams *)

\* Each end is the peer of its peer.
LEMMA Peers ==
  ASSUME NEW e \in Ends
  PROVE  Peer(e) \in Ends /\ Peer(e) # e /\ Peer(Peer(e)) = e /\ \A f \in Ends : f = e \/ f = Peer(e)
<1>1. PICK a, b \in Ends : a # b /\ Ends = {a, b}
  BY EndsAssumption
<1>2. \A f \in Ends : Peer(f) \in Ends /\ Peer(f) # f
  BY <1>1 DEF Peer
<1> QED BY <1>1, <1>2

\* The kinds of frames.
LEMMA Frames ==
  /\ Hello \in Frame /\ Hello.op = "hello" /\ Bye \in Frame /\ Bye.op = "bye"
  /\ \A k \in Kinds, n \in Nat :
       Exchange(k, n) \in Frame /\ Of(k, Exchange(k, n)) /\ Exchange(k, n).payload = n
       /\ Exchange(k, n).op = "exchange" /\ \A q \in Kinds : Of(q, Exchange(k, n)) => q = k
  /\ \A f \in Frame : f.op = "exchange" => f.kind \in Kinds /\ f.payload \in Nat
  /\ \A f \in Frame : f.op \in {"hello", "bye", "exchange"}
BY DEF Frame, Hello, Bye, Exchange, Of

\* A frame is added at the end of a stream.
LEMMA StreamAppend ==
  ASSUME NEW s \in Seq(Frame), NEW f \in Frame
  PROVE  LET t == Append(s, f)
         IN /\ t \in Seq(Frame) /\ DOMAIN s = 1..Len(s) /\ Len(s) \in Nat
            /\ DOMAIN t = 1..Len(s) + 1
            /\ \A i \in 1..Len(s) : t[i] = s[i] /\ s[i] \in Frame
            /\ t[Len(s) + 1] = f /\ t # <<>>
BY AppendProperties, LenProperties, ElementOfSeq

\* A frame of another kind changes nothing about what is carried of a kind.
LEMMA AppendOther ==
  ASSUME NEW s \in Seq(Frame), NEW f \in Frame, NEW k \in Kinds, NEW lo, NEW hi,
         ~Of(k, f), Carries(s, k, lo, hi)
  PROVE  Carries(Append(s, f), k, lo, hi)
<1> DEFINE t == Append(s, f)
<1>1. /\ DOMAIN s = 1..Len(s) /\ Len(s) \in Nat /\ DOMAIN t = 1..Len(s) + 1
      /\ \A i \in 1..Len(s) : t[i] = s[i]
      /\ t[Len(s) + 1] = f
  BY StreamAppend
<1> HIDE DEF t
<1>2. \A i \in DOMAIN t : Of(k, t[i]) => i \in DOMAIN s /\ t[i] = s[i]
  BY <1>1
<1>3. \A i \in DOMAIN s : i \in DOMAIN t /\ t[i] = s[i]
  BY <1>1
<1>4. Carries(t, k, lo, hi)
  BY <1>2, <1>3 DEF Carries
<1> QED BY <1>4 DEF t

\* The next payload of a kind is carried after the others.
LEMMA AppendNext ==
  ASSUME NEW s \in Seq(Frame), NEW k \in Kinds, NEW lo \in Nat, NEW hi \in Nat,
         Carries(s, k, lo, hi)
  PROVE  Carries(Append(s, Exchange(k, hi + 1)), k, lo, hi + 1)
<1> DEFINE f == Exchange(k, hi + 1)
           t == Append(s, f)
<1>1. f \in Frame /\ Of(k, f) /\ f.payload = hi + 1
  BY Frames
<1> HIDE DEF f
<1>2. /\ DOMAIN s = 1..Len(s) /\ Len(s) \in Nat /\ DOMAIN t = 1..Len(s) + 1
      /\ \A i \in 1..Len(s) : t[i] = s[i] /\ s[i] \in Frame
      /\ t[Len(s) + 1] = f
  BY <1>1, StreamAppend
<1> HIDE DEF t
<1>3. \A i \in DOMAIN s : Of(k, s[i]) => s[i].payload \in Nat /\ lo < s[i].payload /\ s[i].payload <= hi
  BY <1>2, Frames DEF Carries, Of
<1>4. \A i \in DOMAIN t : i = Len(s) + 1 \/ (i \in DOMAIN s /\ t[i] = s[i])
  BY <1>2
<1>5. \A i \in DOMAIN t : Of(k, t[i]) => lo < t[i].payload /\ t[i].payload <= hi + 1
  BY <1>1, <1>2, <1>3, <1>4 DEF Carries
<1>6. \A n \in Nat : lo < n /\ n <= hi + 1 => \E i \in DOMAIN t : Of(k, t[i]) /\ t[i].payload = n
  <2> SUFFICES ASSUME NEW n \in Nat, lo < n, n <= hi + 1
               PROVE  \E i \in DOMAIN t : Of(k, t[i]) /\ t[i].payload = n
    OBVIOUS
  <2>1. CASE n = hi + 1
    BY <2>1, <1>1, <1>2
  <2>2. CASE n <= hi
    <3>1. PICK i \in DOMAIN s : Of(k, s[i]) /\ s[i].payload = n
      BY <2>2 DEF Carries
    <3> QED BY <3>1, <1>2
  <2> QED BY <2>1, <2>2
<1>7. \A i, j \in DOMAIN t : i < j /\ Of(k, t[i]) /\ Of(k, t[j]) => t[i].payload < t[j].payload
  <2> SUFFICES ASSUME NEW i \in DOMAIN t, NEW j \in DOMAIN t, i < j, Of(k, t[i]), Of(k, t[j])
               PROVE  t[i].payload < t[j].payload
    OBVIOUS
  <2>1. i \in DOMAIN s /\ t[i] = s[i]
    BY <1>2
  <2>2. CASE j = Len(s) + 1
    BY <2>1, <2>2, <1>1, <1>2, <1>3
  <2>3. CASE j \in DOMAIN s /\ t[j] = s[j]
    BY <2>1, <2>3 DEF Carries
  <2> QED BY <2>2, <2>3, <1>4
<1>8. lo <= hi + 1
  BY DEF Carries
<1>9. Carries(t, k, lo, hi + 1)
  BY <1>5, <1>6, <1>7, <1>8 DEF Carries
<1> QED BY <1>9 DEF t, f

\* What is written later does not come before the HELLO.
LEMMA AppendGreets ==
  ASSUME NEW s \in Seq(Frame), NEW f \in Frame, NEW greeted, f.op # "hello", Greets(s, greeted)
  PROVE  Greets(Append(s, f), greeted)
<1> DEFINE t == Append(s, f)
<1>1. /\ DOMAIN s = 1..Len(s) /\ Len(s) \in Nat /\ DOMAIN t = 1..Len(s) + 1
      /\ \A i \in 1..Len(s) : t[i] = s[i]
      /\ t[Len(s) + 1] = f /\ t # <<>>
  BY StreamAppend
<1>2. s # <<>> => 1 \in DOMAIN s
  BY <1>1, EmptySeq
<1> HIDE DEF t
<1>3. Greets(t, greeted)
  BY <1>1, <1>2 DEF Greets
<1> QED BY <1>3 DEF t

\* The first frame of a stream is dispatched.
LEMMA StreamTail ==
  ASSUME NEW s \in Seq(Frame), s # <<>>
  PROVE  LET t == Tail(s)
         IN /\ t \in Seq(Frame) /\ DOMAIN s = 1..Len(s) /\ Len(s) \in Nat \ {0} /\ s[1] \in Frame
            /\ DOMAIN t = 1..Len(s) - 1
            /\ \A i \in 1..Len(s) - 1 : t[i] = s[i + 1]
            /\ \A i \in DOMAIN s : s[i] \in Frame
<1>1. Len(s) \in Nat \ {0} /\ DOMAIN s = 1..Len(s) /\ \A i \in 1..Len(s) : s[i] \in Frame
  BY EmptySeq, LenProperties, ElementOfSeq
<1>2. /\ Tail(s) \in Seq(Frame) /\ Len(Tail(s)) = Len(s) - 1
      /\ \A i \in 1..Len(Tail(s)) : Tail(s)[i] = s[i + 1]
  BY HeadTailProperties
<1>3. DOMAIN Tail(s) = 1..Len(s) - 1
  BY <1>2, LenProperties
<1> QED BY <1>1, <1>2, <1>3

\* Dispatching a frame of another kind leaves what is carried of a kind.
LEMMA TailOther ==
  ASSUME NEW s \in Seq(Frame), s # <<>>, NEW k \in Kinds, NEW lo, NEW hi,
         ~Of(k, s[1]), Carries(s, k, lo, hi)
  PROVE  Carries(Tail(s), k, lo, hi)
<1> DEFINE t == Tail(s)
<1>1. /\ DOMAIN s = 1..Len(s) /\ Len(s) \in Nat \ {0} /\ DOMAIN t = 1..Len(s) - 1
      /\ \A i \in 1..Len(s) - 1 : t[i] = s[i + 1]
  BY StreamTail
<1> HIDE DEF t
<1>2. \A i \in DOMAIN t : i + 1 \in DOMAIN s /\ t[i] = s[i + 1] /\ i \in Nat
  BY <1>1
<1>3. \A i \in DOMAIN s : Of(k, s[i]) => i - 1 \in DOMAIN t /\ t[i - 1] = s[i]
  BY <1>1
<1>4. \A i, j \in DOMAIN t : i < j => i + 1 < j + 1
  BY <1>2
<1>5. Carries(t, k, lo, hi)
  BY <1>2, <1>3, <1>4 DEF Carries
<1> QED BY <1>5 DEF t

\* The first payload of a kind to be dispatched is the one after the last
\* that was, and the rest follows it.
LEMMA TailNext ==
  ASSUME NEW s \in Seq(Frame), s # <<>>, NEW k \in Kinds, NEW lo \in Nat, NEW hi \in Nat,
         Of(k, s[1]), Carries(s, k, lo, hi)
  PROVE  s[1].payload = lo + 1 /\ lo + 1 <= hi /\ Carries(Tail(s), k, lo + 1, hi)
<1> DEFINE t == Tail(s)
<1>1. /\ DOMAIN s = 1..Len(s) /\ Len(s) \in Nat \ {0} /\ DOMAIN t = 1..Len(s) - 1
      /\ \A i \in 1..Len(s) - 1 : t[i] = s[i + 1]
      /\ \A i \in DOMAIN s : s[i] \in Frame
  BY StreamTail
<1> HIDE DEF t
<1>2. \A i \in DOMAIN s : Of(k, s[i]) => s[i].payload \in Nat /\ lo < s[i].payload /\ s[i].payload <= hi
  BY <1>1, Frames DEF Carries, Of
<1>3. 1 \in DOMAIN s
  BY <1>1
<1>4. lo + 1 <= hi
  BY <1>2, <1>3
<1>5. PICK i \in DOMAIN s : Of(k, s[i]) /\ s[i].payload = lo + 1
  BY <1>4 DEF Carries
<1>6. i = 1
  <2> SUFFICES ASSUME i # 1 PROVE FALSE
    OBVIOUS
  <2>1. 1 < i
    BY <1>1
  <2>2. s[1].payload < s[i].payload
    BY <2>1, <1>3, <1>5 DEF Carries
  <2> QED BY <2>2, <1>2, <1>3, <1>5
<1>7. \A j \in DOMAIN t : j + 1 \in DOMAIN s /\ t[j] = s[j + 1] /\ j \in Nat \ {0}
  BY <1>1
<1>8. \A j \in DOMAIN t : Of(k, t[j]) => lo + 1 < t[j].payload /\ t[j].payload <= hi
  <2> SUFFICES ASSUME NEW j \in DOMAIN t, Of(k, t[j])
               PROVE  lo + 1 < t[j].payload /\ t[j].payload <= hi
    OBVIOUS
  <2>1. j + 1 \in DOMAIN s /\ t[j] = s[j + 1] /\ 1 < j + 1
    BY <1>7
  <2>2. s[1].payload < s[j + 1].payload
    BY <2>1, <1>3 DEF Carries
  <2> QED BY <2>1, <2>2, <1>2, <1>5, <1>6
<1>9. \A n \in Nat : lo + 1 < n /\ n <= hi => \E j \in DOMAIN t : Of(k, t[j]) /\ t[j].payload = n
  <2> SUFFICES ASSUME NEW n \in Nat, lo + 1 < n, n <= hi
               PROVE  \E j \in DOMAIN t : Of(k, t[j]) /\ t[j].payload = n
    OBVIOUS
  <2>1. PICK j \in DOMAIN s : Of(k, s[j]) /\ s[j].payload = n
    BY DEF Carries
  <2>2. j # 1
    BY <2>1, <1>5, <1>6
  <2>3. j - 1 \in DOMAIN t /\ t[j - 1] = s[j]
    BY <2>2, <1>1
  <2> QED BY <2>1, <2>3
<1>10. \A i1, j \in DOMAIN t : i1 < j /\ Of(k, t[i1]) /\ Of(k, t[j]) => t[i1].payload < t[j].payload
  <2>1. \A i1, j \in DOMAIN t : i1 < j => i1 + 1 < j + 1
    BY <1>7
  <2> QED BY <2>1, <1>7 DEF Carries
<1>11. Carries(t, k, lo + 1, hi)
  BY <1>4, <1>8, <1>9, <1>10 DEF Carries
<1> QED BY <1>4, <1>5, <1>6, <1>11 DEF t

\* An end that was not greeted has a HELLO next, and a greeted one has none
\* on the way.
LEMMA TailGreets ==
  ASSUME NEW s \in Seq(Frame), s # <<>>, NEW greeted \in BOOLEAN, Greets(s, greeted)
  PROVE  /\ s[1].op = "hello" <=> ~greeted
         /\ Greets(Tail(s), TRUE)
<1>1. /\ DOMAIN s = 1..Len(s) /\ Len(s) \in Nat \ {0} /\ DOMAIN Tail(s) = 1..Len(s) - 1
      /\ \A i \in 1..Len(s) - 1 : Tail(s)[i] = s[i + 1]
  BY StreamTail
<1>2. 1 \in DOMAIN s
  BY <1>1
<1>3. \A i \in DOMAIN Tail(s) : i + 1 \in DOMAIN s /\ Tail(s)[i] = s[i + 1] /\ i + 1 # 1
  BY <1>1
<1> QED BY <1>2, <1>3 DEF Greets

\* Reading moves a frame along the stream, dispatching takes its first one
\* and writing adds one.
LEMMA StreamMoves ==
  ASSUME NEW h \in Seq(Frame), NEW w \in Seq(Frame), Len(h) <= 1
  PROVE  /\ h \o w \in Seq(Frame)
         /\ h = <<>> /\ w # <<>> => <<Head(w)>> \o Tail(w) = h \o w
         /\ h # <<>> => /\ h \o w # <<>> /\ (h \o w)[1] = Head(h) /\ Tail(h \o w) = <<>> \o w
                        /\ Head(h) \in Frame
         /\ \A f \in Frame : h \o Append(w, f) = Append(h \o w, f)
<1>1. h \o w \in Seq(Frame)
  BY ConcatProperties
<1>2. ASSUME h = <<>>, w # <<>> PROVE <<Head(w)>> \o Tail(w) = h \o w
  <2>1. Len(w) \in Nat \ {0} /\ 1 \in 1..Len(w) /\ Len(w) \in 1..Len(w)
    BY <1>2, EmptySeq
  <2>2. Head(w) = w[1] /\ Tail(w) = SubSeq(w, 2, Len(w))
    BY <1>2, <2>1, TailIsSubSeq
  <2>3. SubSeq(w, 1, Len(w)) = <<w[1]>> \o SubSeq(w, 1 + 1, Len(w))
    BY <2>1, SubSeqRecursiveFirst
  <2> QED BY <1>2, <2>2, <2>3, SubSeqFull, ConcatEmptySeq
<1>3. ASSUME h # <<>>
      PROVE  /\ h \o w # <<>> /\ (h \o w)[1] = Head(h) /\ Tail(h \o w) = <<>> \o w
             /\ Head(h) \in Frame
  <2>1. Len(h) = 1 /\ Len(w) \in Nat /\ h[1] = Head(h) /\ Head(h) \in Frame
    BY SMTT(30), <1>3, EmptySeq, LenProperties, HeadTailProperties
  <2>2. /\ Len(h \o w) = 1 + Len(w)
        /\ \A i \in 1..1 + Len(w) : (h \o w)[i] = IF i <= 1 THEN h[i] ELSE w[i - 1]
    <3>1. /\ Len(h \o w) = Len(h) + Len(w)
          /\ \A i \in 1..Len(h) + Len(w) :
               (h \o w)[i] = IF i <= Len(h) THEN h[i] ELSE w[i - Len(h)]
      BY ConcatProperties
    <3> QED BY <2>1, <3>1
  <2>3. h \o w # <<>>
    BY <2>1, <2>2, EmptySeq
  <2>4. /\ Tail(h \o w) \in Seq(Frame) /\ Len(Tail(h \o w)) = Len(w)
        /\ \A i \in 1..Len(w) : Tail(h \o w)[i] = (h \o w)[i + 1]
    BY <1>1, <2>1, <2>2, <2>3, HeadTailProperties
  <2>5. \A i \in 1..Len(w) : Tail(h \o w)[i] = w[i]
    BY <2>1, <2>2, <2>4
  <2>6. Tail(h \o w) = w
    BY <2>4, <2>5, SeqEqual
  <2>7. <<>> \o w = w
    BY ConcatEmptySeq
  <2> QED BY <2>1, <2>2, <2>3, <2>6, <2>7
<1>4. ASSUME NEW f \in Frame PROVE h \o Append(w, f) = Append(h \o w, f)
  OBVIOUS
<1> QED BY <1>1, <1>2, <1>3, <1>4

-----------------------------------------------------------------------------
(* Queues *)

\* Two places of a queue.
LEMMA OneTwo == IsFiniteSet(1..2) /\ Cardinality(1..2) = 2
<1>1. ASSUME NEW a \in Int, NEW b \in Int, a <= b
      PROVE  IsFiniteSet(a..b) /\ Cardinality(a..b) = b - a + 1
  BY <1>1, FS_Interval
<1>2. 1 \in Int /\ 2 \in Int /\ 1 <= 2 /\ (2 - 1) + 1 = 2
  OBVIOUS
<1>3. IsFiniteSet(1..2) /\ Cardinality(1..2) = (2 - 1) + 1
  BY <1>1, <1>2, Zenon
<1> QED BY <1>2, <1>3, Zenon

\* What waits in the queues of an end is finite.
LEMMA QueuedFinite ==
  ASSUME TypeOK, QueuesFollow, NEW e \in Ends
  PROVE  /\ IsFiniteSet(Queued(e))
         /\ \A k \in Kinds : DOMAIN inbound[e][k] = 1..Len(inbound[e][k]) /\ Len(inbound[e][k]) \in Nat
         /\ Queued(e) \subseteq Kinds \X (1..2)
         /\ \A p : p \in Queued(e) <=> \E k \in Kinds : \E i \in DOMAIN inbound[e][k] : p = <<k, i>>
<1>1. \A k \in Kinds : DOMAIN inbound[e][k] = 1..Len(inbound[e][k]) /\ Len(inbound[e][k]) \in Nat
  BY LenProperties DEF TypeOK
<1>2. \A p : p \in Queued(e) <=> \E k \in Kinds : \E i \in DOMAIN inbound[e][k] : p = <<k, i>>
  BY DEF Queued
<1>3. Queued(e) \subseteq Kinds \X (1..2)
  BY <1>1, <1>2 DEF QueuesFollow
<1>4. IsFiniteSet(Kinds \X (1..2)) /\ IsFiniteSet(Queued(e))
  <2>1. IsFiniteSet(Kinds) /\ IsFiniteSet(1..2)
    BY LimitsAssumption, OneTwo
  <2>2. IsFiniteSet(Kinds \X (1..2))
    BY <2>1, FS_Product
  <2> QED BY <1>3, <2>2, FS_Subset
<1> QED BY <1>1, <1>2, <1>3, <1>4

\* With one of two places of a kind free, an end has room for a frame.
LEMMA Room ==
  ASSUME TypeOK, QueuesFollow, NEW e \in Ends, NEW k \in Kinds, Len(inbound[e][k]) <= 1,
         frames[e] = Cardinality(Queued(e))
  PROVE  ~Over(e, k)
<1> DEFINE all == Kinds \X (1..2)
<1>1. /\ IsFiniteSet(Kinds) /\ IsFiniteSet(1..2) /\ Cardinality(1..2) = 2
      /\ Cardinality(Kinds) \in Nat
  <2>1. IsFiniteSet(Kinds)
    BY LimitsAssumption
  <2> QED BY <2>1, OneTwo, FS_CardinalityType
<1>2. IsFiniteSet(all) /\ Cardinality(all) = Cardinality(Kinds) * 2
  BY <1>1, FS_Product
<1>3. <<k, 2>> \in all /\ <<k, 2>> \notin Queued(e)
  <2>1. 2 \notin DOMAIN inbound[e][k]
    BY QueuedFinite
  <2> QED BY <2>1, QueuedFinite
<1>4. Queued(e) \subseteq all \ {<<k, 2>>}
  BY <1>3, QueuedFinite
<1>5. IsFiniteSet(all \ {<<k, 2>>}) /\ Cardinality(all \ {<<k, 2>>}) = Cardinality(all) - 1
  BY <1>2, <1>3, FS_RemoveElement
<1>6. Cardinality(Queued(e)) <= Cardinality(all \ {<<k, 2>>})
  BY <1>4, <1>5, FS_Subset
<1>7. frames[e] <= 2 * Cardinality(Kinds) - 1
  BY <1>1, <1>2, <1>5, <1>6 DEF TypeOK
<1>8. frames[e] < FrameLimit
  BY <1>1, <1>7, LimitsAssumption DEF TypeOK
<1>9. Len(inbound[e][k]) < QueueLimit /\ Len(inbound[e][k]) \in Nat
  BY LimitsAssumption, QueuedFinite
<1> QED BY <1>8, <1>9, LimitsAssumption DEF Over, TypeOK

\* A payload is queued, and counted.
LEMMA QueueOne ==
  ASSUME TypeOK, QueuesFollow, NEW e \in Ends, NEW k \in Kinds, NEW n \in Nat,
         inbound' = [inbound EXCEPT ![e][k] = Append(@, n)]
  PROVE  /\ inbound' \in [Ends -> [Kinds -> Seq(Nat)]]
         /\ \A f \in Ends, q \in Kinds : f # e \/ q # k => inbound'[f][q] = inbound[f][q]
         /\ Len(inbound'[e][k]) = Len(inbound[e][k]) + 1
         /\ \A i \in DOMAIN inbound'[e][k] :
              \/ i \in DOMAIN inbound[e][k] /\ inbound'[e][k][i] = inbound[e][k][i]
              \/ i = Len(inbound[e][k]) + 1 /\ inbound'[e][k][i] = n
         /\ Cardinality(Queued(e))' = Cardinality(Queued(e)) + 1
         /\ \A f \in Ends : f # e => Queued(f)' = Queued(f)
<1> DEFINE s == inbound[e][k]
           t == Append(s, n)
<1>1. /\ s \in Seq(Nat) /\ t \in Seq(Nat) /\ DOMAIN s = 1..Len(s) /\ Len(s) \in Nat
      /\ Len(t) = Len(s) + 1 /\ DOMAIN t = 1..Len(s) + 1
      /\ \A i \in 1..Len(s) : t[i] = s[i]
      /\ t[Len(s) + 1] = n
  BY AppendProperties, LenProperties DEF TypeOK
<1>2. /\ inbound' \in [Ends -> [Kinds -> Seq(Nat)]]
      /\ inbound'[e][k] = t
      /\ \A f \in Ends, q \in Kinds : f # e \/ q # k => inbound'[f][q] = inbound[f][q]
  BY <1>1 DEF TypeOK
<1> HIDE DEF t
<1>3. Queued(e)' = Queued(e) \cup {<<k, Len(s) + 1>>} /\ <<k, Len(s) + 1>> \notin Queued(e)
  <2>1. \A p : p \in Queued(e)' <=> \E q \in Kinds : \E i \in DOMAIN inbound'[e][q] : p = <<q, i>>
    BY DEF Queued
  <2>2. \A p : p \in Queued(e) <=> \E q \in Kinds : \E i \in DOMAIN inbound[e][q] : p = <<q, i>>
    BY QueuedFinite
  <2>3. DOMAIN inbound'[e][k] = DOMAIN inbound[e][k] \cup {Len(s) + 1}
    BY <1>1, <1>2
  <2>4. Len(s) + 1 \notin DOMAIN inbound[e][k]
    BY <1>1
  <2> HIDE DEF s
  <2>5. \A p : p \in Queued(e)' <=> p \in Queued(e) \/ p = <<k, Len(s) + 1>>
    BY <1>2, <2>1, <2>2, <2>3
  <2> QED BY <2>2, <2>4, <2>5
<1>4. Cardinality(Queued(e)') = Cardinality(Queued(e)) + 1
  BY <1>3, QueuedFinite, FS_AddElement
<1>5. \A f \in Ends : f # e => Queued(f)' = Queued(f)
  BY <1>2 DEF Queued
<1> QED BY <1>1, <1>2, <1>4, <1>5

\* The first payload is taken, and no longer counted.
LEMMA TakeOne ==
  ASSUME TypeOK, QueuesFollow, NEW e \in Ends, NEW k \in Kinds, inbound[e][k] # <<>>,
         inbound' = [inbound EXCEPT ![e][k] = Tail(@)]
  PROVE  /\ inbound' \in [Ends -> [Kinds -> Seq(Nat)]]
         /\ \A f \in Ends, q \in Kinds : f # e \/ q # k => inbound'[f][q] = inbound[f][q]
         /\ Len(inbound'[e][k]) = Len(inbound[e][k]) - 1
         /\ \A i \in DOMAIN inbound'[e][k] :
              i \in Nat /\ i + 1 \in DOMAIN inbound[e][k] /\ inbound'[e][k][i] = inbound[e][k][i + 1]
         /\ Cardinality(Queued(e))' = Cardinality(Queued(e)) - 1
         /\ Cardinality(Queued(e)) \in Nat \ {0}
         /\ \A f \in Ends : f # e => Queued(f)' = Queued(f)
<1> DEFINE s == inbound[e][k]
           t == Tail(s)
<1>1. /\ s \in Seq(Nat) /\ t \in Seq(Nat) /\ DOMAIN s = 1..Len(s) /\ Len(s) \in Nat \ {0}
      /\ Len(t) = Len(s) - 1 /\ DOMAIN t = 1..Len(s) - 1
      /\ \A i \in 1..Len(s) - 1 : t[i] = s[i + 1]
  BY HeadTailProperties, LenProperties, EmptySeq DEF TypeOK
<1>2. /\ inbound' \in [Ends -> [Kinds -> Seq(Nat)]]
      /\ inbound'[e][k] = t
      /\ \A f \in Ends, q \in Kinds : f # e \/ q # k => inbound'[f][q] = inbound[f][q]
  BY <1>1 DEF TypeOK
<1> HIDE DEF t
<1>3. Queued(e)' = Queued(e) \ {<<k, Len(s)>>} /\ <<k, Len(s)>> \in Queued(e)
  <2>1. \A p : p \in Queued(e)' <=> \E q \in Kinds : \E i \in DOMAIN inbound'[e][q] : p = <<q, i>>
    BY DEF Queued
  <2>2. \A p : p \in Queued(e) <=> \E q \in Kinds : \E i \in DOMAIN inbound[e][q] : p = <<q, i>>
    BY QueuedFinite
  <2>3. DOMAIN inbound'[e][k] = DOMAIN inbound[e][k] \ {Len(s)} /\ Len(s) \in DOMAIN inbound[e][k]
    BY <1>1, <1>2
  <2> HIDE DEF s
  <2>4. \A p : p \in Queued(e)' <=> p \in Queued(e) /\ p # <<k, Len(s)>>
    BY <1>2, <2>1, <2>2, <2>3
  <2> QED BY <2>2, <2>3, <2>4
<1>4. /\ Cardinality(Queued(e)') = Cardinality(Queued(e)) - 1
      /\ Cardinality(Queued(e)) \in Nat \ {0}
  <2>1. Cardinality(Queued(e)') = Cardinality(Queued(e)) - 1
    <3>1. IsFiniteSet(Queued(e))
      BY QueuedFinite
    <3>2. Cardinality(Queued(e) \ {<<k, Len(s)>>}) = Cardinality(Queued(e)) - 1
      BY <1>3, <3>1, FS_RemoveElement
    <3> QED BY <1>3, <3>2
  <2>2. Cardinality(Queued(e)) \in Nat /\ Cardinality(Queued(e)) # 0
    BY <1>3, QueuedFinite, FS_CardinalityType, FS_EmptySet
  <2> QED BY <2>1, <2>2
<1>5. \A f \in Ends : f # e => Queued(f)' = Queued(f)
  BY <1>2 DEF Queued
<1>6. \A i \in DOMAIN inbound'[e][k] :
        i \in Nat /\ i + 1 \in DOMAIN inbound[e][k] /\ inbound'[e][k][i] = inbound[e][k][i + 1]
  BY <1>1, <1>2
<1> QED BY <1>1, <1>2, <1>4, <1>5, <1>6

-----------------------------------------------------------------------------
(* Steps of callers *)

\* An end that is marked closed stays so, and only its first cause counts.
LEMMA Marking ==
  ASSUME TypeOK, NEW e \in Ends, NEW why \in {"own", "failed", "protocol", "bye", "eof"},
         MarkClosed(e, why)
  PROVE  /\ link' \in [Ends -> {"open", "closing", "closed"}]
         /\ cause' \in [Ends -> {"none", "own", "failed", "protocol", "bye", "eof"}]
         /\ link'[e] # "open" /\ (link'[e] = "closed" <=> link[e] = "closed")
         /\ cause'[e] # cause[e] => link[e] = "open" /\ cause'[e] = why
         /\ \A f \in Ends : f # e => link'[f] = link[f] /\ cause'[f] = cause[f]
<1>1. /\ link \in [Ends -> {"open", "closing", "closed"}]
      /\ cause \in [Ends -> {"none", "own", "failed", "protocol", "bye", "eof"}]
  BY DEF TypeOK
<1>2. CASE link[e] = "open"
  <2>1. link' = [link EXCEPT ![e] = "closing"] /\ cause' = [cause EXCEPT ![e] = why]
    BY <1>2 DEF MarkClosed
  <2>2. /\ link' \in [Ends -> {"open", "closing", "closed"}] /\ link'[e] = "closing"
        /\ \A f \in Ends : f # e => link'[f] = link[f]
    BY ONLY <1>1, <2>1
  <2>3. /\ cause' \in [Ends -> {"none", "own", "failed", "protocol", "bye", "eof"}] /\ cause'[e] = why
        /\ \A f \in Ends : f # e => cause'[f] = cause[f]
    BY ONLY <1>1, <2>1
  <2> QED BY <1>2, <2>2, <2>3
<1>3. CASE link[e] # "open"
  <2>1. link' = link /\ cause' = cause
    BY <1>3 DEF MarkClosed, linkVars
  <2> QED BY <1>1, <1>3, <2>1
<1> QED BY <1>2, <1>3

\* The initial state.
LEMMA InitEstablishes == Init => IInv
<1> SUFFICES ASSUME Init PROVE IInv
  OBVIOUS
<1>1. <<Hello>> \in Seq(Frame) /\ <<>> \in Seq(Frame) /\ <<>> \in Seq(Nat) /\ Len(<<>>) = 0
  BY Frames, EmptySeq
<1>2. \A c \in Callers : At(c) \in Ends /\ c # Nobody
  BY CallersAssumption DEF At
<1>3. TypeOK
  <2>1. /\ pc \in [Callers -> {"idle", "send", "wait"}]
        /\ call \in [Callers -> [kind : Kinds \cup {"none"}, own : Nat]]
        /\ slot \in [Ends -> [Kinds -> Callers \cup {Nobody}]]
        /\ sent \in [Ends -> [Kinds -> Nat]]
        /\ frames \in [Ends -> Nat]
    BY DEF Init, Idle
  <2>2. /\ wire \in [Ends -> Seq(Frame)] /\ hand \in [Ends -> Seq(Frame)]
        /\ \A e \in Ends : Len(hand[e]) <= 1
        /\ inbound \in [Ends -> [Kinds -> Seq(Nat)]]
    BY <1>1 DEF Init
  <2>3. hello \in [Ends -> BOOLEAN] /\ bye \in [Ends -> BOOLEAN]
    BY DEF Init
  <2>4. /\ link \in [Ends -> {"open", "closing", "closed"}]
        /\ cause \in [Ends -> {"none", "own", "failed", "protocol", "bye", "eof"}]
    BY DEF Init
  <2> QED BY <2>1, <2>2, <2>3, <2>4 DEF TypeOK
<1>4. Slots
  BY DEF Init, Slots
<1>5. \A e \in Ends, k \in Kinds :
        /\ ~Waiting(e, k) /\ sent[e][k] = 0 /\ Taken(e, k) = 0 /\ inbound[e][k] = <<>>
        /\ Dispatched(e, k) = 0
  BY <1>1 DEF Init, Waiting, Taken, Dispatched
<1>6. QueuesFollow
  BY <1>1, <1>5 DEF QueuesFollow
<1>7. StreamFollows
  <2> SUFFICES ASSUME NEW e \in Ends
               PROVE  /\ \A k \in Kinds : Carries(Stream(e), k, Dispatched(e, k), sent[Peer(e)][k])
                      /\ Greets(Stream(e), hello[e])
    BY DEF StreamFollows
  <2>1. Stream(e) = <<Hello>> /\ ~hello[e]
    BY <1>1, ConcatEmptySeq DEF Init, Stream
  <2>2. /\ Stream(e)[1] = Hello /\ DOMAIN Stream(e) = {1} /\ Stream(e) # <<>>
        /\ Stream(e)[1].op = "hello"
    BY <2>1, Frames
  <2>3. ASSUME NEW k \in Kinds PROVE Carries(Stream(e), k, Dispatched(e, k), sent[Peer(e)][k])
    <3>1. Dispatched(e, k) = 0 /\ sent[Peer(e)][k] = 0
      BY <1>5, Peers
    <3>2. \A i \in DOMAIN Stream(e) : ~Of(k, Stream(e)[i])
      BY <2>2 DEF Of
    <3> QED BY <3>1, <3>2 DEF Carries
  <2>4. Greets(Stream(e), hello[e])
    BY <2>1, <2>2 DEF Greets
  <2> QED BY <2>3, <2>4
<1>8. InStep
  BY <1>5, Peers DEF InStep
<1>9. QueuesAccounted
  <2>1. \A e \in Ends : Queued(e) = {}
    BY <1>5 DEF Queued
  <2>2. \A e \in Ends : frames[e] = 0 /\ link[e] = "open" /\ cause[e] = "none"
    BY DEF Init
  <2> QED BY <1>3, <1>5, <2>1, <2>2, FS_EmptySet DEF QueuesAccounted
<1> QED BY <1>3, <1>4, <1>6, <1>7, <1>8, <1>9 DEF IInv

\* Steps that neither write, read, dispatch nor close keep what is said of
\* the queues and the streams.
LEMMA Unwritten ==
  ASSUME IInv, TypeOK',
         UNCHANGED <<link, cause, inbound, frames, sent, wire, hand, hello>>,
         \A e \in Ends, k \in Kinds : Waiting(e, k)' <=> Waiting(e, k)
  PROVE  QueuesFollow' /\ StreamFollows' /\ InStep' /\ QueuesAccounted'
<1>1. \A e \in Ends, k \in Kinds :
        Taken(e, k)' = Taken(e, k) /\ Dispatched(e, k)' = Dispatched(e, k)
  BY DEF Taken, Dispatched
<1>2. \A e \in Ends : Stream(e)' = Stream(e) /\ Queued(e)' = Queued(e)
  BY DEF Stream, Queued
<1>3. QueuesFollow'
  BY <1>1 DEF IInv, QueuesFollow
<1>4. StreamFollows'
  BY <1>1, <1>2 DEF IInv, StreamFollows
<1>5. InStep' /\ QueuesAccounted'
  BY <1>2 DEF IInv, InStep, QueuesAccounted
<1> QED BY <1>3, <1>4, <1>5

\* A call begins.
LEMMA CallStep == ASSUME IInv, NEW c \in Callers, NEW k \in Kinds, Call(c, k) PROVE IInv'
<1> USE DEF IInv
<1> DEFINE e == At(c)
<1>1. /\ e \in Ends /\ c # Nobody /\ pc[c] = "idle" /\ slot[e][k] = Nobody
      /\ pc' = [pc EXCEPT ![c] = "send"]
      /\ call' = [call EXCEPT ![c] = [kind |-> k, own |-> 0]]
      /\ slot' = [slot EXCEPT ![e][k] = c]
      /\ UNCHANGED <<link, cause, inbound, frames, sent, wire, hand, hello, bye>>
  BY CallersAssumption DEF Call, At, linkVars, queueVars, wireVars
<1>2. /\ pc'[c] = "send" /\ call'[c].kind = k /\ slot'[e][k] = c
      /\ \A d \in Callers : d # c => pc'[d] = pc[d] /\ call'[d] = call[d]
      /\ \A f \in Ends, q \in Kinds : f # e \/ q # k => slot'[f][q] = slot[f][q]
  BY <1>1 DEF TypeOK
<1> HIDE DEF e
<1>3. TypeOK'
  <2>1. pc' \in [Callers -> {"idle", "send", "wait"}]
    BY <1>1 DEF TypeOK
  <2>2. call' \in [Callers -> [kind : Kinds \cup {"none"}, own : Nat]]
    BY <1>1 DEF TypeOK
  <2>3. slot' \in [Ends -> [Kinds -> Callers \cup {Nobody}]]
    BY <1>1 DEF TypeOK
  <2> QED BY <1>1, <2>1, <2>2, <2>3 DEF TypeOK
<1>4. \A f \in Ends, q \in Kinds : slot[f][q] # Nobody => slot[f][q] \in Callers /\ slot[f][q] # c
  BY <1>1 DEF TypeOK, Slots
<1>5. Slots'
  <2>1. \A d \in Callers : pc'[d] # "idle" =>
          call'[d].kind \in Kinds /\ slot'[At(d)][call'[d].kind] = d
    BY <1>1, <1>2, CallersAssumption DEF Slots, At, e
  <2>2. \A f \in Ends, q \in Kinds : slot'[f][q] # Nobody =>
          At(slot'[f][q]) = f /\ pc'[slot'[f][q]] # "idle" /\ call'[slot'[f][q]].kind = q
    BY <1>1, <1>2, <1>4 DEF Slots, e
  <2>3. \A d \in Callers : pc'[d] = "wait" => call'[d].own = sent[At(d)][call'[d].kind]
    BY <1>2 DEF Slots
  <2> QED BY <1>1, <2>1, <2>2, <2>3 DEF Slots
<1>6. \A f \in Ends, q \in Kinds : Waiting(f, q)' <=> Waiting(f, q)
  BY <1>1, <1>2, <1>4 DEF Waiting
<1>7. QueuesFollow' /\ StreamFollows' /\ InStep' /\ QueuesAccounted'
  BY <1>1, <1>3, <1>6, Unwritten
<1> QED BY <1>3, <1>5, <1>7

\* A call ends: its slot is free, and no other call is touched.
LEMMA Ending ==
  ASSUME IInv, NEW c \in Callers, pc[c] # "idle", Finish(c), Release(c), UNCHANGED sent
  PROVE  \E e \in Ends, k \in Kinds :
           /\ e = At(c) /\ k = call[c].kind
           /\ pc' \in [Callers -> {"idle", "send", "wait"}]
           /\ call' \in [Callers -> [kind : Kinds \cup {"none"}, own : Nat]]
           /\ slot' \in [Ends -> [Kinds -> Callers \cup {Nobody}]]
           /\ Slots'
           /\ pc[c] = "wait" <=> Waiting(e, k)
           /\ ~Waiting(e, k)'
           /\ \A f \in Ends, q \in Kinds : f # e \/ q # k => (Waiting(f, q)' <=> Waiting(f, q))
<1> USE DEF IInv
<1>0. PICK e \in Ends, k \in Kinds : e = At(c) /\ k = call[c].kind
  BY CallersAssumption DEF At, Slots
<1>1. /\ c # Nobody /\ slot[e][k] = c
      /\ pc' = [pc EXCEPT ![c] = "idle"] /\ call' = [call EXCEPT ![c] = Idle]
      /\ slot' = [slot EXCEPT ![e][k] = Nobody]
  BY <1>0, CallersAssumption DEF Finish, Release, At, Slots
<1>2. /\ pc'[c] = "idle" /\ slot'[e][k] = Nobody
      /\ \A d \in Callers : d # c => pc'[d] = pc[d] /\ call'[d] = call[d]
      /\ \A f \in Ends, q \in Kinds : f # e \/ q # k => slot'[f][q] = slot[f][q]
  BY <1>1 DEF TypeOK
<1>3. /\ pc' \in [Callers -> {"idle", "send", "wait"}]
      /\ call' \in [Callers -> [kind : Kinds \cup {"none"}, own : Nat]]
      /\ slot' \in [Ends -> [Kinds -> Callers \cup {Nobody}]]
  BY <1>1 DEF TypeOK, Idle
<1>4. \A f \in Ends, q \in Kinds : slot[f][q] # Nobody =>
        slot[f][q] \in Callers /\ (slot[f][q] = c => f = e /\ q = k)
  BY <1>0, <1>1 DEF TypeOK, Slots
<1>5. pc[c] = "wait" <=> Waiting(e, k)
  BY <1>1 DEF Waiting
<1>6. Slots'
  <2>1. \A d \in Callers : d # c /\ pc[d] # "idle" => At(d) # e \/ call[d].kind # k
    BY <1>0, <1>1 DEF Slots
  <2>2. \A d \in Callers : pc'[d] # "idle" =>
          call'[d].kind \in Kinds /\ slot'[At(d)][call'[d].kind] = d
    BY <1>1, <1>2, <2>1, CallersAssumption DEF Slots, At
  <2>3. \A f \in Ends, q \in Kinds : slot'[f][q] # Nobody =>
          At(slot'[f][q]) = f /\ pc'[slot'[f][q]] # "idle" /\ call'[slot'[f][q]].kind = q
    BY <1>1, <1>2, <1>4 DEF Slots
  <2>4. \A d \in Callers : pc'[d] = "wait" => call'[d].own = sent'[At(d)][call'[d].kind]
    BY <1>2 DEF Slots
  <2> QED BY <2>2, <2>3, <2>4 DEF Slots
<1>7. \A f \in Ends, q \in Kinds : f # e \/ q # k => (Waiting(f, q)' <=> Waiting(f, q))
  BY <1>1, <1>2, <1>4 DEF Waiting
<1>8. ~Waiting(e, k)'
  BY <1>2 DEF Waiting
<1> QED BY <1>0, <1>3, <1>5, <1>6, <1>7, <1>8

\* A call gives up before it has written.
LEMMA GiveUpSendStep == ASSUME IInv, NEW c \in Callers, GiveUpSend(c) PROVE IInv'
<1> USE DEF IInv
<1>1. /\ pc[c] = "send" /\ Finish(c) /\ Release(c)
      /\ UNCHANGED <<link, cause, inbound, frames, sent, wire, hand, hello, bye>>
  BY DEF GiveUpSend, linkVars, queueVars, wireVars
<1>2. /\ pc' \in [Callers -> {"idle", "send", "wait"}]
      /\ call' \in [Callers -> [kind : Kinds \cup {"none"}, own : Nat]]
      /\ slot' \in [Ends -> [Kinds -> Callers \cup {Nobody}]]
      /\ Slots'
      /\ \A f \in Ends, q \in Kinds : Waiting(f, q)' <=> Waiting(f, q)
  <2>1. PICK e \in Ends, k \in Kinds :
          /\ pc' \in [Callers -> {"idle", "send", "wait"}]
          /\ call' \in [Callers -> [kind : Kinds \cup {"none"}, own : Nat]]
          /\ slot' \in [Ends -> [Kinds -> Callers \cup {Nobody}]]
          /\ Slots' /\ ~Waiting(e, k) /\ ~Waiting(e, k)'
          /\ \A f \in Ends, q \in Kinds : f # e \/ q # k => (Waiting(f, q)' <=> Waiting(f, q))
    BY <1>1, Ending
  <2> QED BY <2>1
<1>3. TypeOK'
  BY <1>1, <1>2 DEF TypeOK
<1> QED BY <1>1, <1>2, <1>3, Unwritten

\* A call ends without an answer at an end that is no longer open.
LEMMA RefusedStep ==
  ASSUME IInv, NEW c \in Callers, Refused(c) \/ Fails(c)
  PROVE  IInv'
<1> USE DEF IInv
<1>1. /\ pc[c] # "idle" /\ Finish(c) /\ Release(c)
      /\ UNCHANGED <<inbound, frames, sent, wire, hand, hello, bye>>
      /\ (link[At(c)] # "open" /\ UNCHANGED <<link, cause>>) \/ MarkClosed(At(c), "failed")
  BY DEF Refused, Fails, queueVars, wireVars, linkVars
<1>2. PICK e \in Ends, k \in Kinds :
        /\ e = At(c) /\ k = call[c].kind
        /\ pc' \in [Callers -> {"idle", "send", "wait"}]
        /\ call' \in [Callers -> [kind : Kinds \cup {"none"}, own : Nat]]
        /\ slot' \in [Ends -> [Kinds -> Callers \cup {Nobody}]]
        /\ Slots'
        /\ ~Waiting(e, k)'
        /\ \A f \in Ends, q \in Kinds : f # e \/ q # k => (Waiting(f, q)' <=> Waiting(f, q))
  BY <1>1, Ending
<1>3. /\ link' \in [Ends -> {"open", "closing", "closed"}]
      /\ cause' \in [Ends -> {"none", "own", "failed", "protocol", "bye", "eof"}]
      /\ link'[e] # "open" /\ (link'[e] = "closed" <=> link[e] = "closed")
      /\ cause'[e] \in {cause[e], "failed"}
      /\ \A f \in Ends : f # e => link'[f] = link[f] /\ cause'[f] = cause[f]
  <2>1. CASE MarkClosed(e, "failed")
    BY <2>1, Marking
  <2>2. CASE link[e] # "open" /\ UNCHANGED <<link, cause>>
    BY <2>2 DEF TypeOK
  <2> QED BY <1>1, <1>2, <2>1, <2>2
<1>4. TypeOK'
  BY <1>1, <1>2, <1>3 DEF TypeOK
<1>5. \A f \in Ends, q \in Kinds : f # e \/ q # k =>
        Taken(f, q)' = Taken(f, q) /\ Dispatched(f, q)' = Dispatched(f, q)
  BY <1>1, <1>2 DEF Taken, Dispatched
<1>6. QueuesFollow'
  <2> SUFFICES ASSUME NEW f \in Ends, NEW q \in Kinds
               PROVE  /\ Len(inbound[f][q]) <= 2
                      /\ Waiting(f, q)' => sent[f][q] >= 1
                      /\ link'[f] = "open" \/ Waiting(f, q)' =>
                           \A i \in DOMAIN inbound[f][q] : inbound[f][q][i] = Taken(f, q)' + i
    BY <1>1 DEF QueuesFollow
  <2>1. CASE f = e /\ q = k
    BY <2>1, <1>2, <1>3 DEF QueuesFollow
  <2>2. CASE f # e \/ q # k
    <3>1. /\ Taken(f, q)' = Taken(f, q) /\ (Waiting(f, q)' <=> Waiting(f, q))
          /\ link'[f] = "open" => link[f] = "open"
      BY <2>2, <1>2, <1>3, <1>5
    <3> QED BY <3>1 DEF QueuesFollow
  <2> QED BY <2>1, <2>2
<1>7. \A f \in Ends : Stream(f)' = Stream(f) /\ Queued(f)' = Queued(f)
  BY <1>1 DEF Stream, Queued
<1>8. StreamFollows'
  <2> SUFFICES ASSUME NEW f \in Ends, link'[f] = "open"
               PROVE  /\ \A q \in Kinds : Carries(Stream(f), q, Dispatched(f, q)', sent[Peer(f)][q])
                      /\ Greets(Stream(f), hello[f])
    BY <1>1, <1>7 DEF StreamFollows
  <2>1. f # e /\ link[f] = "open"
    BY <1>3
  <2> QED BY <2>1, <1>5 DEF StreamFollows
<1>9. InStep' /\ QueuesAccounted'
  BY <1>1, <1>3, <1>4, <1>7 DEF InStep, QueuesAccounted
<1> QED BY <1>2, <1>4, <1>6, <1>8, <1>9

\* A call takes the answer that waits for it.
LEMMA TakeStep == ASSUME IInv, NEW c \in Callers, Take(c) PROVE IInv'
<1> USE DEF IInv
<1>1. /\ pc[c] = "wait" /\ pc[c] # "idle" /\ Finish(c) /\ Release(c)
      /\ inbound[At(c)][call[c].kind] # <<>>
      /\ inbound' = [inbound EXCEPT ![At(c)][call[c].kind] = Tail(@)]
      /\ frames' = [frames EXCEPT ![At(c)] = @ - 1]
      /\ UNCHANGED <<link, cause, sent, wire, hand, hello, bye>>
  BY DEF Take, linkVars, wireVars
<1>2. PICK e \in Ends, k \in Kinds :
        /\ e = At(c) /\ k = call[c].kind
        /\ pc' \in [Callers -> {"idle", "send", "wait"}]
        /\ call' \in [Callers -> [kind : Kinds \cup {"none"}, own : Nat]]
        /\ slot' \in [Ends -> [Kinds -> Callers \cup {Nobody}]]
        /\ Slots'
        /\ Waiting(e, k) /\ ~Waiting(e, k)'
        /\ \A f \in Ends, q \in Kinds : f # e \/ q # k => (Waiting(f, q)' <=> Waiting(f, q))
  BY <1>1, Ending
<1>3. /\ inbound' \in [Ends -> [Kinds -> Seq(Nat)]]
      /\ \A f \in Ends, q \in Kinds : f # e \/ q # k => inbound'[f][q] = inbound[f][q]
      /\ Len(inbound'[e][k]) = Len(inbound[e][k]) - 1
      /\ \A i \in DOMAIN inbound'[e][k] :
           i \in Nat /\ i + 1 \in DOMAIN inbound[e][k] /\ inbound'[e][k][i] = inbound[e][k][i + 1]
      /\ Cardinality(Queued(e))' = Cardinality(Queued(e)) - 1
      /\ Cardinality(Queued(e)) \in Nat \ {0}
      /\ \A f \in Ends : f # e => Queued(f)' = Queued(f)
  <2>1. inbound[e][k] # <<>> /\ inbound' = [inbound EXCEPT ![e][k] = Tail(@)]
    BY <1>1, <1>2
  <2> QED BY <2>1, TakeOne
<1>4. /\ frames' \in [Ends -> Nat] /\ frames'[e] = frames[e] - 1
      /\ \A f \in Ends : f # e => frames'[f] = frames[f]
  <2>1. frames' = [frames EXCEPT ![e] = frames[e] - 1] /\ frames[e] \in Nat \ {0}
    BY <1>1, <1>2, <1>3 DEF QueuesAccounted
  <2> QED BY <2>1 DEF TypeOK
<1>5. TypeOK'
  BY <1>1, <1>2, <1>3, <1>4 DEF TypeOK
<1>6. /\ Taken(e, k)' = Taken(e, k) + 1 /\ Dispatched(e, k)' = Dispatched(e, k)
      /\ Taken(e, k) \in Nat
      /\ \A f \in Ends, q \in Kinds : f # e \/ q # k =>
           Taken(f, q)' = Taken(f, q) /\ Dispatched(f, q)' = Dispatched(f, q)
  <2>1. sent[e][k] \in Nat /\ sent[e][k] >= 1 /\ Len(inbound[e][k]) \in Nat
    BY <1>2, LenProperties DEF TypeOK, QueuesFollow
  <2>2. Taken(e, k)' = sent[e][k] /\ Taken(e, k) = sent[e][k] - 1
    BY <1>1, <1>2 DEF Taken
  <2>3. Dispatched(e, k)' = Dispatched(e, k)
    <3>1. Len(inbound'[e][k]) = Len(inbound[e][k]) - 1
      BY <1>3
    <3>2. Dispatched(e, k)' = sent[e][k] + Len(inbound'[e][k])
      BY <2>2 DEF Dispatched
    <3>3. Dispatched(e, k) = (sent[e][k] - 1) + Len(inbound[e][k])
      BY <2>2 DEF Dispatched
    <3> QED BY <2>1, <3>1, <3>2, <3>3
  <2>4. \A f \in Ends, q \in Kinds : f # e \/ q # k =>
          Taken(f, q)' = Taken(f, q) /\ Dispatched(f, q)' = Dispatched(f, q)
    BY <1>1, <1>2, <1>3 DEF Taken, Dispatched
  <2> QED BY <2>1, <2>2, <2>3, <2>4
<1>7. QueuesFollow'
  <2> SUFFICES ASSUME NEW f \in Ends, NEW q \in Kinds
               PROVE  /\ Len(inbound'[f][q]) <= 2
                      /\ Waiting(f, q)' => sent[f][q] >= 1
                      /\ link[f] = "open" \/ Waiting(f, q)' =>
                           \A i \in DOMAIN inbound'[f][q] : inbound'[f][q][i] = Taken(f, q)' + i
    BY <1>1 DEF QueuesFollow
  <2>1. CASE f = e /\ q = k
    <3>1. Len(inbound'[e][k]) <= 2
      <4>1. Len(inbound[e][k]) \in Nat /\ Len(inbound[e][k]) <= 2
        BY LenProperties DEF TypeOK, QueuesFollow
      <4> QED BY <4>1, <1>3
    <3>2. \A i \in DOMAIN inbound[e][k] : inbound[e][k][i] = Taken(e, k) + i
      BY <1>2 DEF QueuesFollow
    <3>3. ASSUME NEW i \in DOMAIN inbound'[e][k] PROVE inbound'[e][k][i] = Taken(e, k)' + i
      <4>1. i \in Nat /\ i + 1 \in DOMAIN inbound[e][k] /\ inbound'[e][k][i] = inbound[e][k][i + 1]
        BY <1>3
      <4>2. inbound[e][k][i + 1] = Taken(e, k) + (i + 1)
        BY <3>2, <4>1
      <4>3. Taken(e, k)' = Taken(e, k) + 1 /\ Taken(e, k) \in Nat
        BY <1>6
      <4> QED BY <4>1, <4>2, <4>3
    <3> QED BY <2>1, <1>2, <3>1, <3>3
  <2>2. CASE f # e \/ q # k
    <3>1. /\ Taken(f, q)' = Taken(f, q) /\ (Waiting(f, q)' <=> Waiting(f, q))
          /\ inbound'[f][q] = inbound[f][q]
      BY <2>2, <1>2, <1>3, <1>6
    <3> QED BY <3>1 DEF QueuesFollow
  <2> QED BY <2>1, <2>2
<1>8. StreamFollows'
  <2>1. \A f \in Ends : Stream(f)' = Stream(f)
    BY <1>1 DEF Stream
  <2>2. \A f \in Ends, q \in Kinds : Dispatched(f, q)' = Dispatched(f, q)
    BY <1>6
  <2> QED BY <1>1, <2>1, <2>2 DEF StreamFollows
<1>9. InStep'
  BY <1>1 DEF InStep
<1>10. QueuesAccounted'
  <2> SUFFICES ASSUME NEW f \in Ends
               PROVE  /\ frames'[f] = Cardinality(Queued(f)')
                      /\ link[f] = "closed" => \A q \in Kinds : inbound'[f][q] = <<>>
                      /\ cause[f] # "protocol"
    BY <1>1, <1>5 DEF QueuesAccounted
  <2>1. CASE f = e
    <3>1. link[e] # "closed"
      BY <1>1, <1>2 DEF QueuesAccounted
    <3> QED BY <2>1, <3>1, <1>3, <1>4 DEF QueuesAccounted
  <2>2. CASE f # e
    <3>1. Queued(f)' = Queued(f) /\ frames'[f] = frames[f]
      BY <2>2, <1>3, <1>4
    <3>2. \A q \in Kinds : inbound'[f][q] = inbound[f][q]
      BY <2>2, <1>3
    <3>3. /\ frames[f] = Cardinality(Queued(f))
          /\ link[f] = "closed" => \A q \in Kinds : inbound[f][q] = <<>>
          /\ cause[f] # "protocol"
      BY DEF QueuesAccounted
    <3> QED BY <3>1, <3>2, <3>3
  <2> QED BY <2>1, <2>2
<1> QED BY <1>2, <1>5, <1>7, <1>8, <1>9, <1>10


\* How many payloads were taken, and how many dispatched, are counts.
LEMMA Counts ==
  ASSUME TypeOK, QueuesFollow, NEW e \in Ends, NEW k \in Kinds
  PROVE  /\ sent[e][k] \in Nat /\ Taken(e, k) \in Nat /\ Len(inbound[e][k]) \in Nat
         /\ Dispatched(e, k) \in Nat /\ Dispatched(e, k) >= Taken(e, k)
         /\ Dispatched(e, k) = Taken(e, k) + Len(inbound[e][k])
<1>1. sent[e][k] \in Nat /\ Len(inbound[e][k]) \in Nat
  BY LenProperties DEF TypeOK
<1>2. Taken(e, k) \in Nat
  BY <1>1 DEF Taken, QueuesFollow
<1> QED BY <1>1, <1>2 DEF Dispatched

\* An end writes a frame: a BYE, or the next payload of a kind.
LEMMA Writing ==
  ASSUME IInv, TypeOK', NEW e \in Ends, NEW f \in Frame, f.op # "hello",
         UNCHANGED <<hand, hello, link>>,
         wire' = [wire EXCEPT ![Peer(e)] = Append(@, f)],
         \A q \in Kinds :
           \/ ~Of(q, f) /\ sent'[e][q] = sent[e][q]
           \/ f = Exchange(q, sent[e][q] + 1) /\ sent'[e][q] = sent[e][q] + 1,
         \A q \in Kinds : sent'[Peer(e)][q] = sent[Peer(e)][q],
         \A g \in Ends, q \in Kinds : Dispatched(g, q)' = Dispatched(g, q)
  PROVE  StreamFollows'
<1> USE DEF IInv
<1> DEFINE p == Peer(e)
<1>1. p \in Ends /\ p # e /\ Peer(p) = e /\ Peer(e) = p /\ \A g \in Ends : g = e \/ g = p
  BY Peers
<1>2. wire'[p] = Append(wire[p], f) /\ wire'[e] = wire[e]
  BY <1>1 DEF TypeOK
<1>3. PICK h : h = p
  OBVIOUS
<1> HIDE DEF p
<1>4. /\ Stream(h) \in Seq(Frame) /\ Stream(h)' = Append(Stream(h), f)
  <2>1. hand[h] \in Seq(Frame) /\ wire[h] \in Seq(Frame) /\ Len(hand[h]) <= 1
    BY <1>1, <1>3 DEF TypeOK
  <2>2. Stream(h)' = hand[h] \o Append(wire[h], f)
    BY <1>2, <1>3 DEF Stream
  <2> QED BY ZenonT(60), <2>1, <2>2, StreamMoves DEF Stream
<1>5. Stream(e)' = Stream(e)
  BY <1>2 DEF Stream
<1> SUFFICES ASSUME NEW g \in Ends, link[g] = "open"
             PROVE  /\ \A q \in Kinds : Carries(Stream(g)', q, Dispatched(g, q)', sent'[Peer(g)][q])
                    /\ Greets(Stream(g)', hello[g])
  BY DEF StreamFollows
<1>6. /\ \A q \in Kinds : Carries(Stream(g), q, Dispatched(g, q), sent[Peer(g)][q])
      /\ Greets(Stream(g), hello[g])
  BY DEF StreamFollows
<1>7. CASE g = e
  BY <1>1, <1>5, <1>6, <1>7 DEF p
<1>8. CASE g = h
  <2>1. Peer(g) = e
    BY <1>1, <1>3, <1>8
  <2>2. ASSUME NEW q \in Kinds
        PROVE  Carries(Append(Stream(h), f), q, Dispatched(h, q), sent'[e][q])
    <3>1. Carries(Stream(h), q, Dispatched(h, q), sent[e][q])
      BY <1>6, <1>8, <2>1
    <3>2. CASE ~Of(q, f) /\ sent'[e][q] = sent[e][q]
      BY <3>1, <3>2, <1>4, AppendOther
    <3>3. CASE f = Exchange(q, sent[e][q] + 1) /\ sent'[e][q] = sent[e][q] + 1
      <4>1. Dispatched(h, q) \in Nat /\ sent[e][q] \in Nat
        BY <1>1, <1>3, Counts
      <4>2. Carries(Append(Stream(h), Exchange(q, sent[e][q] + 1)), q, Dispatched(h, q), sent[e][q] + 1)
        BY <3>1, <4>1, <1>4, AppendNext
      <4> QED BY <3>3, <4>2
    <3> QED BY <3>2, <3>3
  <2>3. Greets(Append(Stream(h), f), hello[h])
    BY <1>4, <1>6, <1>8, AppendGreets
  <2> QED BY <2>1, <2>2, <2>3, <1>4, <1>8
<1> QED BY <1>1, <1>3, <1>7, <1>8

\* A call writes its payload: it is the next of its kind, and neither end is
\* further ahead than that.
LEMMA SendStep == ASSUME IInv, NEW c \in Callers, Send(c) PROVE IInv'
<1> USE DEF IInv
<1>1. PICK e \in Ends, k \in Kinds : e = At(c) /\ k = call[c].kind
  BY CallersAssumption DEF Send, Slots, At
<1>2. PICK n \in Nat : n = sent[e][k] + 1 /\ n >= 1 /\ n - 1 = sent[e][k]
  <2>1. sent[e][k] \in Nat
    BY DEF TypeOK
  <2> QED BY <2>1
<1>3. /\ pc[c] = "send" /\ link[e] = "open" /\ slot[e][k] = c /\ c # Nobody
      /\ pc' = [pc EXCEPT ![c] = "wait"]
      /\ call' = [call EXCEPT ![c].own = n]
      /\ sent' = [sent EXCEPT ![e][k] = n]
      /\ wire' = [wire EXCEPT ![Peer(e)] = Append(@, Exchange(k, n))]
      /\ UNCHANGED <<slot, hand, hello, bye, link, cause, inbound, frames>>
  BY <1>1, <1>2, CallersAssumption DEF Send, linkVars, queueVars, Slots
<1>4. /\ pc'[c] = "wait" /\ call'[c].own = n /\ call'[c].kind = k
      /\ \A d \in Callers : d # c => pc'[d] = pc[d] /\ call'[d] = call[d]
      /\ sent'[e][k] = n
      /\ \A f \in Ends, q \in Kinds : f # e \/ q # k => sent'[f][q] = sent[f][q]
  BY <1>1, <1>3 DEF TypeOK
<1>5. Exchange(k, n) \in Frame /\ Exchange(k, n).op # "hello"
  BY Frames
<1>6. TypeOK'
  <2>1. pc' \in [Callers -> {"idle", "send", "wait"}]
    BY <1>3 DEF TypeOK
  <2>2. call' \in [Callers -> [kind : Kinds \cup {"none"}, own : Nat]]
    BY ZenonT(60), <1>3 DEF TypeOK
  <2>3. sent' \in [Ends -> [Kinds -> Nat]]
    BY <1>3 DEF TypeOK
  <2>4. wire' \in [Ends -> Seq(Frame)]
    <3>1. Peer(e) \in Ends /\ wire[Peer(e)] \in Seq(Frame)
      BY Peers DEF TypeOK
    <3>2. Append(wire[Peer(e)], Exchange(k, n)) \in Seq(Frame)
      BY <3>1, <1>5, AppendProperties
    <3> QED BY <3>2, <1>3 DEF TypeOK
  <2> QED BY <1>3, <2>1, <2>2, <2>3, <2>4 DEF TypeOK
<1>7. \A f \in Ends, q \in Kinds : slot[f][q] # Nobody =>
        slot[f][q] \in Callers /\ (slot[f][q] = c => f = e /\ q = k)
  BY <1>1, <1>3 DEF TypeOK, Slots
<1>8. Slots'
  <2>1. \A d \in Callers : pc'[d] # "idle" =>
          call'[d].kind \in Kinds /\ slot'[At(d)][call'[d].kind] = d
    BY <1>1, <1>3, <1>4 DEF Slots
  <2>2. \A f \in Ends, q \in Kinds : slot'[f][q] # Nobody =>
          At(slot'[f][q]) = f /\ pc'[slot'[f][q]] # "idle" /\ call'[slot'[f][q]].kind = q
    BY <1>1, <1>3, <1>4, <1>7 DEF Slots
  <2>3. ASSUME NEW d \in Callers, pc'[d] = "wait" PROVE call'[d].own = sent'[At(d)][call'[d].kind]
    <3>1. CASE d = c
      BY <3>1, <1>1, <1>4
    <3>2. CASE d # c
      <4>1. /\ pc[d] = "wait" /\ call'[d] = call[d]
            /\ At(d) \in Ends /\ call[d].kind \in Kinds /\ slot[At(d)][call[d].kind] = d
        BY <2>3, <3>2, <1>4, CallersAssumption DEF Slots, At
      <4>2. At(d) # e \/ call[d].kind # k
        BY <3>2, <4>1, <1>3
      <4> QED BY <4>1, <4>2, <1>4 DEF Slots
    <3> QED BY <3>1, <3>2
  <2> QED BY <2>1, <2>2, <2>3 DEF Slots
<1>9. /\ ~Waiting(e, k) /\ Waiting(e, k)'
      /\ \A f \in Ends, q \in Kinds : f # e \/ q # k => (Waiting(f, q)' <=> Waiting(f, q))
  BY <1>3, <1>4, <1>7 DEF Waiting
<1>10. \A f \in Ends, q \in Kinds :
         Taken(f, q)' = Taken(f, q) /\ Dispatched(f, q)' = Dispatched(f, q)
  <2>1. Taken(e, k)' = Taken(e, k)
    BY <1>2, <1>4, <1>9 DEF Taken
  <2>2. \A f \in Ends, q \in Kinds : f # e \/ q # k => Taken(f, q)' = Taken(f, q)
    BY <1>4, <1>9 DEF Taken
  <2>3. \A f \in Ends, q \in Kinds : Taken(f, q)' = Taken(f, q)
    BY <2>1, <2>2
  <2> QED BY <2>3, <1>3 DEF Dispatched
<1>11. QueuesFollow'
  <2> SUFFICES ASSUME NEW f \in Ends, NEW q \in Kinds
               PROVE  /\ Len(inbound[f][q]) <= 2
                      /\ Waiting(f, q)' => sent'[f][q] >= 1
                      /\ link[f] = "open" \/ Waiting(f, q)' =>
                           \A i \in DOMAIN inbound[f][q] : inbound[f][q][i] = Taken(f, q)' + i
    BY <1>3 DEF QueuesFollow
  <2>1. CASE f = e /\ q = k
    BY <2>1, <1>2, <1>3, <1>4, <1>10 DEF QueuesFollow
  <2>2. CASE f # e \/ q # k
    <3>1. /\ Taken(f, q)' = Taken(f, q) /\ (Waiting(f, q)' <=> Waiting(f, q))
          /\ sent'[f][q] = sent[f][q]
      BY <2>2, <1>4, <1>9, <1>10
    <3> QED BY <3>1 DEF QueuesFollow
  <2> QED BY <2>1, <2>2
<1>12. StreamFollows'
  <2>1. \A q \in Kinds :
          \/ ~Of(q, Exchange(k, n)) /\ sent'[e][q] = sent[e][q]
          \/ Exchange(k, n) = Exchange(q, sent[e][q] + 1) /\ sent'[e][q] = sent[e][q] + 1
    <3>1. \A q \in Kinds : q # k => ~Of(q, Exchange(k, n))
      BY Frames
    <3> QED BY <3>1, <1>2, <1>4
  <2>2. \A q \in Kinds : sent'[Peer(e)][q] = sent[Peer(e)][q]
    BY <1>4, Peers
  <2> QED BY <1>3, <1>5, <1>6, <1>10, <2>1, <2>2, Writing
<1>13. InStep'
  <2>1. sent[e][k] <= sent[Peer(e)][k]
    <3>1. Dispatched(e, k) <= sent[Peer(e)][k]
      BY <1>3 DEF StreamFollows, Carries
    <3>2. Taken(e, k) = sent[e][k]
      BY <1>9 DEF Taken
    <3>3. Dispatched(e, k) \in Nat /\ sent[e][k] \in Nat /\ Dispatched(e, k) >= Taken(e, k)
      BY Counts
    <3>4. sent[Peer(e)][k] \in Nat
      BY Peers DEF TypeOK
    <3> QED BY <3>1, <3>2, <3>3, <3>4
  <2>2. Peer(e) \in Ends /\ Peer(e) # e /\ Peer(Peer(e)) = e /\ \A f \in Ends : f = e \/ f = Peer(e)
    BY Peers
  <2>3. sent'[Peer(e)][k] = sent[Peer(e)][k] /\ sent[Peer(e)][k] \in Nat /\ sent[e][k] \in Nat
    BY <2>2, <1>4 DEF TypeOK
  <2>4. sent'[Peer(e)][k] <= sent'[e][k] + 1 /\ sent'[e][k] <= sent'[Peer(e)][k] + 1
    <3>1. sent[Peer(e)][k] <= sent[e][k] + 1
      BY DEF InStep
    <3> QED BY <3>1, <2>1, <2>3, <1>2, <1>4
  <2>5. \A f \in Ends, q \in Kinds : q # k => sent'[Peer(f)][q] <= sent'[f][q] + 1
    <3>1. \A f \in Ends, q \in Kinds : q # k => sent'[f][q] = sent[f][q] /\ sent'[Peer(f)][q] = sent[Peer(f)][q]
      BY <1>4, Peers
    <3> QED BY <3>1 DEF InStep
  <2>6. \A f \in Ends : sent'[Peer(f)][k] <= sent'[f][k] + 1
    BY <2>2, <2>4
  <2> QED BY <2>5, <2>6 DEF InStep
<1>14. QueuesAccounted'
  <2>1. \A f \in Ends : Queued(f)' = Queued(f)
    BY <1>3 DEF Queued
  <2> QED BY <2>1, <1>3, <1>6 DEF QueuesAccounted
<1> QED BY <1>6, <1>8, <1>11, <1>12, <1>13, <1>14

-----------------------------------------------------------------------------
(* Steps of the ends: closing *)

\* No caller moves: where calls are, what they ask for and what was taken
\* stay as they were.
LEMMA CallersStay ==
  ASSUME IInv, UNCHANGED <<pc, call, slot, sent>>
  PROVE  /\ Slots' /\ InStep'
         /\ \A e \in Ends, k \in Kinds :
              (Waiting(e, k)' <=> Waiting(e, k)) /\ Taken(e, k)' = Taken(e, k)
<1>1. Slots' /\ InStep'
  BY DEF IInv, Slots, InStep
<1>2. \A e \in Ends, k \in Kinds :
        (Waiting(e, k)' <=> Waiting(e, k)) /\ Taken(e, k)' = Taken(e, k)
  BY DEF Waiting, Taken
<1> QED BY <1>1, <1>2

\* An end that is no longer open after the step: nothing is said of its
\* stream, and the other end has not moved.
LEMMA EndClosed ==
  ASSUME IInv, TypeOK', NEW e \in Ends,
         UNCHANGED <<pc, call, slot, sent, inbound, frames>>,
         link'[e] # "open", link'[e] = "closed" <=> link[e] = "closed",
         cause'[e] # "protocol",
         \A f \in Ends : f # e =>
           /\ link'[f] = link[f] /\ cause'[f] = cause[f]
           /\ wire'[f] = wire[f] /\ hand'[f] = hand[f] /\ hello'[f] = hello[f]
  PROVE  IInv'
<1> USE DEF IInv
<1>1. /\ Slots' /\ InStep'
      /\ \A f \in Ends, k \in Kinds :
           (Waiting(f, k)' <=> Waiting(f, k)) /\ Taken(f, k)' = Taken(f, k)
  BY CallersStay
<1>2. \A f \in Ends, k \in Kinds : Dispatched(f, k)' = Dispatched(f, k)
  BY <1>1 DEF Dispatched
<1>3. QueuesFollow'
  <2>1. \A f \in Ends : link'[f] = "open" => link[f] = "open"
    OBVIOUS
  <2> QED BY <1>1, <2>1 DEF QueuesFollow
<1>4. StreamFollows'
  <2> SUFFICES ASSUME NEW f \in Ends, link'[f] = "open"
               PROVE  /\ \A k \in Kinds : Carries(Stream(f)', k, Dispatched(f, k)', sent'[Peer(f)][k])
                      /\ Greets(Stream(f)', hello'[f])
    BY DEF StreamFollows
  <2>1. f # e /\ link[f] = "open" /\ hello'[f] = hello[f]
    OBVIOUS
  <2>2. Stream(f)' = Stream(f)
    BY <2>1 DEF Stream
  <2> QED BY <2>1, <2>2, <1>2 DEF StreamFollows
<1>5. QueuesAccounted'
  <2>1. \A f \in Ends : Queued(f)' = Queued(f)
    BY DEF Queued
  <2>2. \A f \in Ends : (link'[f] = "closed" <=> link[f] = "closed") /\ cause'[f] # "protocol"
    BY DEF QueuesAccounted
  <2> QED BY <2>1, <2>2 DEF QueuesAccounted
<1> QED BY <1>1, <1>3, <1>4, <1>5

\* close writes BYE ...
LEMMA SendByeStep == ASSUME IInv, NEW e \in Ends, SendBye(e) PROVE IInv'
<1> USE DEF IInv
<1>1. /\ bye' = [bye EXCEPT ![e] = TRUE]
      /\ wire' = [wire EXCEPT ![Peer(e)] = Append(@, Bye)]
      /\ UNCHANGED <<pc, call, slot, sent, hand, hello, link, cause, inbound, frames>>
  BY DEF SendBye, callVars, linkVars, queueVars
<1>2. TypeOK'
  <2>1. bye' \in [Ends -> BOOLEAN]
    BY <1>1 DEF TypeOK
  <2>2. wire' \in [Ends -> Seq(Frame)]
    <3>1. Peer(e) \in Ends /\ wire[Peer(e)] \in Seq(Frame)
      BY Peers DEF TypeOK
    <3>2. Append(wire[Peer(e)], Bye) \in Seq(Frame)
      BY <3>1, Frames, AppendProperties
    <3> QED BY <3>2, <1>1 DEF TypeOK
  <2> QED BY <1>1, <2>1, <2>2 DEF TypeOK
<1>3. /\ Slots' /\ InStep'
      /\ \A f \in Ends, k \in Kinds :
           (Waiting(f, k)' <=> Waiting(f, k)) /\ Taken(f, k)' = Taken(f, k)
  BY <1>1, CallersStay
<1>4. \A f \in Ends, k \in Kinds : Dispatched(f, k)' = Dispatched(f, k)
  BY <1>1, <1>3 DEF Dispatched
<1>5. QueuesFollow'
  BY <1>1, <1>3 DEF QueuesFollow
<1>6. StreamFollows'
  <2>1. Bye \in Frame /\ Bye.op = "bye" /\ \A k \in Kinds : ~Of(k, Bye)
    BY Frames DEF Of
  <2> QED BY <1>1, <1>2, <1>4, <2>1, Writing
<1>7. QueuesAccounted'
  <2>1. \A f \in Ends : Queued(f)' = Queued(f)
    BY <1>1 DEF Queued
  <2> QED BY <2>1, <1>1, <1>2 DEF QueuesAccounted
<1> QED BY <1>2, <1>3, <1>5, <1>6, <1>7

\* ... and then closes its own end.
LEMMA CloseAfterByeStep == ASSUME IInv, NEW e \in Ends, CloseAfterBye(e) PROVE IInv'
<1> USE DEF IInv
<1>1. /\ MarkClosed(e, "own") /\ bye' = [bye EXCEPT ![e] = FALSE]
      /\ UNCHANGED <<pc, call, slot, sent, wire, hand, hello, inbound, frames>>
  BY DEF CloseAfterBye, callVars, queueVars
<1>2. /\ link' \in [Ends -> {"open", "closing", "closed"}]
      /\ cause' \in [Ends -> {"none", "own", "failed", "protocol", "bye", "eof"}]
      /\ link'[e] # "open" /\ (link'[e] = "closed" <=> link[e] = "closed")
      /\ cause'[e] # cause[e] => cause'[e] = "own"
      /\ \A f \in Ends : f # e => link'[f] = link[f] /\ cause'[f] = cause[f]
  BY <1>1, Marking
<1>3. bye' \in [Ends -> BOOLEAN]
  BY <1>1 DEF TypeOK
<1>4. TypeOK'
  BY <1>1, <1>2, <1>3 DEF TypeOK
<1>5. cause'[e] # "protocol"
  BY <1>2 DEF QueuesAccounted
<1> QED BY <1>1, <1>2, <1>4, <1>5, EndClosed

\* The queues of a closed end are emptied.
LEMMA DrainStep == ASSUME IInv, NEW e \in Ends, Drain(e) PROVE IInv'
<1> USE DEF IInv
<1>1. /\ link[e] = "closing" /\ link' = [link EXCEPT ![e] = "closed"]
      /\ inbound' = [inbound EXCEPT ![e] = [k \in Kinds |-> <<>>]]
      /\ frames' = [frames EXCEPT ![e] = 0]
      /\ UNCHANGED <<cause, pc, call, slot, sent, wire, hand, hello, bye>>
  BY DEF Drain, callVars, wireVars
<1>2. /\ link'[e] = "closed" /\ frames'[e] = 0 /\ \A k \in Kinds : inbound'[e][k] = <<>>
      /\ \A f \in Ends : f # e =>
           link'[f] = link[f] /\ frames'[f] = frames[f] /\ inbound'[f] = inbound[f]
  BY <1>1 DEF TypeOK
<1>3. TypeOK'
  <2>1. link' \in [Ends -> {"open", "closing", "closed"}] /\ frames' \in [Ends -> Nat]
    BY <1>1 DEF TypeOK
  <2>2. inbound' \in [Ends -> [Kinds -> Seq(Nat)]]
    <3>1. <<>> \in Seq(Nat)
      BY EmptySeq
    <3> QED BY <3>1, <1>1 DEF TypeOK
  <2> QED BY <1>1, <2>1, <2>2 DEF TypeOK
<1>4. /\ Slots' /\ InStep'
      /\ \A f \in Ends, k \in Kinds :
           (Waiting(f, k)' <=> Waiting(f, k)) /\ Taken(f, k)' = Taken(f, k)
  BY <1>1, CallersStay
<1>5. Len(<<>>) = 0 /\ DOMAIN <<>> = {}
  OBVIOUS
<1>6. QueuesFollow'
  <2> SUFFICES ASSUME NEW f \in Ends, NEW q \in Kinds
               PROVE  /\ Len(inbound'[f][q]) <= 2
                      /\ Waiting(f, q)' => sent[f][q] >= 1
                      /\ link'[f] = "open" \/ Waiting(f, q)' =>
                           \A i \in DOMAIN inbound'[f][q] : inbound'[f][q][i] = Taken(f, q)' + i
    BY <1>1 DEF QueuesFollow
  <2>1. CASE f = e
    <3>1. inbound'[f][q] = <<>>
      BY <2>1, <1>2
    <3> QED BY <3>1, <1>4, <1>5 DEF QueuesFollow
  <2>2. CASE f # e
    <3>1. /\ inbound'[f][q] = inbound[f][q] /\ link'[f] = link[f]
          /\ (Waiting(f, q)' <=> Waiting(f, q)) /\ Taken(f, q)' = Taken(f, q)
      BY <2>2, <1>2, <1>4
    <3> QED BY <3>1 DEF QueuesFollow
  <2> QED BY <2>1, <2>2
<1>7. StreamFollows'
  <2> SUFFICES ASSUME NEW f \in Ends, link'[f] = "open"
               PROVE  /\ \A k \in Kinds : Carries(Stream(f)', k, Dispatched(f, k)', sent[Peer(f)][k])
                      /\ Greets(Stream(f)', hello[f])
    BY <1>1 DEF StreamFollows
  <2>1. f # e /\ link[f] = "open"
    BY <1>2
  <2>2. Stream(f)' = Stream(f) /\ \A k \in Kinds : Dispatched(f, k)' = Dispatched(f, k)
    BY <2>1, <1>1, <1>2, <1>4 DEF Stream, Dispatched
  <2> QED BY <2>1, <2>2 DEF StreamFollows
<1>8. QueuesAccounted'
  <2>1. Queued(e)' = {}
    BY <1>2, <1>5 DEF Queued
  <2>2. \A f \in Ends : f # e => Queued(f)' = Queued(f)
    BY <1>2 DEF Queued
  <2>3. Cardinality({}) = 0
    BY FS_EmptySet
  <2> SUFFICES ASSUME NEW f \in Ends
               PROVE  /\ frames'[f] = Cardinality(Queued(f)')
                      /\ link'[f] = "closed" => \A q \in Kinds : inbound'[f][q] = <<>>
                      /\ cause[f] # "protocol"
    BY <1>1, <1>3 DEF QueuesAccounted
  <2>4. CASE f = e
    BY <2>1, <2>3, <2>4, <1>2 DEF QueuesAccounted
  <2>5. CASE f # e
    BY <2>2, <2>5, <1>2 DEF QueuesAccounted
  <2> QED BY <2>4, <2>5
<1> QED BY <1>3, <1>4, <1>6, <1>7, <1>8

-----------------------------------------------------------------------------
(* Steps of the ends: the reader *)

\* A frame is read: it is still on its way to be dispatched.
LEMMA ReadStep == ASSUME IInv, NEW e \in Ends, Read(e) PROVE IInv'
<1> USE DEF IInv
<1>1. /\ hand[e] = <<>> /\ wire[e] # <<>>
      /\ hand' = [hand EXCEPT ![e] = <<Head(wire[e])>>]
      /\ wire' = [wire EXCEPT ![e] = Tail(@)]
      /\ UNCHANGED <<pc, call, slot, sent, hello, bye, link, cause, inbound, frames>>
  BY DEF Read, callVars, linkVars, queueVars
<1>2. /\ wire[e] \in Seq(Frame) /\ hand[e] \in Seq(Frame) /\ Len(hand[e]) <= 1
      /\ Tail(wire[e]) \in Seq(Frame) /\ Head(wire[e]) \in Frame
  BY <1>1, HeadTailProperties DEF TypeOK
<1>3. /\ hand'[e] = <<Head(wire[e])>> /\ wire'[e] = Tail(wire[e])
      /\ \A f \in Ends : f # e => hand'[f] = hand[f] /\ wire'[f] = wire[f]
  BY <1>1 DEF TypeOK
<1>4. TypeOK'
  <2>1. wire' \in [Ends -> Seq(Frame)]
    BY <1>1, <1>2 DEF TypeOK
  <2>2. <<Head(wire[e])>> \in Seq(Frame) /\ Len(<<Head(wire[e])>>) <= 1
    BY <1>2
  <2>3. hand' \in [Ends -> Seq(Frame)] /\ \A f \in Ends : Len(hand'[f]) <= 1
    BY <1>1, <1>3, <2>2 DEF TypeOK
  <2> QED BY <1>1, <2>1, <2>3 DEF TypeOK
<1>5. \A f \in Ends : Stream(f)' = Stream(f)
  <2>1. Stream(e)' = Stream(e)
    <3>1. <<Head(wire[e])>> \o Tail(wire[e]) = hand[e] \o wire[e]
      BY <1>1, <1>2, StreamMoves
    <3> QED BY <3>1, <1>3 DEF Stream
  <2>2. \A f \in Ends : f # e => Stream(f)' = Stream(f)
    BY <1>3 DEF Stream
  <2> QED BY <2>1, <2>2
<1>6. /\ Slots' /\ InStep'
      /\ \A f \in Ends, k \in Kinds :
           (Waiting(f, k)' <=> Waiting(f, k)) /\ Taken(f, k)' = Taken(f, k)
  BY <1>1, CallersStay
<1>7. \A f \in Ends, k \in Kinds : Dispatched(f, k)' = Dispatched(f, k)
  BY <1>1, <1>6 DEF Dispatched
<1>8. QueuesFollow'
  BY <1>1, <1>6 DEF QueuesFollow
<1>9. StreamFollows'
  BY <1>1, <1>5, <1>7 DEF StreamFollows
<1>10. QueuesAccounted'
  <2>1. \A f \in Ends : Queued(f)' = Queued(f)
    BY <1>1 DEF Queued
  <2> QED BY <2>1, <1>1, <1>4 DEF QueuesAccounted
<1> QED BY <1>4, <1>6, <1>8, <1>9, <1>10

\* Dispatching takes the first frame of the stream.
LEMMA Dispatching ==
  ASSUME IInv, NEW e \in Ends, hand[e] # <<>>, hand' = [hand EXCEPT ![e] = <<>>], UNCHANGED wire
  PROVE  /\ Stream(e) \in Seq(Frame) /\ Stream(e) # <<>> /\ Stream(e)[1] = Head(hand[e])
         /\ Head(hand[e]) \in Frame
         /\ Stream(e)' = Tail(Stream(e))
         /\ \A f \in Ends : f # e => hand'[f] = hand[f] /\ Stream(f)' = Stream(f)
         /\ hand' \in [Ends -> Seq(Frame)] /\ \A f \in Ends : Len(hand'[f]) <= 1
<1>1. /\ wire[e] \in Seq(Frame) /\ hand[e] \in Seq(Frame) /\ Len(hand[e]) <= 1
      /\ <<>> \in Seq(Frame) /\ Len(<<>>) <= 1
  BY DEF IInv, TypeOK
<1>2. hand'[e] = <<>> /\ \A f \in Ends : f # e => hand'[f] = hand[f]
  BY DEF IInv, TypeOK
<1>3. /\ Stream(e) \in Seq(Frame) /\ Stream(e) # <<>> /\ Stream(e)[1] = Head(hand[e])
      /\ Head(hand[e]) \in Frame /\ Tail(Stream(e)) = <<>> \o wire[e]
  BY <1>1, StreamMoves DEF Stream
<1>4. Stream(e)' = Tail(Stream(e))
  BY <1>2, <1>3 DEF Stream
<1>5. \A f \in Ends : f # e => Stream(f)' = Stream(f)
  BY <1>2 DEF Stream
<1>6. hand' \in [Ends -> Seq(Frame)] /\ \A f \in Ends : Len(hand'[f]) <= 1
  BY <1>1, <1>2 DEF IInv, TypeOK
<1> QED BY <1>2, <1>3, <1>4, <1>5, <1>6

\* A HELLO: at an open end it is the first frame and the only one.
LEMMA ReadHelloStep == ASSUME IInv, NEW e \in Ends, ReadHello(e) PROVE IInv'
<1> USE DEF IInv
<1>1. /\ hand[e] # <<>> /\ Head(hand[e]).op = "hello"
      /\ hand' = [hand EXCEPT ![e] = <<>>]
      /\ hello' = [hello EXCEPT ![e] = TRUE]
      /\ UNCHANGED <<pc, call, slot, sent, wire, bye, inbound, frames>>
      /\ IF hello[e] THEN MarkClosed(e, "protocol") ELSE UNCHANGED <<link, cause>>
  BY DEF ReadHello, Handing, Handed, callVars, queueVars, linkVars
<1>2. /\ Stream(e) \in Seq(Frame) /\ Stream(e) # <<>> /\ Stream(e)[1] = Head(hand[e])
      /\ Stream(e)' = Tail(Stream(e))
      /\ \A f \in Ends : f # e => hand'[f] = hand[f] /\ Stream(f)' = Stream(f)
      /\ hand' \in [Ends -> Seq(Frame)] /\ \A f \in Ends : Len(hand'[f]) <= 1
  BY <1>1, Dispatching
<1>3. /\ hello' \in [Ends -> BOOLEAN] /\ hello'[e] = TRUE
      /\ \A f \in Ends : f # e => hello'[f] = hello[f]
  BY <1>1 DEF TypeOK
<1>4. link[e] = "open" => ~hello[e] /\ Greets(Tail(Stream(e)), TRUE)
  <2>1. hello[e] \in BOOLEAN
    BY DEF TypeOK
  <2> QED BY ZenonT(60), <1>1, <1>2, <2>1, TailGreets DEF StreamFollows
<1>5. UNCHANGED <<link, cause>>
  BY <1>1, <1>4 DEF MarkClosed, linkVars
<1>6. TypeOK'
  BY <1>1, <1>2, <1>3, <1>5 DEF TypeOK
<1>7. /\ Slots' /\ InStep'
      /\ \A f \in Ends, k \in Kinds :
           (Waiting(f, k)' <=> Waiting(f, k)) /\ Taken(f, k)' = Taken(f, k)
  BY <1>1, CallersStay
<1>8. \A f \in Ends, k \in Kinds : Dispatched(f, k)' = Dispatched(f, k)
  BY <1>1, <1>7 DEF Dispatched
<1>9. QueuesFollow'
  BY <1>1, <1>5, <1>7 DEF QueuesFollow
<1>10. StreamFollows'
  <2> SUFFICES ASSUME NEW f \in Ends, link[f] = "open"
               PROVE  /\ \A k \in Kinds : Carries(Stream(f)', k, Dispatched(f, k), sent[Peer(f)][k])
                      /\ Greets(Stream(f)', hello'[f])
    BY <1>1, <1>5, <1>8 DEF StreamFollows
  <2>1. CASE f = e
    <3>1. ASSUME NEW k \in Kinds
          PROVE  Carries(Tail(Stream(e)), k, Dispatched(e, k), sent[Peer(e)][k])
      <4>1. Carries(Stream(e), k, Dispatched(e, k), sent[Peer(e)][k])
        BY <2>1 DEF StreamFollows
      <4>2. ~Of(k, Stream(e)[1])
        BY <1>1, <1>2 DEF Of
      <4> QED BY <4>1, <4>2, <1>2, TailOther
    <3> QED BY <3>1, <2>1, <1>2, <1>3, <1>4
  <2>2. CASE f # e
    BY <2>2, <1>2, <1>3 DEF StreamFollows
  <2> QED BY <2>1, <2>2
<1>11. QueuesAccounted'
  <2>1. \A f \in Ends : Queued(f)' = Queued(f)
    BY <1>1 DEF Queued
  <2> QED BY <2>1, <1>1, <1>5, <1>6 DEF QueuesAccounted
<1> QED BY <1>6, <1>7, <1>9, <1>10, <1>11

\* A BYE closes the end, and at an open end it never comes before the HELLO.
LEMMA ReadByeStep == ASSUME IInv, NEW e \in Ends, ReadBye(e) PROVE IInv'
<1> USE DEF IInv
<1>1. /\ hand[e] # <<>> /\ Head(hand[e]).op = "bye"
      /\ hand' = [hand EXCEPT ![e] = <<>>]
      /\ UNCHANGED <<pc, call, slot, sent, wire, bye, hello, inbound, frames>>
      /\ MarkClosed(e, IF hello[e] THEN "bye" ELSE "protocol")
  BY DEF ReadBye, Handing, Handed, callVars, queueVars
<1>2. /\ Stream(e) \in Seq(Frame) /\ Stream(e) # <<>> /\ Stream(e)[1] = Head(hand[e])
      /\ \A f \in Ends : f # e => hand'[f] = hand[f]
      /\ hand' \in [Ends -> Seq(Frame)] /\ \A f \in Ends : Len(hand'[f]) <= 1
  BY <1>1, Dispatching
<1>3. PICK why \in {"bye", "protocol"} :
        why = (IF hello[e] THEN "bye" ELSE "protocol") /\ MarkClosed(e, why)
  BY <1>1
<1>4. /\ link' \in [Ends -> {"open", "closing", "closed"}]
      /\ cause' \in [Ends -> {"none", "own", "failed", "protocol", "bye", "eof"}]
      /\ link'[e] # "open" /\ (link'[e] = "closed" <=> link[e] = "closed")
      /\ cause'[e] # cause[e] => link[e] = "open" /\ cause'[e] = why
      /\ \A f \in Ends : f # e => link'[f] = link[f] /\ cause'[f] = cause[f]
  BY <1>3, Marking
<1>5. TypeOK'
  BY <1>1, <1>2, <1>4 DEF TypeOK
<1>6. link[e] = "open" => why = "bye"
  <2>1. hello[e] \in BOOLEAN
    BY DEF TypeOK
  <2>2. ASSUME link[e] = "open" PROVE hello[e]
    <3>1. Greets(Stream(e), hello[e])
      BY <2>2 DEF StreamFollows
    <3>2. Stream(e)[1].op = "hello" <=> ~hello[e]
      BY <1>2, <2>1, <3>1, TailGreets
    <3>3. Stream(e)[1].op # "hello"
      BY <1>1, <1>2
    <3> QED BY <2>1, <3>2, <3>3
  <2> QED BY <2>2, <1>3
<1>7. cause'[e] # "protocol"
  BY <1>4, <1>6 DEF QueuesAccounted
<1> QED BY <1>1, <1>2, <1>4, <1>5, <1>7, EndClosed

\* The end of the stream closes the end.
LEMMA ReadEofStep == ASSUME IInv, NEW e \in Ends, ReadEof(e) PROVE IInv'
<1> USE DEF IInv
<1>1. /\ wire' = [wire EXCEPT ![e] = <<>>] /\ MarkClosed(e, "eof")
      /\ UNCHANGED <<pc, call, slot, sent, hand, hello, bye, inbound, frames>>
  BY DEF ReadEof, callVars, queueVars
<1>2. /\ link' \in [Ends -> {"open", "closing", "closed"}]
      /\ cause' \in [Ends -> {"none", "own", "failed", "protocol", "bye", "eof"}]
      /\ link'[e] # "open" /\ (link'[e] = "closed" <=> link[e] = "closed")
      /\ cause'[e] # cause[e] => cause'[e] = "eof"
      /\ \A f \in Ends : f # e => link'[f] = link[f] /\ cause'[f] = cause[f]
  BY <1>1, Marking
<1>3. /\ wire' \in [Ends -> Seq(Frame)] /\ \A f \in Ends : f # e => wire'[f] = wire[f]
  <2>1. <<>> \in Seq(Frame)
    OBVIOUS
  <2> QED BY <2>1, <1>1 DEF TypeOK
<1>4. TypeOK'
  BY <1>1, <1>2, <1>3 DEF TypeOK
<1>5. cause'[e] # "protocol"
  BY <1>2 DEF QueuesAccounted
<1> QED BY <1>1, <1>2, <1>3, <1>4, <1>5, EndClosed

\* A payload: at an open end there is room for it, and it is the next of its
\* kind; at any other end it is dropped.
LEMMA ReadExchangeStep == ASSUME IInv, NEW e \in Ends, ReadExchange(e) PROVE IInv'
<1> USE DEF IInv
<1>1. /\ hand[e] # <<>> /\ Head(hand[e]).op = "exchange"
      /\ hand' = [hand EXCEPT ![e] = <<>>]
      /\ UNCHANGED <<pc, call, slot, sent, wire, bye, hello>>
  BY DEF ReadExchange, Handing, Handed, callVars
<1>2. /\ Stream(e) \in Seq(Frame) /\ Stream(e) # <<>> /\ Stream(e)[1] = Head(hand[e])
      /\ Head(hand[e]) \in Frame
      /\ Stream(e)' = Tail(Stream(e))
      /\ \A f \in Ends : f # e => hand'[f] = hand[f] /\ Stream(f)' = Stream(f)
      /\ hand' \in [Ends -> Seq(Frame)] /\ \A f \in Ends : Len(hand'[f]) <= 1
  BY <1>1, Dispatching
<1>3. PICK k \in Kinds, n \in Nat : k = Head(hand[e]).kind /\ n = Head(hand[e]).payload
  BY <1>1, <1>2, Frames
<1>4. /\ Slots' /\ InStep'
      /\ \A f \in Ends, q \in Kinds :
           (Waiting(f, q)' <=> Waiting(f, q)) /\ Taken(f, q)' = Taken(f, q)
  BY <1>1, CallersStay
<1>5. CASE link[e] # "open"
  <2>1. UNCHANGED <<link, cause, inbound, frames>>
    BY <1>5 DEF ReadExchange, MarkClosed, linkVars, queueVars
  <2>2. TypeOK'
    BY <2>1, <1>1, <1>2 DEF TypeOK
  <2>3. cause'[e] # "protocol"
    BY <2>1 DEF QueuesAccounted
  <2> QED BY <2>1, <2>2, <2>3, <1>1, <1>2, <1>5, EndClosed
<1>6. CASE link[e] = "open"
  <2>1. hello[e]
    <3>1. hello[e] \in BOOLEAN /\ Greets(Stream(e), hello[e])
      BY <1>6 DEF TypeOK, StreamFollows
    <3>2. Stream(e)[1].op = "hello" <=> ~hello[e]
      BY <1>2, <3>1, TailGreets
    <3>3. Stream(e)[1].op # "hello"
      BY <1>1, <1>2
    <3> QED BY <3>1, <3>2, <3>3
  <2>2. /\ n = Dispatched(e, k) + 1 /\ n <= sent[Peer(e)][k]
        /\ Carries(Tail(Stream(e)), k, Dispatched(e, k) + 1, sent[Peer(e)][k])
    <3>1. Of(k, Stream(e)[1]) /\ Stream(e)[1].payload = n
      BY <1>1, <1>2, <1>3 DEF Of
    <3>2. Dispatched(e, k) \in Nat /\ sent[Peer(e)][k] \in Nat
      BY Counts, Peers
    <3>3. Carries(Stream(e), k, Dispatched(e, k), sent[Peer(e)][k])
      BY <1>6 DEF StreamFollows
    <3> QED BY <1>2, <3>1, <3>2, <3>3, TailNext
  <2>3. Len(inbound[e][k]) <= 1
    <3>1. /\ sent[e][k] \in Nat /\ sent[Peer(e)][k] \in Nat /\ Taken(e, k) \in Nat
          /\ Len(inbound[e][k]) \in Nat /\ Dispatched(e, k) = Taken(e, k) + Len(inbound[e][k])
      BY Counts, Peers
    <3>2. sent[e][k] <= Taken(e, k) + 1
      BY <3>1 DEF Taken
    <3>3. sent[Peer(e)][k] <= sent[e][k] + 1
      BY DEF InStep
    <3> QED BY SMTT(30), <3>1, <3>2, <3>3, <2>2
  <2>4. ~Over(e, k)
    BY <2>3, Room DEF QueuesAccounted
  <2>5. /\ inbound' = [inbound EXCEPT ![e][k] = Append(@, n)]
        /\ frames' = [frames EXCEPT ![e] = @ + 1]
        /\ UNCHANGED <<link, cause>>
    BY <1>3, <1>6, <2>1, <2>4 DEF ReadExchange, linkVars
  <2>6. /\ inbound' \in [Ends -> [Kinds -> Seq(Nat)]]
        /\ \A f \in Ends, q \in Kinds : f # e \/ q # k => inbound'[f][q] = inbound[f][q]
        /\ Len(inbound'[e][k]) = Len(inbound[e][k]) + 1
        /\ \A i \in DOMAIN inbound'[e][k] :
             \/ i \in DOMAIN inbound[e][k] /\ inbound'[e][k][i] = inbound[e][k][i]
             \/ i = Len(inbound[e][k]) + 1 /\ inbound'[e][k][i] = n
        /\ Cardinality(Queued(e))' = Cardinality(Queued(e)) + 1
        /\ \A f \in Ends : f # e => Queued(f)' = Queued(f)
    BY <2>5, QueueOne
  <2>7. /\ frames' \in [Ends -> Nat] /\ frames'[e] = frames[e] + 1
        /\ \A f \in Ends : f # e => frames'[f] = frames[f]
    BY <2>5 DEF TypeOK
  <2>8. TypeOK'
    BY <2>5, <2>6, <2>7, <1>1, <1>2 DEF TypeOK
  <2>9. /\ Dispatched(e, k)' = Dispatched(e, k) + 1
        /\ \A f \in Ends, q \in Kinds : f # e \/ q # k => Dispatched(f, q)' = Dispatched(f, q)
    <3>1. Dispatched(e, k)' = Dispatched(e, k) + 1
      <4>1. Taken(e, k) \in Nat /\ Len(inbound[e][k]) \in Nat
        BY Counts
      <4>2. Dispatched(e, k)' = Taken(e, k) + (Len(inbound[e][k]) + 1)
        BY <2>6, <1>4 DEF Dispatched
      <4> QED BY <4>1, <4>2 DEF Dispatched
    <3> QED BY <3>1, <2>6, <1>4 DEF Dispatched
  <2>10. QueuesFollow'
    <3> SUFFICES ASSUME NEW f \in Ends, NEW q \in Kinds
                 PROVE  /\ Len(inbound'[f][q]) <= 2
                        /\ Waiting(f, q) => sent[f][q] >= 1
                        /\ link[f] = "open" \/ Waiting(f, q) =>
                             \A i \in DOMAIN inbound'[f][q] : inbound'[f][q][i] = Taken(f, q) + i
      BY <1>1, <1>4, <2>5 DEF QueuesFollow
    <3>1. CASE f = e /\ q = k
      <4>1. Taken(e, k) \in Nat /\ Len(inbound[e][k]) \in Nat
        BY Counts
      <4>2. Len(inbound'[e][k]) <= 2
        BY <4>1, <2>3, <2>6
      <4>3. n = Taken(e, k) + (Len(inbound[e][k]) + 1)
        BY <4>1, <2>2 DEF Dispatched
      <4>4. \A i \in DOMAIN inbound[e][k] : inbound[e][k][i] = Taken(e, k) + i
        BY <1>6 DEF QueuesFollow
      <4>5. \A i \in DOMAIN inbound'[e][k] : inbound'[e][k][i] = Taken(e, k) + i
        BY <4>3, <4>4, <2>6
      <4> QED BY <3>1, <4>2, <4>5 DEF QueuesFollow
    <3>2. CASE f # e \/ q # k
      <4>1. inbound'[f][q] = inbound[f][q]
        BY <3>2, <2>6
      <4> QED BY <4>1 DEF QueuesFollow
    <3> QED BY <3>1, <3>2
  <2>11. StreamFollows'
    <3> SUFFICES ASSUME NEW f \in Ends, link[f] = "open"
                 PROVE  /\ \A q \in Kinds : Carries(Stream(f)', q, Dispatched(f, q)', sent[Peer(f)][q])
                        /\ Greets(Stream(f)', hello[f])
      BY <1>1, <2>5 DEF StreamFollows
    <3>1. CASE f = e
      <4>1. ASSUME NEW q \in Kinds, q # k
            PROVE  Carries(Tail(Stream(e)), q, Dispatched(e, q), sent[Peer(e)][q])
        <5>1. Carries(Stream(e), q, Dispatched(e, q), sent[Peer(e)][q])
          BY <1>6 DEF StreamFollows
        <5>2. ~Of(q, Stream(e)[1])
          BY <4>1, <1>2, <1>3 DEF Of
        <5> QED BY <5>1, <5>2, <1>2, TailOther
      <4>2. Greets(Tail(Stream(e)), TRUE)
        <5>1. hello[e] \in BOOLEAN /\ Greets(Stream(e), hello[e])
          BY <1>6 DEF TypeOK, StreamFollows
        <5> QED BY <1>2, <5>1, TailGreets
      <4>3. hello[e] = TRUE
        BY <2>1 DEF TypeOK
      <4> QED BY <3>1, <4>1, <4>2, <4>3, <1>2, <2>2, <2>9
    <3>2. CASE f # e
      BY <3>2, <1>2, <2>9 DEF StreamFollows
    <3> QED BY <3>1, <3>2
  <2>12. QueuesAccounted'
    <3> SUFFICES ASSUME NEW f \in Ends
                 PROVE  /\ frames'[f] = Cardinality(Queued(f)')
                        /\ link[f] = "closed" => \A q \in Kinds : inbound'[f][q] = <<>>
                        /\ cause[f] # "protocol"
      BY <2>5, <2>8 DEF QueuesAccounted
    <3>1. CASE f = e
      BY <3>1, <1>6, <2>6, <2>7 DEF QueuesAccounted
    <3>2. CASE f # e
      <4>1. Queued(f)' = Queued(f) /\ frames'[f] = frames[f]
        BY <3>2, <2>6, <2>7
      <4>2. \A q \in Kinds : inbound'[f][q] = inbound[f][q]
        BY <3>2, <2>6
      <4> QED BY <4>1, <4>2 DEF QueuesAccounted
    <3> QED BY <3>1, <3>2
  <2> QED BY <1>4, <2>8, <2>10, <2>11, <2>12
<1> QED BY <1>5, <1>6

-----------------------------------------------------------------------------
(* The theorems *)

\* Every step keeps the invariant.
LEMMA StepKeeps == IInv /\ [Next]_vars => IInv'
<1> SUFFICES ASSUME IInv, [Next]_vars PROVE IInv'
  OBVIOUS
<1>1. ASSUME NEW c \in Callers, NEW k \in Kinds, Call(c, k) PROVE IInv'
  BY <1>1, CallStep
<1>2. ASSUME NEW c \in Callers, Caller(c) PROVE IInv'
  BY <1>2, SendStep, TakeStep, RefusedStep DEF Caller
<1>3. ASSUME NEW c \in Callers, GivesUp(c) PROVE IInv'
  BY <1>3, GiveUpSendStep, RefusedStep DEF GivesUp
<1>4. ASSUME NEW e \in Ends, SendBye(e) \/ CloseAfterBye(e) \/ Drain(e) PROVE IInv'
  BY <1>4, SendByeStep, CloseAfterByeStep, DrainStep
<1>5. ASSUME NEW e \in Ends, Reader(e) PROVE IInv'
  BY <1>5, ReadStep, ReadHelloStep, ReadExchangeStep, ReadByeStep, ReadEofStep DEF Reader
<1>6. CASE UNCHANGED vars
  <2>1. UNCHANGED <<pc, call, slot, sent, wire, hand, hello, bye, inbound, frames, link, cause>>
    BY <1>6 DEF vars, callVars, linkVars, queueVars, wireVars
  <2>2. TypeOK' /\ Slots'
    BY <2>1 DEF IInv, TypeOK, Slots
  <2>3. \A e \in Ends, k \in Kinds : Waiting(e, k)' <=> Waiting(e, k)
    BY <2>1 DEF Waiting
  <2> QED BY <2>1, <2>2, <2>3, Unwritten DEF IInv
<1> QED BY <1>1, <1>2, <1>3, <1>4, <1>5, <1>6 DEF Next, Ended

\* The invariant holds throughout: what is between the two ends is, kind by
\* kind, what one has written and the other has not taken, in order.
THEOREM StreamInvariant == Spec => []IInv
<1>1. IInv /\ [Next]_vars => IInv'
  BY StepKeeps
<1> QED BY InitEstablishes, <1>1, PTL DEF Spec

\* What a call in flight finds in its queue answers that very call
\* (exchange, _run_exchange): an answer is never taken for another one.
THEOREM AnswersMatch == Spec => []PairedInOrder
<1>1. IInv => PairedInOrder
  <2> SUFFICES ASSUME IInv, NEW c \in Callers, pc[c] = "wait",
                      inbound[At(c)][call[c].kind] # <<>>
               PROVE  Head(inbound[At(c)][call[c].kind]) = call[c].own
    BY DEF PairedInOrder
  <2>1. PICK e \in Ends, k \in Kinds : e = At(c) /\ k = call[c].kind
    BY CallersAssumption DEF IInv, Slots, At
  <2>2. slot[e][k] = c /\ c # Nobody /\ call[c].own = sent[e][k] /\ Waiting(e, k)
    BY <2>1, CallersAssumption DEF IInv, Slots, Waiting
  <2>3. 1 \in DOMAIN inbound[e][k] /\ Head(inbound[e][k]) = inbound[e][k][1]
    <3>1. inbound[e][k] \in Seq(Nat) /\ inbound[e][k] # <<>>
      BY <2>1 DEF IInv, TypeOK
    <3> QED BY <3>1, EmptySeq, LenProperties, HeadTailProperties
  <2>4. inbound[e][k][1] = Taken(e, k) + 1
    BY <2>2, <2>3 DEF IInv, QueuesFollow
  <2>5. Taken(e, k) + 1 = sent[e][k]
    <3>1. sent[e][k] \in Nat
      BY DEF IInv, TypeOK
    <3> QED BY <2>2, <3>1 DEF Taken
  <2> QED BY <2>1, <2>2, <2>3, <2>4, <2>5
<1> QED BY <1>1, StreamInvariant, PTL

\* The counter of waiting frames is exact, a closed end keeps nothing, and
\* two conforming ends never close the link over a limit or the order of
\* frames (_dispatch, _mark_closed).
THEOREM QueuesStayAccounted == Spec => []QueuesAccounted
<1>1. IInv => QueuesAccounted
  BY DEF IInv
<1> QED BY <1>1, StreamInvariant, PTL

=============================================================================
