-------------------------- MODULE TimedWireProofs --------------------------
(***************************************************************************)
(* Proofs about TimedWire for every capacity, window and bound, and for    *)
(* any choice of ends that break the protocol.                             *)
(***************************************************************************)
EXTENDS TimedWire, FiniteSetTheorems, SequenceTheorems, TLAPS

-----------------------------------------------------------------------------
(* The inductive invariant *)

Received == Messages \cup {Hello}
Frames == [seq : Nat, message : Received \cup {Broken}]
Fences == Ids \X (0..MaxId)

Directions ==
  [sequence : Nat, hello : BOOLEAN, edge : 0..MaxId, pending : SUBSET Ids,
   fence : 0..MaxId, fences : SUBSET Fences, settled : Times, mark : Times \cup {-1}]

Shape ==
  /\ out \in [Ends -> Directions] /\ inc \in [Ends -> Directions]
  /\ helloSent \in [Ends -> BOOLEAN] /\ reading \in [Ends -> BOOLEAN]
  /\ queue \in [Ends -> Seq(Messages)]
  /\ error \in [Ends -> {"none", "protocol", "overflow", "closed", "deadline", "cancelled"}]
  /\ sender \in [Ends -> {"idle", "hello", "data"}]
  /\ log \in [Ends -> Seq(Frames)] /\ written \in [Ends -> Nat]
  /\ polled \in [Ends -> [count : Nat, last : Received]]

(* What is admitted, written, read and accepted come one after the other,  *)
(* and what waits is within the limits.                                    *)
Positions ==
  \A e \in Ends :
    /\ Len(log[e]) <= MaxFrames /\ written[e] <= Len(log[e])
    /\ inc[e].sequence <= written[Other(e)]
    /\ reading[e] => inc[e].sequence < written[Other(e)]
    /\ out[e].sequence <= Len(log[e]) /\ (e \notin Rogue => out[e].sequence = Len(log[e]))
    /\ e \notin Rogue /\ Len(log[e]) > 1 => inc[e].sequence > 0
    /\ Len(queue[e]) <= Capacity

(* The two books an end keeps of a direction: edges and fences.            *)
Books == {"edges", "fences"}
Asks(b, m) == m.type = (IF b = "edges" THEN "EdgeRequest" ELSE "Fence")
Answers(b, m) == m.type = (IF b = "edges" THEN "EdgeResponse" ELSE "FenceAck")
Key(b, m) == IF b = "edges" THEN m.id ELSE <<m.id, m.through>>
Book(b, d) == IF b = "edges" THEN d.pending ELSE d.fences

(* What has been asked and what has been answered by the first n frames.   *)
Asked(b, s, n) == {Key(b, s[i].message) : i \in {j \in 1..n : Asks(b, s[j].message)}}
Settled(b, s, n) == {Key(b, s[i].message) : i \in {j \in 1..n : Answers(b, s[j].message)}}

(* A direction d says of the first n frames of s how many there were, and  *)
(* the latest times; the frames are a conversation in order.               *)
Latest(s, n, type, at, start) ==
  /\ at = start \/ \E j \in Earlier(s, n + 1, type) : s[j].message.at = at
  /\ \A j \in Earlier(s, n + 1, type) : s[j].message.at <= at

Tally(s, n, d) ==
  /\ d.sequence = n /\ (d.hello <=> n > 0)
  /\ d.edge = Cardinality(Earlier(s, n + 1, "EdgeRequest"))
  /\ d.fence = Cardinality(Earlier(s, n + 1, "Fence"))
  /\ Latest(s, n, "Progress", d.settled, 0)
  /\ Latest(s, n, "EmissionComplete", d.mark, -1)
  /\ \A i \in 1..n : Ordered(s, i)

(* The first n frames of s answer what the first k of t ask, and each      *)
(* request once.                                                           *)
Answering(s, n, t, k) ==
  \A b \in Books :
    /\ Settled(b, s, n) \subseteq Asked(b, t, k)
    /\ \A i, j \in 1..n : i < j /\ Answers(b, s[i].message) /\ Answers(b, s[j].message) =>
         Key(b, s[i].message) # Key(b, s[j].message)

Half(s, n, d, t, k) == Tally(s, n, d) /\ Answering(s, n, t, k)

(* What a direction has outstanding is what was asked in it and not        *)
(* answered in the other.                                                  *)
Balanced(s, n, d, t, k) ==
  \A b \in Books : Book(b, d) = Asked(b, s, n) \ Settled(b, t, k)

(* An end's view of the direction it sends in and of the one it receives.  *)
Views(e) ==
  LET f == Other(e) IN
  /\ Half(log[e], Len(log[e]), out[e], log[f], inc[e].sequence)
  /\ Half(log[f], inc[e].sequence, inc[e], log[e], Len(log[e]))
  /\ Open(e) => /\ Balanced(log[e], Len(log[e]), out[e], log[f], inc[e].sequence)
                /\ Balanced(log[f], inc[e].sequence, inc[e], log[e], Len(log[e]))

(* What an end has asked fits the capacity of the other.                   *)
Roomy(e) ==
  \A b \in Books, i \in 1..Len(log[e]) :
    Asks(b, log[e][i].message) =>
      Cardinality(Asked(b, log[e], i - 1) \ Settled(b, log[Other(e)], Len(log[Other(e)])))
        < Capacity

(* The queue holds what was accepted and not taken, but for the Hello.     *)
Queued(e) ==
  Open(e) =>
    /\ polled[e].count + Len(queue[e]) = IF inc[e].sequence = 0 THEN 0 ELSE inc[e].sequence - 1
    /\ \A i \in DOMAIN queue[e] :
         queue[e][i] = log[Other(e)][polled[e].count + i + 1].message

Limits ==
  \A e \in Ends : \A d \in {out[e], inc[e]} :
    Cardinality(d.pending) <= Capacity /\ Cardinality(d.fences) <= Capacity

IInv ==
  /\ Shape /\ Positions /\ Limits
  /\ \A e \in Ends \ Rogue : Views(e) /\ Roomy(e) /\ Queued(e)
  /\ \A e \in Ends : Other(e) \notin Rogue => error[e] # "protocol"

-----------------------------------------------------------------------------
(* The two ends, messages and directions *)

\* Each end is the other of its other.
LEMMA Peers ==
  ASSUME NEW e \in Ends
  PROVE  /\ Other(e) \in Ends /\ Other(e) # e /\ Other(Other(e)) = e
         /\ \A f \in Ends : f = e \/ f = Other(e)
<1>1. PICK a, b \in Ends : a # b /\ Ends = {a, b}
  BY WireAssumption
<1>2. \A f \in Ends : Other(f) \in Ends /\ Other(f) # f
  BY <1>1 DEF Other
<1> QED BY <1>1, <1>2

\* The bounds are numbers.
LEMMA Bounds ==
  /\ Capacity \in Nat /\ Capacity > 0 /\ Window \in Nat /\ MaxFrames \in Nat /\ MaxFrames > 0
  /\ MaxTime \in Nat /\ MaxId \in Nat
BY WireAssumption

\* What a message of each type carries.
LEMMA MessageShapes ==
  ASSUME NEW m \in Received \cup {Broken}
  PROVE  /\ m.type \in {"Hello", "Progress", "EdgeRequest", "EmissionComplete", "EdgeResponse",
                        "Fence", "FenceAck", "Broken"}
         /\ m.type = "Progress" => m.at \in Times
         /\ m.type = "EdgeRequest" => m.id \in Ids /\ m.at \in Times
         /\ m.type = "EmissionComplete" => m.at \in Times /\ m.id \in 0..MaxId
         /\ m.type = "EdgeResponse" => m.id \in Ids
         /\ m.type \in {"Fence", "FenceAck"} => m.id \in Ids /\ m.through \in 0..MaxId
         /\ m.type = "Hello" <=> m = Hello
         /\ m.type = "Broken" <=> m = Broken
         /\ m \in Messages <=> m \notin {Hello, Broken}
<1> USE DEF Hello, Broken, Progress, EdgeRequest, EmissionComplete, EdgeResponse, Fence, FenceAck
<1>0. Ids \cup {0} \subseteq 0..MaxId
  BY Bounds DEF Ids
<1>1. CASE m \in {Hello, Broken}
  BY <1>1 DEF Received, Messages
<1>2. CASE \E at \in Times : m = Progress(at)
  BY <1>2 DEF Received, Messages
<1>3. CASE \E id \in Ids : \E at \in Times : m = EdgeRequest(id, at)
  BY <1>3 DEF Received, Messages
<1>4. CASE \E at \in Times : \E id \in Ids \cup {0} : m = EmissionComplete(at, id)
  BY <1>0, <1>4 DEF Received, Messages
<1>5. CASE \E id \in Ids : m = EdgeResponse(id)
  BY <1>5 DEF Received, Messages
<1>6. CASE \E id \in Ids : \E through \in Ids \cup {0} : m = Fence(id, through)
  <2>1. PICK id \in Ids, through \in Ids \cup {0} : m = Fence(id, through)
    BY <1>6
  <2>2. id \in 0..MaxId /\ through \in 0..MaxId
    BY <1>0
  <2> QED BY <2>1, <2>2 DEF Received, Messages
<1>7. CASE \E id \in Ids : \E through \in Ids \cup {0} : m = FenceAck(id, through)
  BY <1>0, <1>7 DEF Received, Messages
<1> QED BY <1>1, <1>2, <1>3, <1>4, <1>5, <1>6, <1>7 DEF Received, Messages

\* What a message that is legal in a direction changes of it.
LEMMA MovedFields ==
  ASSUME NEW m \in Received, NEW d \in Directions
  PROVE  LET x == Moved(d, m)
         IN /\ x.sequence = d.sequence + 1
            /\ x.hello = IF m.type = "Hello" THEN TRUE ELSE d.hello
            /\ x.edge = IF m.type = "EdgeRequest" THEN m.id ELSE d.edge
            /\ x.fence = IF m.type = "Fence" THEN m.id ELSE d.fence
            /\ x.settled = IF m.type = "Progress" THEN m.at ELSE d.settled
            /\ x.mark = IF m.type = "EmissionComplete" THEN m.at ELSE d.mark
            /\ x.pending = IF m.type = "EdgeRequest" THEN d.pending \cup {m.id} ELSE d.pending
            /\ x.fences = IF m.type = "Fence" THEN d.fences \cup {<<m.id, m.through>>} ELSE d.fences
            /\ x \in Directions
<1>1. /\ m.type \in {"Hello", "Progress", "EdgeRequest", "EmissionComplete", "EdgeResponse",
                     "Fence", "FenceAck", "Broken"}
      /\ m.type = "Progress" => m.at \in Times
      /\ m.type = "EdgeRequest" => m.id \in Ids /\ m.at \in Times
      /\ m.type = "EmissionComplete" => m.at \in Times
      /\ m.type = "Fence" => m.id \in Ids /\ m.through \in 0..MaxId
  BY MessageShapes
<1>2. Ids \subseteq 0..MaxId
  BY Bounds DEF Ids
<1>3. m.type = "Fence" => <<m.id, m.through>> \in Fences
  BY <1>1 DEF Fences
<1> DEFINE next == [d EXCEPT !.sequence = @ + 1]
<1>4. /\ next \in Directions /\ next.sequence = d.sequence + 1
      /\ next.hello = d.hello /\ next.edge = d.edge /\ next.fence = d.fence
      /\ next.settled = d.settled /\ next.mark = d.mark
      /\ next.pending = d.pending /\ next.fences = d.fences
  BY DEF Directions
<1>5. Moved(d, m) =
        CASE m.type = "Hello" -> [next EXCEPT !.hello = TRUE]
          [] m.type = "Progress" -> [next EXCEPT !.settled = m.at]
          [] m.type = "EdgeRequest" -> [next EXCEPT !.edge = m.id, !.pending = @ \cup {m.id}]
          [] m.type = "EmissionComplete" -> [next EXCEPT !.mark = m.at]
          [] m.type = "Fence" ->
               [next EXCEPT !.fence = m.id, !.fences = @ \cup {<<m.id, m.through>>}]
          [] OTHER -> next
  BY DEF Moved
<1> HIDE DEF next
<1>6. CASE m.type = "Hello"
  <2>1. Moved(d, m) = [next EXCEPT !.hello = TRUE]
    BY <1>5, <1>6
  <2>2. [next EXCEPT !.hello = TRUE] \in Directions
    BY <1>4 DEF Directions
  <2>3. LET x == [next EXCEPT !.hello = TRUE]
        IN /\ x.hello = TRUE /\ x.sequence = next.sequence /\ x.edge = next.edge
           /\ x.fence = next.fence /\ x.settled = next.settled /\ x.mark = next.mark
           /\ x.pending = next.pending /\ x.fences = next.fences
    BY <1>4 DEF Directions
  <2> QED BY <1>4, <1>6, <2>1, <2>2, <2>3
<1>7. CASE m.type = "Progress"
  BY <1>1, <1>4, <1>5, <1>7 DEF Directions
<1>8. CASE m.type = "EdgeRequest"
  <2>0. next.pending \cup {m.id} \in SUBSET Ids
    BY <1>1, <1>4, <1>8 DEF Directions
  <2>1. Moved(d, m) = [next EXCEPT !.edge = m.id, !.pending = @ \cup {m.id}]
    BY <1>5, <1>8
  <2>2. [next EXCEPT !.edge = m.id, !.pending = @ \cup {m.id}] \in Directions
    BY <1>1, <1>2, <1>4, <1>8, <2>0 DEF Directions
  <2>3. LET x == [next EXCEPT !.edge = m.id, !.pending = @ \cup {m.id}]
        IN /\ x.hello = next.hello /\ x.sequence = next.sequence /\ x.edge = m.id
           /\ x.fence = next.fence /\ x.settled = next.settled /\ x.mark = next.mark
           /\ x.pending = next.pending \cup {m.id} /\ x.fences = next.fences
    BY <1>4 DEF Directions
  <2> QED BY <1>4, <1>8, <2>1, <2>2, <2>3
<1>9. CASE m.type = "EmissionComplete"
  BY <1>1, <1>4, <1>5, <1>9 DEF Directions
<1>10. CASE m.type = "Fence"
  <2>0. next.fences \cup {<<m.id, m.through>>} \in SUBSET Fences
    BY <1>3, <1>4, <1>10 DEF Directions
  <2>1. Moved(d, m) = [next EXCEPT !.fence = m.id, !.fences = @ \cup {<<m.id, m.through>>}]
    BY <1>5, <1>10
  <2>2. [next EXCEPT !.fence = m.id, !.fences = @ \cup {<<m.id, m.through>>}] \in Directions
    BY <1>1, <1>2, <1>4, <1>10, <2>0 DEF Directions
  <2>3. LET x == [next EXCEPT !.fence = m.id, !.fences = @ \cup {<<m.id, m.through>>}]
        IN /\ x.hello = next.hello /\ x.sequence = next.sequence /\ x.edge = next.edge
           /\ x.fence = m.id /\ x.settled = next.settled /\ x.mark = next.mark
           /\ x.pending = next.pending /\ x.fences = next.fences \cup {<<m.id, m.through>>}
    BY <1>4 DEF Directions
  <2> QED BY <1>4, <1>10, <2>1, <2>2, <2>3
<1>11. CASE m.type \in {"EdgeResponse", "FenceAck", "Broken"}
  BY <1>4, <1>5, <1>11
<1> QED BY <1>1, <1>6, <1>7, <1>8, <1>9, <1>10, <1>11

\* What an answer changes of the opposite direction: the book it settles.
LEMMA AnsweredFields ==
  ASSUME NEW m \in Received, NEW o \in Directions
  PROVE  LET x == Answered(o, m)
         IN /\ x.sequence = o.sequence /\ x.hello = o.hello /\ x.edge = o.edge /\ x.fence = o.fence
            /\ x.settled = o.settled /\ x.mark = o.mark
            /\ x.pending = IF m.type = "EdgeResponse" THEN o.pending \ {m.id} ELSE o.pending
            /\ x.fences = IF m.type = "FenceAck" THEN o.fences \ {<<m.id, m.through>>} ELSE o.fences
            /\ x \in Directions
<1>1. CASE m.type = "EdgeResponse"
  BY <1>1 DEF Answered, Directions
<1>2. CASE m.type = "FenceAck"
  BY <1>2 DEF Answered, Directions
<1>3. CASE m.type \notin {"EdgeResponse", "FenceAck"}
  BY <1>3 DEF Answered
<1> QED BY <1>1, <1>2, <1>3

\* A direction whose outstanding requests are dropped.
LEMMA ClearedFields ==
  ASSUME NEW d \in Directions
  PROVE  LET x == Cleared(d)
         IN /\ x.sequence = d.sequence /\ x.hello = d.hello /\ x.edge = d.edge /\ x.fence = d.fence
            /\ x.settled = d.settled /\ x.mark = d.mark
            /\ x.pending = {} /\ x.fences = {}
            /\ x \in Directions
BY DEF Cleared, Directions

-----------------------------------------------------------------------------
(* Counting in a sequence of frames *)

\* Two sequences have the same first n frames.
Agree(s, t, n) == \A i \in 1..n : s[i] = t[i]

\* What a frame carries: its message is one that can be read.
Readable(s, n) == \A i \in 1..n : s[i].message \in Received \cup {Broken}

\* The positions of earlier frames are a finite set.
LEMMA EarlierFinite ==
  ASSUME NEW s, NEW i \in Nat, NEW type
  PROVE  /\ IsFiniteSet(Earlier(s, i, type)) /\ Cardinality(Earlier(s, i, type)) \in Nat
         /\ i \notin Earlier(s, i, type)
<1>1. Earlier(s, i, type) \subseteq 1..(i - 1)
  BY DEF Earlier
<1>2. IsFiniteSet(1..(i - 1))
  BY FS_Interval
<1>3. IsFiniteSet(Earlier(s, i, type))
  BY <1>1, <1>2, FS_Subset
<1>4. i \notin 1..(i - 1)
  OBVIOUS
<1> QED BY <1>1, <1>3, <1>4, FS_CardinalityType

\* One more frame of another type is no earlier one.
LEMMA EarlierSkips ==
  ASSUME NEW s, NEW n \in Nat, NEW type, s[n + 1].message.type # type
  PROVE  Earlier(s, n + 2, type) = Earlier(s, n + 1, type)
<1>1. 1..((n + 2) - 1) = (1..((n + 1) - 1)) \cup {n + 1}
  OBVIOUS
<1> QED BY <1>1 DEF Earlier

\* One more frame of the type is one more position.
LEMMA EarlierAdds ==
  ASSUME NEW s, NEW n \in Nat, NEW type, s[n + 1].message.type = type
  PROVE  Earlier(s, n + 2, type) = Earlier(s, n + 1, type) \cup {n + 1}
<1>1. 1..((n + 2) - 1) = (1..((n + 1) - 1)) \cup {n + 1} /\ n + 1 \in Nat
  OBVIOUS
<1> QED BY <1>1 DEF Earlier

\* And is counted once.
LEMMA EarlierCounts ==
  ASSUME NEW s, NEW n \in Nat, NEW type, s[n + 1].message.type = type
  PROVE  Cardinality(Earlier(s, n + 2, type)) = Cardinality(Earlier(s, n + 1, type)) + 1
<1>1. Earlier(s, n + 2, type) = Earlier(s, n + 1, type) \cup {n + 1}
  BY EarlierAdds
<1>2. IsFiniteSet(Earlier(s, n + 1, type)) /\ n + 1 \notin Earlier(s, n + 1, type)
  BY EarlierFinite
<1>3. Cardinality(Earlier(s, n + 1, type) \cup {n + 1}) = Cardinality(Earlier(s, n + 1, type)) + 1
  BY <1>2, FS_AddElement
<1> QED BY <1>1, <1>3

\* The frame at a position is counted after it.
LEMMA Counted ==
  ASSUME NEW s, NEW n \in Nat, NEW i \in 1..n
  PROVE  Cardinality(Earlier(s, i, s[i].message.type)) + 1
           <= Cardinality(Earlier(s, n + 1, s[i].message.type))
<1> DEFINE type == s[i].message.type
           before == Earlier(s, i, type)
           all == Earlier(s, n + 1, type)
<1>1. before \cup {i} \subseteq all
  BY DEF Earlier
<1>2. IsFiniteSet(before) /\ i \notin before /\ Cardinality(before) \in Nat
      /\ IsFiniteSet(all) /\ Cardinality(all) \in Nat
  BY EarlierFinite
<1> HIDE DEF before, all, type
<1>3. Cardinality(before \cup {i}) = Cardinality(before) + 1
  BY <1>2, FS_AddElement
<1>4. Cardinality(before \cup {i}) <= Cardinality(all)
  BY <1>1, <1>2, FS_Subset
<1> QED BY <1>3, <1>4 DEF before, all, type

\* Counting looks at no later frame.
LEMMA EarlierAgrees ==
  ASSUME NEW s, NEW t, NEW n \in Nat, Agree(s, t, n), NEW i \in 1..(n + 1), NEW type
  PROVE  /\ Earlier(s, i, type) = Earlier(t, i, type)
         /\ \A j \in Earlier(s, i, type) : s[j] = t[j]
<1>1. \A j \in 1..(i - 1) : j \in 1..n
  OBVIOUS
<1> QED BY <1>1 DEF Earlier, Agree

\* Nor does the order of a frame.
LEMMA OrderedAgrees ==
  ASSUME NEW s, NEW t, NEW n \in Nat, Agree(s, t, n), NEW i \in 1..n
  PROVE  Ordered(s, i) <=> Ordered(t, i)
<1>0. i \in 1..(n + 1) /\ s[i] = t[i]
  BY DEF Agree
<1>1. /\ Earlier(s, i, "Progress") = Earlier(t, i, "Progress")
      /\ \A j \in Earlier(s, i, "Progress") : s[j] = t[j]
  BY <1>0, EarlierAgrees
<1>2. /\ Earlier(s, i, "EmissionComplete") = Earlier(t, i, "EmissionComplete")
      /\ \A j \in Earlier(s, i, "EmissionComplete") : s[j] = t[j]
  BY <1>0, EarlierAgrees
<1>3. Earlier(s, i, "EdgeRequest") = Earlier(t, i, "EdgeRequest")
  BY <1>0, EarlierAgrees
<1>4. Earlier(s, i, "Fence") = Earlier(t, i, "Fence")
  BY <1>0, EarlierAgrees
<1> QED BY <1>0, <1>1, <1>2, <1>3, <1>4 DEF Ordered

\* Nor do the books.
LEMMA BooksAgree ==
  ASSUME NEW s, NEW t, NEW n \in Nat, Agree(s, t, n), NEW b
  PROVE  Asked(b, s, n) = Asked(b, t, n) /\ Settled(b, s, n) = Settled(b, t, n)
BY DEF Asked, Settled, Agree

\* So a tally and the answers of a prefix hold of every continuation of it.
LEMMA TallyAgrees ==
  ASSUME NEW s, NEW t, NEW n \in Nat, Agree(s, t, n), NEW d, Tally(s, n, d)
  PROVE  Tally(t, n, d)
<1>0. n + 1 \in 1..(n + 1)
  OBVIOUS
<1>1. /\ Earlier(s, n + 1, "EdgeRequest") = Earlier(t, n + 1, "EdgeRequest")
      /\ Earlier(s, n + 1, "Fence") = Earlier(t, n + 1, "Fence")
  BY <1>0, EarlierAgrees
<1>2. Latest(t, n, "Progress", d.settled, 0)
  <2>1. /\ Earlier(s, n + 1, "Progress") = Earlier(t, n + 1, "Progress")
        /\ \A j \in Earlier(s, n + 1, "Progress") : s[j] = t[j]
    BY <1>0, EarlierAgrees
  <2> QED BY <2>1 DEF Latest, Tally
<1>3. Latest(t, n, "EmissionComplete", d.mark, -1)
  <2>1. /\ Earlier(s, n + 1, "EmissionComplete") = Earlier(t, n + 1, "EmissionComplete")
        /\ \A j \in Earlier(s, n + 1, "EmissionComplete") : s[j] = t[j]
    BY <1>0, EarlierAgrees
  <2> QED BY <2>1 DEF Latest, Tally
<1>4. \A i \in 1..n : Ordered(t, i)
  BY OrderedAgrees DEF Tally
<1> QED BY <1>1, <1>2, <1>3, <1>4 DEF Tally

\* What answers a prefix answers every continuation of it.
LEMMA AnsweringAgrees ==
  ASSUME NEW s, NEW s2, NEW n \in Nat, Agree(s, s2, n),
         NEW t, NEW t2, NEW k \in Nat, Agree(t, t2, k), Answering(s, n, t, k)
  PROVE  Answering(s2, n, t2, k)
<1> SUFFICES ASSUME NEW b \in Books
             PROVE  /\ Settled(b, s2, n) \subseteq Asked(b, t2, k)
                    /\ \A i, j \in 1..n :
                         i < j /\ Answers(b, s2[i].message) /\ Answers(b, s2[j].message) =>
                           Key(b, s2[i].message) # Key(b, s2[j].message)
  BY DEF Answering
<1>1. Settled(b, s2, n) = Settled(b, s, n) /\ Asked(b, t2, k) = Asked(b, t, k)
  BY BooksAgree
<1>2. Settled(b, s, n) \subseteq Asked(b, t, k)
  BY DEF Answering
<1>3. \A i, j \in 1..n : i < j /\ Answers(b, s[i].message) /\ Answers(b, s[j].message) =>
                           Key(b, s[i].message) # Key(b, s[j].message)
  BY DEF Answering
<1>4. \A i \in 1..n : s2[i] = s[i]
  BY DEF Agree
<1>5. \A i, j \in 1..n :
                         i < j /\ Answers(b, s2[i].message) /\ Answers(b, s2[j].message) =>
                           Key(b, s2[i].message) # Key(b, s2[j].message)
  BY <1>3, <1>4
<1> QED BY <1>1, <1>2, <1>5

-----------------------------------------------------------------------------
(* One more frame *)

\* The edges and fences of a tally are numbered no higher than it says.
LEMMA NumbersBelow ==
  ASSUME NEW s, NEW n \in Nat, NEW d, Tally(s, n, d), NEW i \in 1..n
  PROVE  /\ s[i].message.type = "EdgeRequest" => s[i].message.id <= d.edge
         /\ s[i].message.type = "Fence" => s[i].message.id <= d.fence
<1>1. Ordered(s, i)
  BY DEF Tally
<1>2. Cardinality(Earlier(s, i, s[i].message.type)) + 1
        <= Cardinality(Earlier(s, n + 1, s[i].message.type))
  BY Counted
<1>3. ASSUME s[i].message.type = "EdgeRequest"
      PROVE  s[i].message.id <= d.edge
  <2>1. s[i].message.id = Cardinality(Earlier(s, i, "EdgeRequest")) + 1
    BY <1>1, <1>3 DEF Ordered
  <2>2. d.edge = Cardinality(Earlier(s, n + 1, "EdgeRequest"))
    BY DEF Tally
  <2> QED BY <1>2, <1>3, <2>1, <2>2
<1>4. ASSUME s[i].message.type = "Fence"
      PROVE  s[i].message.id <= d.fence
  <2>1. s[i].message.id = Cardinality(Earlier(s, i, "Fence")) + 1
    BY <1>1, <1>4 DEF Ordered
  <2>2. d.fence = Cardinality(Earlier(s, n + 1, "Fence"))
    BY DEF Tally
  <2> QED BY <1>2, <1>4, <2>1, <2>2
<1> QED BY <1>3, <1>4

\* What the books hold after one more frame.
LEMMA BooksNext ==
  ASSUME NEW s, NEW n \in Nat, NEW b
  PROVE  LET m == s[n + 1].message
         IN /\ Asked(b, s, n + 1) = Asked(b, s, n) \cup (IF Asks(b, m) THEN {Key(b, m)} ELSE {})
            /\ Settled(b, s, n + 1)
                 = Settled(b, s, n) \cup (IF Answers(b, m) THEN {Key(b, m)} ELSE {})
<1>1. 1..(n + 1) = (1..n) \cup {n + 1}
  OBVIOUS
<1> QED BY <1>1 DEF Asked, Settled

\* A longer conversation asks and settles no less.
LEMMA BooksGrow ==
  ASSUME NEW s, NEW n \in Nat, NEW k \in Nat, n <= k, NEW b
  PROVE  Asked(b, s, n) \subseteq Asked(b, s, k) /\ Settled(b, s, n) \subseteq Settled(b, s, k)
<1>1. 1..n \subseteq 1..k
  OBVIOUS
<1> QED BY <1>1 DEF Asked, Settled

\* A request that is legal in a direction is not one of those before it.
LEMMA NewRequest ==
  ASSUME NEW s, NEW n \in Nat, Readable(s, n), NEW d \in Directions, Tally(s, n, d),
         NEW e, NEW m \in Received, NEW o, Legal(e, m, d, o),
         NEW b \in Books, Asks(b, m)
  PROVE  Key(b, m) \notin Asked(b, s, n)
<1>1. SUFFICES ASSUME NEW i \in 1..n, Asks(b, s[i].message), Key(b, s[i].message) = Key(b, m)
               PROVE  FALSE
  BY DEF Asked
<1>2. /\ s[i].message.type = "EdgeRequest" => s[i].message.id <= d.edge
      /\ s[i].message.type = "Fence" => s[i].message.id <= d.fence
  BY NumbersBelow
<1>3. d.edge \in Int /\ d.fence \in Int
  BY Bounds DEF Directions
<1>4. CASE b = "edges"
  <2>1. m.type = "EdgeRequest" /\ s[i].message.type = "EdgeRequest" /\ s[i].message.id = m.id
    BY <1>1, <1>4 DEF Asks, Key
  <2>2. m.id = d.edge + 1
    BY <2>1 DEF Legal
  <2> QED BY <1>2, <1>3, <2>1, <2>2
<1>5. CASE b = "fences"
  <2>1. m.type = "Fence" /\ s[i].message.type = "Fence" /\ s[i].message.id = m.id
    BY <1>1, <1>5 DEF Asks, Key
  <2>2. m.id = d.fence + 1
    BY <2>1 DEF Legal
  <2> QED BY <1>2, <1>3, <2>1, <2>2
<1> QED BY <1>4, <1>5 DEF Books

\* The latest of some times, after one more frame.
LEMMA LatestNext ==
  ASSUME NEW s, NEW n \in Nat, Readable(s, n), NEW type, type \in {"Progress", "EmissionComplete"},
         NEW at \in Int, NEW start, Latest(s, n, type, at, start),
         s[n + 1].message \in Received
  PROVE  LET m == s[n + 1].message
         IN /\ m.type # type => Latest(s, n + 1, type, at, start)
            /\ m.type = type /\ m.at >= at => Latest(s, n + 1, type, m.at, start)
<1>0. (n + 1) + 1 = n + 2
  OBVIOUS
<1>1. \A j \in Earlier(s, n + 1, type) : s[j].message.at \in Int /\ s[j].message.at <= at
  <2> SUFFICES ASSUME NEW j \in Earlier(s, n + 1, type)
               PROVE  s[j].message.at \in Int /\ s[j].message.at <= at
    OBVIOUS
  <2>1. j \in 1..n /\ s[j].message.type = type
    BY DEF Earlier
  <2>2. s[j].message \in Received \cup {Broken}
    BY <2>1 DEF Readable
  <2>3. s[j].message.at \in Times
    BY <2>1, <2>2, MessageShapes
  <2> QED BY <2>3, Bounds DEF Times, Latest
<1>2. CASE s[n + 1].message.type # type
  <2>1. Earlier(s, n + 2, type) = Earlier(s, n + 1, type)
    BY <1>2, EarlierSkips
  <2> QED BY <1>0, <1>2, <2>1 DEF Latest
<1>3. CASE s[n + 1].message.type = type /\ s[n + 1].message.at >= at
  <2>1. Earlier(s, n + 2, type) = Earlier(s, n + 1, type) \cup {n + 1}
    BY <1>3, EarlierAdds
  <2>2. s[n + 1].message.at \in Int
    BY <1>3, MessageShapes, Bounds DEF Times
  <2>3. \A j \in Earlier(s, n + 2, type) : s[j].message.at <= s[n + 1].message.at
    BY <1>1, <1>3, <2>1, <2>2
  <2>4. n + 1 \in Earlier(s, n + 2, type)
    BY <2>1
  <2> QED BY <1>0, <1>3, <2>3, <2>4 DEF Latest
<1> QED BY <1>2, <1>3

\* A message that is legal after the first n frames keeps the tally.
LEMMA TallyNext ==
  ASSUME NEW s, NEW n \in Nat, Readable(s, n), NEW d \in Directions, Tally(s, n, d),
         NEW e, NEW m \in Received, NEW o, Legal(e, m, d, o),
         s[n + 1].seq = n + 1, s[n + 1].message = m
  PROVE  Tally(s, n + 1, Moved(d, m))
<1> DEFINE x == Moved(d, m)
<1>0. /\ x.sequence = d.sequence + 1
      /\ x.hello = IF m.type = "Hello" THEN TRUE ELSE d.hello
      /\ x.edge = IF m.type = "EdgeRequest" THEN m.id ELSE d.edge
      /\ x.fence = IF m.type = "Fence" THEN m.id ELSE d.fence
      /\ x.settled = IF m.type = "Progress" THEN m.at ELSE d.settled
      /\ x.mark = IF m.type = "EmissionComplete" THEN m.at ELSE d.mark
  BY MovedFields
<1> HIDE DEF x
<1>1. /\ m.type \in {"Hello", "Progress", "EdgeRequest", "EmissionComplete", "EdgeResponse",
                     "Fence", "FenceAck", "Broken"}
      /\ m.type = "Progress" => m.at \in Times
      /\ m.type = "EdgeRequest" => m.id \in Ids /\ m.at \in Times
      /\ m.type = "EmissionComplete" => m.at \in Times /\ m.id \in 0..MaxId
      /\ m.type = "Broken" <=> m = Broken
  BY MessageShapes
<1>2. m \notin {Broken}
  BY MessageShapes DEF Received, Hello, Broken, Messages, Progress, EdgeRequest, EmissionComplete,
                       EdgeResponse, Fence, FenceAck
<1>3. /\ d.settled \in Int /\ d.mark \in Int /\ d.edge \in Int /\ d.fence \in Int
      /\ d.hello \in BOOLEAN
  BY Bounds DEF Directions, Times
<1>4. /\ m.type = "Hello" => ~d.hello
      /\ m.type # "Hello" => d.hello
  BY <1>1, <1>2, <1>3 DEF Legal, Mutual
<1>5. /\ m.type = "Progress" => m.at >= d.settled
      /\ m.type = "EdgeRequest" => m.id = d.edge + 1 /\ m.at > d.mark
      /\ m.type = "EmissionComplete" => m.id = d.edge /\ m.at >= d.mark
      /\ m.type = "Fence" => m.id = d.fence + 1 /\ m.through = d.edge
  BY DEF Legal
<1>6. d.sequence = n /\ (d.hello <=> n > 0)
  BY DEF Tally
<1>7. x.sequence = n + 1 /\ (x.hello <=> n + 1 > 0)
  BY <1>0, <1>3, <1>4, <1>6
<1>8. /\ d.edge = Cardinality(Earlier(s, n + 1, "EdgeRequest"))
      /\ d.fence = Cardinality(Earlier(s, n + 1, "Fence"))
      /\ Latest(s, n, "Progress", d.settled, 0)
      /\ Latest(s, n, "EmissionComplete", d.mark, -1)
  BY DEF Tally
<1>9. x.edge = Cardinality(Earlier(s, (n + 1) + 1, "EdgeRequest"))
  <2>0. (n + 1) + 1 = n + 2
    OBVIOUS
  <2>1. CASE m.type = "EdgeRequest"
    <3>1. Cardinality(Earlier(s, n + 2, "EdgeRequest"))
            = Cardinality(Earlier(s, n + 1, "EdgeRequest")) + 1
      BY <2>1, EarlierCounts
    <3> QED BY <1>0, <1>5, <1>8, <2>0, <2>1, <3>1
  <2>2. CASE m.type # "EdgeRequest"
    <3>1. Earlier(s, n + 2, "EdgeRequest") = Earlier(s, n + 1, "EdgeRequest")
      BY <2>2, EarlierSkips
    <3> QED BY <1>0, <1>8, <2>0, <2>2, <3>1
  <2> QED BY <2>1, <2>2
<1>10. x.fence = Cardinality(Earlier(s, (n + 1) + 1, "Fence"))
  <2>0. (n + 1) + 1 = n + 2
    OBVIOUS
  <2>1. CASE m.type = "Fence"
    <3>1. Cardinality(Earlier(s, n + 2, "Fence")) = Cardinality(Earlier(s, n + 1, "Fence")) + 1
      BY <2>1, EarlierCounts
    <3> QED BY <1>0, <1>5, <1>8, <2>0, <2>1, <3>1
  <2>2. CASE m.type # "Fence"
    <3>1. Earlier(s, n + 2, "Fence") = Earlier(s, n + 1, "Fence")
      BY <2>2, EarlierSkips
    <3> QED BY <1>0, <1>8, <2>0, <2>2, <3>1
  <2> QED BY <2>1, <2>2
<1>11. Latest(s, n + 1, "Progress", x.settled, 0)
  <2>1. CASE m.type = "Progress"
    BY <1>0, <1>3, <1>5, <1>8, <2>1, LatestNext
  <2>2. CASE m.type # "Progress"
    BY <1>0, <1>3, <1>8, <2>2, LatestNext
  <2> QED BY <2>1, <2>2
<1>12. Latest(s, n + 1, "EmissionComplete", x.mark, -1)
  <2>1. CASE m.type = "EmissionComplete"
    BY <1>0, <1>3, <1>5, <1>8, <2>1, LatestNext
  <2>2. CASE m.type # "EmissionComplete"
    BY <1>0, <1>3, <1>8, <2>2, LatestNext
  <2> QED BY <2>1, <2>2
<1>13. Ordered(s, n + 1)
  <2>1. m.type = "Hello" <=> n + 1 = 1
    BY <1>4, <1>6
  <2>2. m.type # "Broken"
    BY <1>1, <1>2
  <2>3. ASSUME NEW type, type \in {"Progress", "EmissionComplete"}, NEW j \in Earlier(s, n + 1, type)
        PROVE  s[j].message.at \in Int
    <3>1. j \in 1..n /\ s[j].message.type = type
      BY DEF Earlier
    <3>2. s[j].message \in Received \cup {Broken}
      BY <3>1 DEF Readable
    <3>3. s[j].message.at \in Times
      BY <2>3, <3>1, <3>2, MessageShapes
    <3> QED BY <3>3, Bounds DEF Times
  <2>4. \A j \in Earlier(s, n + 1, "Progress") : s[j].message.at <= d.settled
    BY <1>8 DEF Latest
  <2>5. \A j \in Earlier(s, n + 1, "EmissionComplete") : s[j].message.at <= d.mark
    BY <1>8 DEF Latest
  <2>6. m.type \in {"Progress", "EdgeRequest", "EmissionComplete"} => m.at \in Int
    BY <1>1, Bounds DEF Times
  <2>7. m.type = "Progress" => \A j \in Earlier(s, n + 1, "Progress") : m.at >= s[j].message.at
    BY <1>3, <1>5, <2>3, <2>4, <2>6
  <2>8. m.type = "EmissionComplete" =>
          \A j \in Earlier(s, n + 1, "EmissionComplete") : m.at >= s[j].message.at
    BY <1>3, <1>5, <2>3, <2>5, <2>6
  <2>9. m.type = "EdgeRequest" =>
          \A j \in Earlier(s, n + 1, "EmissionComplete") : m.at > s[j].message.at
    BY <1>3, <1>5, <2>3, <2>5, <2>6
  <2> QED BY <1>5, <1>8, <2>1, <2>2, <2>7, <2>8, <2>9 DEF Ordered
<1>14. \A i \in 1..(n + 1) : Ordered(s, i)
  <2>1. \A i \in 1..n : Ordered(s, i)
    BY DEF Tally
  <2>2. \A i \in 1..(n + 1) : i \in 1..n \/ i = n + 1
    OBVIOUS
  <2> QED BY <1>13, <2>1, <2>2
<1> QED BY <1>7, <1>9, <1>10, <1>11, <1>12, <1>14 DEF Tally, x

\* What a direction says of its frames it says whatever is outstanding.
LEMMA TallyOfFields ==
  ASSUME NEW s, NEW n, NEW d, NEW x, Tally(s, n, d),
         x.sequence = d.sequence, x.hello = d.hello, x.edge = d.edge, x.fence = d.fence,
         x.settled = d.settled, x.mark = d.mark
  PROVE  Tally(s, n, x)
BY DEF Tally

-----------------------------------------------------------------------------
(* One more frame in the books of both directions *)

\* What a legal message adds to a book of its direction and takes from one of the other.
LEMMA BooksMoved ==
  ASSUME NEW m \in Received, NEW d \in Directions, NEW o \in Directions, NEW b \in Books
  PROVE  /\ Book(b, Moved(d, m)) = Book(b, d) \cup (IF Asks(b, m) THEN {Key(b, m)} ELSE {})
         /\ Book(b, Answered(o, m)) = Book(b, o) \ (IF Answers(b, m) THEN {Key(b, m)} ELSE {})
<1>1. LET x == Moved(d, m)
      IN /\ x.pending = IF m.type = "EdgeRequest" THEN d.pending \cup {m.id} ELSE d.pending
         /\ x.fences = IF m.type = "Fence" THEN d.fences \cup {<<m.id, m.through>>} ELSE d.fences
  BY MovedFields
<1>2. LET x == Answered(o, m)
      IN /\ x.pending = IF m.type = "EdgeResponse" THEN o.pending \ {m.id} ELSE o.pending
         /\ x.fences = IF m.type = "FenceAck" THEN o.fences \ {<<m.id, m.through>>} ELSE o.fences
  BY AnsweredFields
<1>3. CASE b = "edges"
  BY <1>1, <1>2, <1>3 DEF Book, Key, Asks, Answers
<1>4. CASE b = "fences"
  BY <1>1, <1>2, <1>4 DEF Book, Key, Asks, Answers
<1> QED BY <1>3, <1>4 DEF Books

\* A legal answer is in the book of the opposite direction.
LEMMA AnswerIsAsked ==
  ASSUME NEW e, NEW m \in Received, NEW d, NEW o, Legal(e, m, d, o), NEW b \in Books, Answers(b, m)
  PROVE  Key(b, m) \in Book(b, o)
<1>1. CASE b = "edges"
  <2>1. m.type = "EdgeResponse"
    BY <1>1 DEF Answers
  <2> QED BY <1>1, <2>1 DEF Legal, Key, Book
<1>2. CASE b = "fences"
  <2>1. m.type = "FenceAck"
    BY <1>2 DEF Answers
  <2> QED BY <1>2, <2>1 DEF Legal, Key, Book
<1> QED BY <1>1, <1>2 DEF Books

\* A legal answer keeps the answers right: it was asked for and is the first.
LEMMA AnsweringNext ==
  ASSUME NEW s, NEW n \in Nat, NEW t, NEW k \in Nat, Answering(s, n, t, k),
         NEW o, Balanced(t, k, o, s, n),
         NEW e, NEW m \in Received, NEW d, Legal(e, m, d, o), s[n + 1].message = m
  PROVE  Answering(s, n + 1, t, k)
<1> SUFFICES ASSUME NEW b \in Books
             PROVE  /\ Settled(b, s, n + 1) \subseteq Asked(b, t, k)
                    /\ \A i, j \in 1..(n + 1) :
                         i < j /\ Answers(b, s[i].message) /\ Answers(b, s[j].message) =>
                           Key(b, s[i].message) # Key(b, s[j].message)
  BY DEF Answering
<1>1. /\ Settled(b, s, n) \subseteq Asked(b, t, k)
      /\ \A i, j \in 1..n : i < j /\ Answers(b, s[i].message) /\ Answers(b, s[j].message) =>
           Key(b, s[i].message) # Key(b, s[j].message)
  BY DEF Answering
<1>2. Book(b, o) = Asked(b, t, k) \ Settled(b, s, n)
  BY DEF Balanced
<1>3. Answers(b, m) => Key(b, m) \in Book(b, o)
  BY AnswerIsAsked
<1>4. Settled(b, s, n + 1) = Settled(b, s, n) \cup (IF Answers(b, m) THEN {Key(b, m)} ELSE {})
  BY BooksNext
<1>5. Settled(b, s, n + 1) \subseteq Asked(b, t, k)
  BY <1>1, <1>2, <1>3, <1>4
<1>6. ASSUME NEW i \in 1..(n + 1), NEW j \in 1..(n + 1),
             i < j, Answers(b, s[i].message), Answers(b, s[j].message)
      PROVE  Key(b, s[i].message) # Key(b, s[j].message)
  <2>1. i \in 1..n
    BY <1>6
  <2>2. CASE j \in 1..n
    BY <1>1, <1>6, <2>1, <2>2
  <2>3. CASE j = n + 1
    <3>1. Key(b, s[i].message) \in Settled(b, s, n)
      BY <1>6, <2>1 DEF Settled
    <3> QED BY <1>2, <1>3, <1>6, <2>3, <3>1
  <2> QED BY <2>2, <2>3
<1> QED BY <1>5, <1>6

\* A legal message keeps both directions' books.
LEMMA BalancedNext ==
  ASSUME NEW s, NEW n \in Nat, Readable(s, n), NEW t, NEW k \in Nat,
         NEW d \in Directions, Tally(s, n, d), Balanced(s, n, d, t, k),
         NEW o \in Directions, Balanced(t, k, o, s, n), Answering(t, k, s, n),
         NEW e, NEW m \in Received, Legal(e, m, d, o), s[n + 1].message = m
  PROVE  /\ Balanced(s, n + 1, Moved(d, m), t, k)
         /\ Balanced(t, k, Answered(o, m), s, n + 1)
<1> SUFFICES ASSUME NEW b \in Books
             PROVE  /\ Book(b, Moved(d, m)) = Asked(b, s, n + 1) \ Settled(b, t, k)
                    /\ Book(b, Answered(o, m)) = Asked(b, t, k) \ Settled(b, s, n + 1)
  BY DEF Balanced
<1>1. /\ Book(b, Moved(d, m)) = Book(b, d) \cup (IF Asks(b, m) THEN {Key(b, m)} ELSE {})
      /\ Book(b, Answered(o, m)) = Book(b, o) \ (IF Answers(b, m) THEN {Key(b, m)} ELSE {})
  BY BooksMoved
<1>2. /\ Asked(b, s, n + 1) = Asked(b, s, n) \cup (IF Asks(b, m) THEN {Key(b, m)} ELSE {})
      /\ Settled(b, s, n + 1) = Settled(b, s, n) \cup (IF Answers(b, m) THEN {Key(b, m)} ELSE {})
  BY BooksNext
<1>3. /\ Book(b, d) = Asked(b, s, n) \ Settled(b, t, k)
      /\ Book(b, o) = Asked(b, t, k) \ Settled(b, s, n)
      /\ Settled(b, t, k) \subseteq Asked(b, s, n)
  BY DEF Balanced, Answering
<1>4. Asks(b, m) => Key(b, m) \notin Asked(b, s, n)
  BY NewRequest
<1>5. Book(b, Moved(d, m)) = Asked(b, s, n + 1) \ Settled(b, t, k)
  <2>1. CASE Asks(b, m)
    BY <1>1, <1>2, <1>3, <1>4, <2>1
  <2>2. CASE ~Asks(b, m)
    BY <1>1, <1>2, <1>3, <2>2
  <2> QED BY <2>1, <2>2
<1>6. Book(b, Answered(o, m)) = Asked(b, t, k) \ Settled(b, s, n + 1)
  BY <1>1, <1>2, <1>3
<1> QED BY <1>5, <1>6

\* More to answer leaves the answers right.
LEMMA AnsweringGrows ==
  ASSUME NEW s, NEW n \in Nat, NEW t, NEW k \in Nat, NEW q \in Nat, k <= q, Answering(s, n, t, k)
  PROVE  Answering(s, n, t, q)
<1>1. \A b \in Books : Asked(b, t, k) \subseteq Asked(b, t, q)
  BY BooksGrow
<1> QED BY <1>1 DEF Answering

\* A legal message of a direction d, the other being o, keeps what both say.
LEMMA MessageStep ==
  ASSUME NEW s, NEW n \in Nat, Readable(s, n), NEW t, NEW k \in Nat,
         NEW d \in Directions, Half(s, n, d, t, k), Balanced(s, n, d, t, k),
         NEW o \in Directions, Half(t, k, o, s, n), Balanced(t, k, o, s, n),
         NEW e, NEW m \in Received, Legal(e, m, d, o),
         s[n + 1].seq = n + 1, s[n + 1].message = m
  PROVE  /\ Half(s, n + 1, Moved(d, m), t, k) /\ Balanced(s, n + 1, Moved(d, m), t, k)
         /\ Half(t, k, Answered(o, m), s, n + 1) /\ Balanced(t, k, Answered(o, m), s, n + 1)
<1>1. Tally(s, n, d) /\ Answering(s, n, t, k) /\ Tally(t, k, o) /\ Answering(t, k, s, n)
  BY DEF Half
<1>2. Tally(s, n + 1, Moved(d, m))
  BY <1>1, TallyNext
<1>3. Tally(t, k, Answered(o, m))
  <2>1. LET x == Answered(o, m)
        IN /\ x.sequence = o.sequence /\ x.hello = o.hello /\ x.edge = o.edge /\ x.fence = o.fence
           /\ x.settled = o.settled /\ x.mark = o.mark
    BY AnsweredFields
  <2> QED BY <1>1, <2>1, TallyOfFields
<1>4. Answering(s, n + 1, t, k)
  BY <1>1, AnsweringNext
<1>5. Answering(t, k, s, n + 1)
  BY <1>1, AnsweringGrows
<1>6. Balanced(s, n + 1, Moved(d, m), t, k) /\ Balanced(t, k, Answered(o, m), s, n + 1)
  BY <1>1, BalancedNext
<1> QED BY <1>2, <1>3, <1>4, <1>5, <1>6 DEF Half

-----------------------------------------------------------------------------
(* What an end says stays right while logs grow *)

\* Balanced looks at no later frame.
LEMMA BalancedAgrees ==
  ASSUME NEW s, NEW s2, NEW n \in Nat, Agree(s, s2, n),
         NEW t, NEW t2, NEW k \in Nat, Agree(t, t2, k), NEW d, Balanced(s, n, d, t, k)
  PROVE  Balanced(s2, n, d, t2, k)
<1> SUFFICES ASSUME NEW b \in Books
             PROVE  Book(b, d) = Asked(b, s2, n) \ Settled(b, t2, k)
  BY DEF Balanced
<1>1. Asked(b, s2, n) = Asked(b, s, n) /\ Settled(b, t2, k) = Settled(b, t, k)
  BY BooksAgree
<1> QED BY <1>1 DEF Balanced

\* Half does neither.
LEMMA HalfAgrees ==
  ASSUME NEW s, NEW s2, NEW n \in Nat, Agree(s, s2, n),
         NEW t, NEW t2, NEW k \in Nat, Agree(t, t2, k), NEW d, Half(s, n, d, t, k)
  PROVE  Half(s2, n, d, t2, k)
BY TallyAgrees, AnsweringAgrees DEF Half

\* What the types and positions say of one end.
LEMMA EndShapes ==
  ASSUME Shape, Positions, NEW e \in Ends
  PROVE  /\ out[e] \in Directions /\ inc[e] \in Directions
         /\ log[e] \in Seq(Frames) /\ Len(log[e]) \in Nat /\ written[e] \in Nat
         /\ inc[e].sequence \in Nat /\ out[e].sequence \in Nat
         /\ inc[e].sequence <= written[Other(e)] /\ written[Other(e)] <= Len(log[Other(e)])
         /\ queue[e] \in Seq(Messages) /\ Len(queue[e]) \in Nat
         /\ \A i \in 1..Len(log[e]) : /\ log[e][i].message \in Received \cup {Broken}
                                      /\ log[e][i].seq \in Nat
<1>0. Other(e) \in Ends
  BY Peers
<1>1. /\ out[e] \in Directions /\ inc[e] \in Directions
      /\ log[e] \in Seq(Frames) /\ written[e] \in Nat /\ queue[e] \in Seq(Messages)
  BY DEF Shape
<1>2. Len(log[e]) \in Nat /\ Len(queue[e]) \in Nat
  BY <1>1
<1>3. inc[e].sequence \in Nat /\ out[e].sequence \in Nat
  BY <1>1 DEF Directions
<1>4. inc[e].sequence <= written[Other(e)] /\ written[Other(e)] <= Len(log[Other(e)])
  BY <1>0 DEF Positions
<1>5. \A i \in 1..Len(log[e]) : log[e][i] \in Frames
  BY <1>1
<1> QED BY <1>1, <1>2, <1>3, <1>4, <1>5 DEF Frames

\* The frames of a log can be read.
LEMMA LogReadable ==
  ASSUME Shape, Positions, NEW e \in Ends, NEW n \in Nat, n <= Len(log[e])
  PROVE  Readable(log[e], n)
<1>1. \A i \in 1..Len(log[e]) : log[e][i].message \in Received \cup {Broken}
  BY EndShapes
<1>2. Len(log[e]) \in Nat
  BY EndShapes
<1> QED BY <1>1, <1>2 DEF Readable

\* An end whose own state does not move keeps its views while the other's log grows.
LEMMA ViewsKept ==
  ASSUME Shape, Positions, NEW e \in Ends, Views(e),
         Agree(log[Other(e)], log'[Other(e)], Len(log[Other(e)])),
         log'[e] = log[e], out'[e] = out[e], inc'[e] = inc[e], Open(e)' => Open(e)
  PROVE  Views(e)'
<1> DEFINE f == Other(e)  k == inc[e].sequence  n == Len(log[e])
<1>1. f \in Ends
  BY Peers
<1>2. k \in Nat /\ n \in Nat /\ k <= Len(log[f]) /\ Len(log[f]) \in Nat
  BY <1>1, EndShapes
<1>3. Agree(log[f], log'[f], k) /\ Agree(log[e], log'[e], n)
  BY <1>2 DEF Agree
<1>4. /\ Half(log[e], n, out[e], log[f], k) /\ Half(log[f], k, inc[e], log[e], n)
      /\ Open(e) => /\ Balanced(log[e], n, out[e], log[f], k)
                    /\ Balanced(log[f], k, inc[e], log[e], n)
  BY DEF Views
<1> HIDE DEF f, k, n
<1>5. Half(log'[e], n, out[e], log'[f], k) /\ Half(log'[f], k, inc[e], log'[e], n)
  BY <1>2, <1>3, <1>4, HalfAgrees
<1>6. Open(e) => /\ Balanced(log'[e], n, out[e], log'[f], k)
                 /\ Balanced(log'[f], k, inc[e], log'[e], n)
  BY <1>2, <1>3, <1>4, BalancedAgrees
<1> QED BY <1>5, <1>6 DEF Views, f, k, n

-----------------------------------------------------------------------------
(* A frame from a channel is accepted *)

\* A time that is not before every earlier one is not before the latest.
LEMMA AfterLatest ==
  ASSUME NEW s, NEW n, NEW type, NEW at, NEW start, Latest(s, n, type, at, start), NEW x
  PROVE  /\ x >= start /\ (\A j \in Earlier(s, n + 1, type) : x >= s[j].message.at) => x >= at
         /\ x > start /\ (\A j \in Earlier(s, n + 1, type) : x > s[j].message.at) => x > at
BY DEF Latest

\* The next frame of a channel that has been read by one is legal for it, once
\* its own Hello has been sent.
LEMMA PeerIsLegal ==
  ASSUME Shape, Positions,
         NEW f \in Ends, f \notin Rogue, Open(f), Views(f),
         Other(f) \notin Rogue, Views(Other(f)), Roomy(Other(f)),
         reading[f], MayAccept(f, log[Other(f)][inc[f].sequence + 1].message)
  PROVE  Acceptable(f, log[Other(f)][inc[f].sequence + 1], inc[f], out[f])
<1> DEFINE e == Other(f)
           s == log[e]  t == log[f]
           n == inc[f].sequence  k == inc[e].sequence
           m == s[n + 1].message
           d == inc[f]  o == out[f]
<1>1. e \in Ends /\ Other(e) = f /\ e \notin Rogue
  BY Peers
<1>2. n \in Nat /\ k \in Nat /\ Len(s) \in Nat /\ Len(t) \in Nat
      /\ written[e] \in Nat /\ written[f] \in Nat
      /\ n < written[e] /\ written[e] <= Len(s) /\ k <= written[f] /\ written[f] <= Len(t)
  BY <1>1, EndShapes DEF Positions
<1>3. n + 1 \in 1..Len(s)
  BY <1>2
<1>4. m \in Received \cup {Broken} /\ s[n + 1].seq \in Nat
  BY <1>1, <1>3, EndShapes
<1>5. d \in Directions /\ o \in Directions
  BY EndShapes
<1>6. /\ Tally(s, n, d) /\ Tally(t, Len(t), o) /\ Balanced(s, n, d, t, Len(t))
      /\ Balanced(t, Len(t), o, s, n)
  BY DEF Views, Half
<1>7. Tally(s, Len(s), out[e]) /\ Answering(s, Len(s), t, k)
  BY <1>1 DEF Views, Half
<1>8. Ordered(s, n + 1)
  BY <1>3, <1>7 DEF Tally
<1>9. /\ s[n + 1].seq = n + 1 /\ (m.type = "Hello" <=> n + 1 = 1) /\ m.type # "Broken"
  BY <1>8 DEF Ordered
<1>10. d.sequence = n /\ (d.hello <=> n > 0)
  BY <1>6 DEF Tally
<1>11. /\ d.hello \in BOOLEAN /\ o.hello \in BOOLEAN /\ d.settled \in Times
       /\ d.mark \in Times \cup {-1} /\ d.pending \subseteq Ids /\ d.fences \subseteq Fences
  BY <1>5 DEF Directions
<1>12. m.type # "Hello" => Mutual(f, d, o)
  <2> SUFFICES ASSUME m.type # "Hello"
               PROVE  Mutual(f, d, o)
    OBVIOUS
  <2>1. n > 0
    <3>1. n + 1 # 1
      BY <1>9
    <3>2. \A x \in Nat : x + 1 # 1 => x > 0
      OBVIOUS
    <3> QED BY <1>2, <3>1, <3>2
  <2>2. Len(s) > 1
    BY <1>3, <1>2, <2>1
  <2>3. k > 0
    BY <1>1, <2>2 DEF Positions
  <2>4. Len(t) > 0
    BY <1>2, <2>3
  <2>5. o.hello
    BY <1>6, <2>4 DEF Tally
  <2>6. helloSent[f]
    <3>1. m.type # "Hello" /\ m.type # "Broken"
      BY <1>9
    <3>2. Hello.type = "Hello" /\ Broken.type = "Broken"
      BY ONLY DEF Hello, Broken
    <3>3. m # Hello /\ m # Broken
      BY ONLY <3>1, <3>2
    <3> QED BY <2>5, <3>3 DEF MayAccept
  <2> QED BY <1>10, <2>1, <2>5, <2>6 DEF Mutual
<1>13. m.type = "Hello" => ~d.hello /\ d.sequence = 0
  BY <1>2, <1>9, <1>10
<1>14. Capacity \in Nat /\ Capacity > 0 /\ MaxTime \in Nat
  BY Bounds
<1>14a. \A x \in Times : x >= 0 /\ x >= -1 /\ x > -1
  BY ONLY <1>14 DEF Times
<1>15. /\ Latest(s, n, "Progress", d.settled, 0) /\ Latest(s, n, "EmissionComplete", d.mark, -1)
       /\ d.edge = Cardinality(Earlier(s, n + 1, "EdgeRequest"))
       /\ d.fence = Cardinality(Earlier(s, n + 1, "Fence"))
  BY <1>6 DEF Tally
<1>16. m.type = "Progress" => m.at >= d.settled
  <2>1. m.type = "Progress" => m.at \in Times
    BY <1>4, MessageShapes
  <2>2. m.type = "Progress" => m.at >= 0
    BY <1>14a, <2>1
  <2>3. m.type = "Progress" => \A j \in Earlier(s, n + 1, "Progress") : m.at >= s[j].message.at
    BY <1>8 DEF Ordered
  <2> DEFINE at == m.at
             last == d.settled
  <2>4. Latest(s, n, "Progress", last, 0)
    BY <1>15
  <2> HIDE DEF s, n, at, last
  <2>5. at >= 0 /\ (\A j \in Earlier(s, n + 1, "Progress") : at >= s[j].message.at) => at >= last
    BY ONLY <2>4, AfterLatest
  <2> QED BY <2>2, <2>3, <2>5 DEF at, last, s, n
<1>17. m.type = "EmissionComplete" => m.at >= d.mark /\ m.id = d.edge
  <2>1. m.type = "EmissionComplete" => m.at \in Times
    BY <1>4, MessageShapes
  <2>2. m.type = "EmissionComplete" => m.at >= -1
    BY <1>14a, <2>1
  <2>3. m.type = "EmissionComplete" =>
          /\ \A j \in Earlier(s, n + 1, "EmissionComplete") : m.at >= s[j].message.at
          /\ m.id = Cardinality(Earlier(s, n + 1, "EdgeRequest"))
    BY <1>8 DEF Ordered
  <2> DEFINE at == m.at
             last == d.mark
  <2>4. Latest(s, n, "EmissionComplete", last, -1)
    BY <1>15
  <2> HIDE DEF s, n, at, last
  <2>5. at >= -1 /\ (\A j \in Earlier(s, n + 1, "EmissionComplete") : at >= s[j].message.at) => at >= last
    BY ONLY <2>4, AfterLatest
  <2>6. m.type = "EmissionComplete" => m.at >= d.mark
    BY <2>2, <2>3, <2>5 DEF at, last, s, n
  <2>7. m.type = "EmissionComplete" => m.id = d.edge
    BY <1>15, <2>3
  <2> QED BY <2>6, <2>7
<1>18. m.type = "EdgeRequest" => m.at > d.mark /\ m.id = d.edge + 1
  <2>1. m.type = "EdgeRequest" => m.at \in Times
    BY <1>4, MessageShapes
  <2>2. m.type = "EdgeRequest" => m.at > -1
    BY <1>14a, <2>1
  <2>3. m.type = "EdgeRequest" =>
          /\ \A j \in Earlier(s, n + 1, "EmissionComplete") : m.at > s[j].message.at
          /\ m.id = Cardinality(Earlier(s, n + 1, "EdgeRequest")) + 1
    BY <1>8 DEF Ordered
  <2> DEFINE at == m.at
             last == d.mark
  <2>4. Latest(s, n, "EmissionComplete", last, -1)
    BY <1>15
  <2> HIDE DEF s, n, at, last
  <2>5. at > -1 /\ (\A j \in Earlier(s, n + 1, "EmissionComplete") : at > s[j].message.at) => at > last
    BY ONLY <2>4, AfterLatest
  <2>6. m.type = "EdgeRequest" => m.at > d.mark
    BY <2>2, <2>3, <2>5 DEF at, last, s, n
  <2>7. m.type = "EdgeRequest" => m.id = d.edge + 1
    BY <1>15, <2>3
  <2> QED BY <2>6, <2>7
<1>19. m.type = "Fence" => m.id = d.fence + 1 /\ m.through = d.edge
  BY <1>8, <1>15 DEF Ordered
<1>20. ASSUME NEW b \in Books, Asks(b, m)
       PROVE  Cardinality(Book(b, d)) < Capacity
  <2>1. Cardinality(Asked(b, log[e], (n + 1) - 1) \ Settled(b, log[f], Len(log[f]))) < Capacity
    BY <1>1, <1>3, <1>20 DEF Roomy
  <2>2. Book(b, d) = Asked(b, s, n) \ Settled(b, t, Len(t))
    BY <1>6 DEF Balanced
  <2>3. (n + 1) - 1 = n
    BY <1>2
  <2> QED BY <2>1, <2>2, <2>3
<1>21. ASSUME NEW b \in Books, Answers(b, m)
       PROVE  Key(b, m) \in Book(b, o)
  <2>1. Book(b, o) = Asked(b, t, Len(t)) \ Settled(b, s, n)
    BY <1>6 DEF Balanced
  <2>2. /\ Settled(b, s, Len(s)) \subseteq Asked(b, t, k)
        /\ \A i, j \in 1..Len(s) : i < j /\ Answers(b, s[i].message) /\ Answers(b, s[j].message) =>
             Key(b, s[i].message) # Key(b, s[j].message)
    BY <1>7 DEF Answering
  <2>3. Key(b, m) \in Settled(b, s, Len(s))
    BY <1>3, <1>21 DEF Settled
  <2>4. Asked(b, t, k) \subseteq Asked(b, t, Len(t))
    BY <1>2, BooksGrow
  <2>5. ASSUME Key(b, m) \in Settled(b, s, n)
        PROVE  FALSE
    <3>1. PICK i \in 1..n : Answers(b, s[i].message) /\ Key(b, s[i].message) = Key(b, m)
      BY <2>5 DEF Settled
    <3>2. i \in 1..Len(s) /\ i < n + 1
      BY <1>2, <1>3
    <3> QED BY <1>3, <1>21, <2>2, <3>1, <3>2
  <2> QED BY <2>1, <2>2, <2>3, <2>4, <2>5
<1>22. m.type = "EdgeRequest" => Cardinality(d.pending) < Capacity
  BY <1>20 DEF Books, Asks, Book
<1>23. m.type = "Fence" => Cardinality(d.fences) < Capacity
  BY <1>20 DEF Books, Asks, Book
<1>24. m.type = "EdgeResponse" => m.id \in o.pending
  BY <1>21 DEF Books, Answers, Book, Key
<1>25. m.type = "FenceAck" => <<m.id, m.through>> \in o.fences
  BY <1>21 DEF Books, Answers, Book, Key
<1>26. m.type \in {"Hello", "Progress", "EdgeRequest", "EmissionComplete", "EdgeResponse",
                   "Fence", "FenceAck"}
  BY <1>4, <1>9, MessageShapes
<1> HIDE DEF e, s, t, n, k, m, d, o
<1>27. Legal(f, m, d, o)
  BY <1>12, <1>13, <1>16, <1>17, <1>18, <1>19, <1>22, <1>23, <1>24, <1>25, <1>26 DEF Legal
<1> QED BY <1>9, <1>10, <1>27 DEF Acceptable, e, s, n, m, d, o

-----------------------------------------------------------------------------
(* Logs that grow *)

\* An end that does not move keeps its room while the other's log grows.
LEMMA RoomyKept ==
  ASSUME Shape, Positions, NEW e \in Ends, Roomy(e), log'[e] = log[e],
         Agree(log[Other(e)], log'[Other(e)], Len(log[Other(e)])),
         Len(log'[Other(e)]) \in Nat, Len(log[Other(e)]) <= Len(log'[Other(e)])
  PROVE  Roomy(e)'
<1> DEFINE f == Other(e)  q == Len(log[f])  q2 == Len(log'[f])
<1>1. f \in Ends /\ q \in Nat
  BY Peers, EndShapes
<1> SUFFICES ASSUME NEW b \in Books, NEW i \in 1..Len(log[e]), Asks(b, log[e][i].message)
             PROVE  Cardinality(Asked(b, log[e], i - 1) \ Settled(b, log'[f], q2)) < Capacity
  BY DEF Roomy
<1>2. Cardinality(Asked(b, log[e], i - 1) \ Settled(b, log[f], q)) < Capacity
  BY DEF Roomy
<1>3. Settled(b, log[f], q) = Settled(b, log'[f], q)
  BY <1>1, BooksAgree
<1>4. Settled(b, log'[f], q) \subseteq Settled(b, log'[f], q2)
  BY <1>1, BooksGrow
<1> HIDE DEF f, q, q2
<1>5. (Asked(b, log[e], i - 1) \ Settled(b, log'[f], q2))
        \subseteq (Asked(b, log[e], i - 1) \ Settled(b, log[f], q))
  BY <1>3, <1>4
<1>6. IsFiniteSet(Asked(b, log[e], i - 1))
  <2>1. Len(log[e]) \in Nat
    BY EndShapes
  <2>2. i - 1 \in Nat
    BY <2>1
  <2>3. IsFiniteSet(1..(i - 1))
    BY <2>2, FS_Interval
  <2>4. IsFiniteSet({j \in 1..(i - 1) : Asks(b, log[e][j].message)})
    BY <2>3, FS_Subset
  <2> DEFINE S == {j \in 1..(i - 1) : Asks(b, log[e][j].message)}
             g == [j \in S |-> Key(b, log[e][j].message)]
  <2>5. g \in Surjection(S, Asked(b, log[e], i - 1))
    BY DEF Surjection, Asked
  <2> HIDE DEF g, S
  <2> QED BY <2>4, <2>5, FS_Surjection DEF S
<1>7. IsFiniteSet(Asked(b, log[e], i - 1) \ Settled(b, log[f], q))
  BY <1>6, FS_Subset
<1>8. IsFiniteSet(Asked(b, log[e], i - 1) \ Settled(b, log'[f], q2))
  BY <1>6, FS_Subset
<1>9. /\ Cardinality(Asked(b, log[e], i - 1) \ Settled(b, log'[f], q2)) \in Nat
      /\ Cardinality(Asked(b, log[e], i - 1) \ Settled(b, log[f], q)) \in Nat
      /\ Cardinality(Asked(b, log[e], i - 1) \ Settled(b, log'[f], q2))
           <= Cardinality(Asked(b, log[e], i - 1) \ Settled(b, log[f], q))
  BY <1>5, <1>7, <1>8, FS_Subset, FS_CardinalityType
<1> QED BY <1>2, <1>9, Bounds

\* An end that does not move keeps its queue while the other's log grows.
LEMMA QueuedKept ==
  ASSUME Shape, Positions, NEW e \in Ends, Queued(e),
         queue'[e] = queue[e], polled'[e] = polled[e], inc'[e].sequence = inc[e].sequence,
         Agree(log[Other(e)], log'[Other(e)], Len(log[Other(e)])), Open(e)' => Open(e)
  PROVE  Queued(e)'
<1> DEFINE f == Other(e)
<1>1. /\ inc[e].sequence \in Nat /\ inc[e].sequence <= Len(log[f]) /\ Len(log[f]) \in Nat
      /\ queue[e] \in Seq(Messages) /\ Len(queue[e]) \in Nat
  BY Peers, EndShapes
<1>2. polled[e].count \in Nat
  BY DEF Shape
<1>3. Open(e) => /\ polled[e].count + Len(queue[e])
                      = IF inc[e].sequence = 0 THEN 0 ELSE inc[e].sequence - 1
                 /\ \A i \in DOMAIN queue[e] :
                      queue[e][i] = log[f][polled[e].count + i + 1].message
  BY DEF Queued
<1>4. Open(e) => \A i \in DOMAIN queue[e] : polled[e].count + i + 1 \in 1..Len(log[f])
  <2> SUFFICES ASSUME Open(e), NEW i \in DOMAIN queue[e]
               PROVE  polled[e].count + i + 1 \in 1..Len(log[f])
    OBVIOUS
  <2>1. i \in 1..Len(queue[e])
    BY <1>1
  <2> HIDE DEF f
  <2>2. inc[e].sequence # 0
    <3>1. polled[e].count + Len(queue[e]) > 0
      BY <1>1, <1>2, <2>1
    <3> QED BY <1>3, <3>1
  <2>3. polled[e].count + Len(queue[e]) = inc[e].sequence - 1
    BY <1>3, <2>2
  <2>4. ASSUME NEW a \in Nat, NEW l \in Nat, NEW n \in Nat, NEW L \in Nat,
               a + l = n - 1, n <= L, i \in 1..l
        PROVE  a + i + 1 \in 1..L
    BY <2>4
  <2> QED BY <1>1, <1>2, <2>1, <2>3, <2>4
<1>5. Open(e) => \A i \in DOMAIN queue[e] :
                   queue[e][i] = log'[f][polled[e].count + i + 1].message
  BY <1>3, <1>4 DEF Agree
<1> QED BY <1>3, <1>5 DEF Queued

\* What admission puts in the log.
LEMMA EnlogShape ==
  ASSUME Shape, Positions, NEW e \in Ends, e \notin Rogue, NEW ms \in Seq(Received), Enlog(e, ms)
  PROVE  LET n == Len(log[e])
         IN /\ log' \in [Ends -> Seq(Frames)] /\ \A f \in Ends : f # e => log'[f] = log[f]
            /\ n \in Nat /\ Len(ms) \in Nat /\ Len(log'[e]) = n + Len(ms)
            /\ Agree(log[e], log'[e], n)
            /\ \A i \in 1..Len(ms) : log'[e][n + i].seq = n + i /\ log'[e][n + i].message = ms[i]
<1> DEFINE n == Len(log[e])
           tail == [i \in DOMAIN ms |-> Frame(out[e].sequence + i, ms[i])]
<1>1. log[e] \in Seq(Frames) /\ n \in Nat /\ log \in [Ends -> Seq(Frames)]
  BY EndShapes DEF Shape
<1>2. out[e].sequence = n
  BY DEF Positions
<1>3. Len(ms) \in Nat /\ DOMAIN ms = 1..Len(ms) /\ \A i \in 1..Len(ms) : ms[i] \in Received
  OBVIOUS
<1>4. \A i \in 1..Len(ms) : Frame(n + i, ms[i]) \in Frames
  BY <1>1, <1>3 DEF Frame, Frames
<1>5. tail \in Seq(Frames) /\ Len(tail) = Len(ms)
  <2>1. tail \in [1..Len(ms) -> Frames]
    BY <1>2, <1>3, <1>4
  <2> QED BY <1>3, <2>1
<1>6. \A i \in 1..Len(ms) : tail[i] = Frame(n + i, ms[i])
  BY <1>2, <1>3
<1>7. log' = [log EXCEPT ![e] = @ \o tail]
  BY DEF Enlog
<1> HIDE DEF n, tail
<1>8. log'[e] = log[e] \o tail /\ \A f \in Ends : f # e => log'[f] = log[f]
  BY <1>1, <1>7
<1>9. log[e] \o tail \in Seq(Frames) /\ Len(log[e] \o tail) = n + Len(ms)
      /\ (\A i \in 1..n : (log[e] \o tail)[i] = log[e][i])
      /\ (\A i \in 1..Len(ms) : (log[e] \o tail)[n + i] = tail[i])
  <2>1. log[e] \o tail \in Seq(Frames) /\ Len(log[e] \o tail) = n + Len(ms)
    <3>1. log[e] \in Seq(Frames) /\ tail \in Seq(Frames)
      BY <1>1, <1>5
    <3>2. log[e] \o tail \in Seq(Frames) /\ Len(log[e] \o tail) = Len(log[e]) + Len(tail)
      BY <3>1, ConcatProperties
    <3> QED BY <1>5, <3>2 DEF n
  <2>2. \A i \in 1..n : (log[e] \o tail)[i] = log[e][i]
    BY <1>1, <1>3, <1>5 DEF n
  <2>3. ASSUME NEW i \in 1..Len(ms)
        PROVE  (log[e] \o tail)[n + i] = tail[i]
    <3>1. n + i \in 1..(Len(log[e]) + Len(tail)) /\ ~(n + i <= Len(log[e]))
          /\ (n + i) - Len(log[e]) = i
      BY <1>1, <1>3, <1>5, <2>3 DEF n
    <3> QED BY <1>1, <1>5, <3>1
  <2> QED BY <2>1, <2>2, <2>3
<1>10. log' \in [Ends -> Seq(Frames)]
  BY <1>1, <1>7, <1>9
<1>11. \A i \in 1..Len(ms) : log'[e][n + i].seq = n + i /\ log'[e][n + i].message = ms[i]
  <2> SUFFICES ASSUME NEW i \in 1..Len(ms)
               PROVE  log'[e][n + i].seq = n + i /\ log'[e][n + i].message = ms[i]
    OBVIOUS
  <2>1. log'[e][n + i] = Frame(n + i, ms[i])
    BY <1>6, <1>8, <1>9
  <2> QED BY <2>1 DEF Frame
<1>12. Agree(log[e], log'[e], n)
  BY <1>8, <1>9 DEF Agree
<1> QED BY <1>1, <1>3, <1>8, <1>9, <1>10, <1>11, <1>12 DEF n

-----------------------------------------------------------------------------
(* Ending the channel *)

Whys == {"protocol", "overflow", "closed", "deadline", "cancelled"}
Senders == {"idle", "hello", "data"}

\* The end of a channel drops what is outstanding and queued at that end and
\* keeps everything else.
LEMMA TerminateFields ==
  ASSUME Shape, NEW e \in Ends, NEW why \in Whys, Terminate(e, why)
  PROVE  /\ error' \in [Ends -> {"none"} \cup Whys] /\ error'[e] # "none"
         /\ error'[e] = (IF error[e] = "none" THEN why ELSE error[e])
         /\ queue' \in [Ends -> Seq(Messages)] /\ queue'[e] = <<>>
         /\ out' \in [Ends -> Directions] /\ inc' \in [Ends -> Directions]
         /\ out'[e] = Cleared(out[e]) /\ inc'[e] = Cleared(inc[e])
         /\ \A f \in Ends : f # e =>
              /\ error'[f] = error[f] /\ queue'[f] = queue[f]
              /\ out'[f] = out[f] /\ inc'[f] = inc[f]
<1>1. Cleared(out[e]) \in Directions /\ Cleared(inc[e]) \in Directions
  BY ClearedFields DEF Shape
<1>2. /\ out' = [out EXCEPT ![e] = Cleared(out[e])] /\ out \in [Ends -> Directions]
      /\ inc' = [inc EXCEPT ![e] = Cleared(inc[e])] /\ inc \in [Ends -> Directions]
  BY DEF Terminate, Shape
<1>3. /\ queue' = [queue EXCEPT ![e] = <<>>] /\ queue \in [Ends -> Seq(Messages)]
      /\ <<>> \in Seq(Messages)
  BY DEF Terminate, Shape
<1>4. /\ error' = [error EXCEPT ![e] = IF error[e] = "none" THEN why ELSE error[e]]
      /\ error \in [Ends -> {"none"} \cup Whys]
  BY DEF Terminate, Shape, Whys
<1>5. /\ error' \in [Ends -> {"none"} \cup Whys] /\ error'[e] # "none"
      /\ error'[e] = (IF error[e] = "none" THEN why ELSE error[e])
      /\ \A f \in Ends : f # e => error'[f] = error[f]
  BY <1>4 DEF Whys
<1>6. /\ queue' \in [Ends -> Seq(Messages)] /\ queue'[e] = <<>>
      /\ \A f \in Ends : f # e => queue'[f] = queue[f]
  BY <1>3
<1>7. /\ out' \in [Ends -> Directions] /\ out'[e] = Cleared(out[e])
      /\ \A f \in Ends : f # e => out'[f] = out[f]
  BY <1>1, <1>2
<1>8. /\ inc' \in [Ends -> Directions] /\ inc'[e] = Cleared(inc[e])
      /\ \A f \in Ends : f # e => inc'[f] = inc[f]
  BY <1>1, <1>2
<1> QED BY <1>5, <1>6, <1>7, <1>8

\* Ending the channel keeps the invariant, and a protocol violation is only ever
\* found in what a rogue has written.
LEMMA TerminateKeeps ==
  ASSUME IInv, NEW e \in Ends, NEW why \in Whys, Terminate(e, why),
         why = "protocol" => Other(e) \in Rogue,
         UNCHANGED <<helloSent, log, written, polled>>,
         reading' \in [Ends -> BOOLEAN], \A x \in Ends : reading'[x] => reading[x],
         sender' \in [Ends -> Senders]
  PROVE  IInv'
<1>1. /\ error' \in [Ends -> {"none"} \cup Whys] /\ error'[e] # "none"
      /\ error'[e] = (IF error[e] = "none" THEN why ELSE error[e])
      /\ queue' \in [Ends -> Seq(Messages)] /\ queue'[e] = <<>>
      /\ out' \in [Ends -> Directions] /\ inc' \in [Ends -> Directions]
      /\ out'[e] = Cleared(out[e]) /\ inc'[e] = Cleared(inc[e])
      /\ \A f \in Ends : f # e =>
           /\ error'[f] = error[f] /\ queue'[f] = queue[f]
           /\ out'[f] = out[f] /\ inc'[f] = inc[f]
  BY TerminateFields DEF IInv
<1>2. /\ log' = log /\ written' = written /\ polled' = polled /\ helloSent' = helloSent
  OBVIOUS
<1>3. out[e] \in Directions /\ inc[e] \in Directions
  BY DEF IInv, Shape
<1>4. /\ out'[e].sequence = out[e].sequence /\ out'[e].pending = {} /\ out'[e].fences = {}
      /\ inc'[e].sequence = inc[e].sequence /\ inc'[e].pending = {} /\ inc'[e].fences = {}
  BY <1>1, <1>3, ClearedFields
<1>5. \A f \in Ends : out'[f].sequence = out[f].sequence /\ inc'[f].sequence = inc[f].sequence
  BY <1>1, <1>4
<1>6. Shape'
  BY <1>1, <1>2 DEF IInv, Shape, Whys, Senders
<1>7. Positions'
  <2> SUFFICES ASSUME NEW f \in Ends
               PROVE  /\ Len(log[f]) <= MaxFrames /\ written[f] <= Len(log[f])
                      /\ inc'[f].sequence <= written[Other(f)]
                      /\ reading'[f] => inc'[f].sequence < written[Other(f)]
                      /\ out'[f].sequence <= Len(log[f])
                      /\ f \notin Rogue => out'[f].sequence = Len(log[f])
                      /\ f \notin Rogue /\ Len(log[f]) > 1 => inc'[f].sequence > 0
                      /\ Len(queue'[f]) <= Capacity
    BY <1>2 DEF Positions
  <2>1. /\ Len(log[f]) <= MaxFrames /\ written[f] <= Len(log[f])
        /\ inc[f].sequence <= written[Other(f)]
        /\ reading[f] => inc[f].sequence < written[Other(f)]
        /\ out[f].sequence <= Len(log[f])
        /\ f \notin Rogue => out[f].sequence = Len(log[f])
        /\ f \notin Rogue /\ Len(log[f]) > 1 => inc[f].sequence > 0
        /\ Len(queue[f]) <= Capacity
    BY DEF IInv, Positions
  <2>2. Len(queue'[f]) <= Capacity
    <3>1. Len(<<>>) = 0
      OBVIOUS
    <3>2. 0 <= Capacity
      BY Bounds
    <3>3. CASE f = e
      BY <1>1, <3>1, <3>2, <3>3
    <3>4. CASE f # e
      BY <1>1, <2>1, <3>4
    <3> QED BY <3>3, <3>4
  <2>3. reading'[f] => reading[f]
    OBVIOUS
  <2> QED BY <1>5, <2>1, <2>2, <2>3
<1>8. Limits'
  <2> SUFFICES ASSUME NEW f \in Ends, NEW d \in {out'[f], inc'[f]}
               PROVE  Cardinality(d.pending) <= Capacity /\ Cardinality(d.fences) <= Capacity
    BY DEF Limits
  <2>1. CASE f = e
    <3>1. d.pending = {} /\ d.fences = {}
      BY <1>4, <2>1
    <3>2. Cardinality({}) = 0 /\ 0 <= Capacity
      BY Bounds, FS_EmptySet
    <3> QED BY <3>1, <3>2
  <2>2. CASE f # e
    BY <1>1, <2>2 DEF IInv, Limits
  <2> QED BY <2>1, <2>2
<1>9. ASSUME NEW f \in Ends \ Rogue
      PROVE  (Views(f) /\ Roomy(f) /\ Queued(f))'
  <2>1. Views(f) /\ Roomy(f) /\ Queued(f)
    BY DEF IInv
  <2>2. Roomy(f)'
    BY <1>2, <2>1 DEF Roomy
  <2>3. CASE f = e
    <3>1. ~Open(e)'
      BY <1>1 DEF Open
    <3>2. /\ Half(log[e], Len(log[e]), out[e], log[Other(e)], inc[e].sequence)
          /\ Half(log[Other(e)], inc[e].sequence, inc[e], log[e], Len(log[e]))
      BY <2>1, <2>3 DEF Views
    <3>3. Half(log[e], Len(log[e]), out'[e], log[Other(e)], inc[e].sequence)
      BY <1>1, <1>3, <3>2, ClearedFields, TallyOfFields DEF Half
    <3>4. Half(log[Other(e)], inc[e].sequence, inc'[e], log[e], Len(log[e]))
      BY <1>1, <1>3, <3>2, ClearedFields, TallyOfFields DEF Half
    <3>5. Views(e)'
      BY <1>2, <1>4, <3>1, <3>3, <3>4 DEF Views
    <3>6. Queued(e)'
      BY <3>1 DEF Queued
    <3> QED BY <2>2, <2>3, <3>5, <3>6
  <2>4. CASE f # e
    <3>1. out'[f] = out[f] /\ inc'[f] = inc[f] /\ error'[f] = error[f] /\ queue'[f] = queue[f]
      BY <1>1, <2>4
    <3>2. Open(f)' <=> Open(f)
      BY <3>1 DEF Open
    <3>3. Views(f)'
      BY <1>2, <2>1, <3>1, <3>2 DEF Views
    <3>4. Queued(f)'
      BY <1>2, <2>1, <3>1, <3>2 DEF Queued
    <3> QED BY <2>2, <3>3, <3>4
  <2> QED BY <2>3, <2>4
<1>10. \A f \in Ends : Other(f) \notin Rogue => error'[f] # "protocol"
  BY <1>1 DEF IInv
<1> QED BY <1>6, <1>7, <1>8, <1>9, <1>10 DEF IInv

-----------------------------------------------------------------------------
(* Admission *)

\* A message that is legal keeps what is outstanding within the capacity.
LEMMA MovedLimits ==
  ASSUME NEW m \in Received, NEW d \in Directions, NEW o \in Directions, NEW e, Legal(e, m, d, o),
         Cardinality(d.pending) <= Capacity, Cardinality(d.fences) <= Capacity,
         Cardinality(o.pending) <= Capacity, Cardinality(o.fences) <= Capacity
  PROVE  LET x == Moved(d, m)  y == Answered(o, m)
         IN /\ Cardinality(x.pending) <= Capacity /\ Cardinality(x.fences) <= Capacity
            /\ Cardinality(y.pending) <= Capacity /\ Cardinality(y.fences) <= Capacity
<1> DEFINE x == Moved(d, m)  y == Answered(o, m)
<1>1. /\ x.pending = IF m.type = "EdgeRequest" THEN d.pending \cup {m.id} ELSE d.pending
      /\ x.fences = IF m.type = "Fence" THEN d.fences \cup {<<m.id, m.through>>} ELSE d.fences
  BY MovedFields
<1>2. /\ y.pending = IF m.type = "EdgeResponse" THEN o.pending \ {m.id} ELSE o.pending
      /\ y.fences = IF m.type = "FenceAck" THEN o.fences \ {<<m.id, m.through>>} ELSE o.fences
  BY AnsweredFields
<1> HIDE DEF x, y
<1>3. IsFiniteSet(Ids) /\ IsFiniteSet(Fences)
  <2>1. IsFiniteSet(Ids)
    BY Bounds, FS_Interval DEF Ids
  <2>2. IsFiniteSet(0..MaxId)
    BY Bounds, FS_Interval
  <2> QED BY <2>1, <2>2, FS_Product DEF Fences
<1>4. /\ IsFiniteSet(d.pending) /\ IsFiniteSet(d.fences)
      /\ IsFiniteSet(o.pending) /\ IsFiniteSet(o.fences)
  <2>1. d.pending \subseteq Ids /\ d.fences \subseteq Fences
        /\ o.pending \subseteq Ids /\ o.fences \subseteq Fences
    BY DEF Directions
  <2> QED BY <1>3, <2>1, FS_Subset
<1>5. ASSUME NEW S, IsFiniteSet(S), NEW z, Cardinality(S) < Capacity
      PROVE  Cardinality(S \cup {z}) <= Capacity
  <2>1. Cardinality(S) \in Nat
    BY <1>5, FS_CardinalityType
  <2>2. CASE z \in S
    <3>1. S \cup {z} = S
      BY <2>2
    <3> QED BY <1>5, <2>1, <3>1, Bounds
  <2>3. CASE z \notin S
    <3>1. Cardinality(S \cup {z}) = Cardinality(S) + 1
      BY <1>5, <2>3, FS_AddElement
    <3> QED BY <1>5, <2>1, <3>1, Bounds
  <2> QED BY <2>2, <2>3
<1>6. ASSUME NEW S, IsFiniteSet(S), NEW z, Cardinality(S) <= Capacity
      PROVE  Cardinality(S \ {z}) <= Capacity
  <2>1. Cardinality(S) \in Nat /\ Cardinality(S \ {z}) \in Nat
        /\ Cardinality(S \ {z}) <= Cardinality(S)
    BY <1>6, FS_Subset, FS_CardinalityType
  <2> QED BY <1>6, <2>1, Bounds
<1>7. /\ m.type = "EdgeRequest" => Cardinality(d.pending) < Capacity
      /\ m.type = "Fence" => Cardinality(d.fences) < Capacity
  BY DEF Legal
<1>8. Cardinality(x.pending) <= Capacity
  BY <1>1, <1>4, <1>5, <1>7
<1>9. Cardinality(x.fences) <= Capacity
  BY <1>1, <1>4, <1>5, <1>7
<1>10. Cardinality(y.pending) <= Capacity
  BY <1>2, <1>4, <1>6
<1>11. Cardinality(y.fences) <= Capacity
  BY <1>2, <1>4, <1>6
<1> QED BY <1>8, <1>9, <1>10, <1>11 DEF x, y

\* Whoever moves in its own directions and log only, and rightly, keeps the invariant.
LEMMA AdmissionKeeps ==
  ASSUME IInv, NEW e \in Ends, e \notin Rogue, Open(e),
         NEW ms \in Seq(Received), Room(e, Len(ms)), Enlog(e, ms),
         NEW d \in Directions, NEW o \in Directions,
         out' = [out EXCEPT ![e] = d], inc' = [inc EXCEPT ![e] = o],
         o.sequence = inc[e].sequence,
         Len(log[e]) + Len(ms) > 1 => inc[e].sequence > 0,
         Half(log'[e], Len(log[e]) + Len(ms), d, log[Other(e)], inc[e].sequence),
         Balanced(log'[e], Len(log[e]) + Len(ms), d, log[Other(e)], inc[e].sequence),
         Half(log[Other(e)], inc[e].sequence, o, log'[e], Len(log[e]) + Len(ms)),
         Balanced(log[Other(e)], inc[e].sequence, o, log'[e], Len(log[e]) + Len(ms)),
         Cardinality(d.pending) <= Capacity, Cardinality(d.fences) <= Capacity,
         Cardinality(o.pending) <= Capacity, Cardinality(o.fences) <= Capacity,
         Roomy(e)', sender' \in [Ends -> Senders],
         UNCHANGED <<helloSent, queue, error, reading, written, polled>>
  PROVE  IInv'
<1> DEFINE n == Len(log[e])
<1>0. Shape /\ Positions /\ Limits
  BY DEF IInv
<1>1. /\ log' \in [Ends -> Seq(Frames)] /\ \A f \in Ends : f # e => log'[f] = log[f]
      /\ n \in Nat /\ Len(ms) \in Nat /\ Len(log'[e]) = n + Len(ms)
      /\ Agree(log[e], log'[e], n)
  BY <1>0, EnlogShape
<1> HIDE DEF n
<1>2. out \in [Ends -> Directions] /\ inc \in [Ends -> Directions]
  BY <1>0 DEF Shape
<1>3. /\ out' \in [Ends -> Directions] /\ inc' \in [Ends -> Directions]
      /\ out'[e] = d /\ inc'[e] = o
      /\ \A f \in Ends : f # e => out'[f] = out[f] /\ inc'[f] = inc[f]
  BY <1>2
<1>4. Shape'
  BY <1>0, <1>1, <1>3 DEF Shape, Senders
<1>5. Other(e) \in Ends /\ Other(e) # e /\ Other(Other(e)) = e
  BY Peers
<1>6. d.sequence = n + Len(ms)
  BY DEF Half, Tally, n
<1>7. n + Len(ms) <= MaxFrames
  BY DEF Room, n
<1>8. Positions'
  <2> SUFFICES ASSUME NEW f \in Ends
               PROVE  /\ Len(log'[f]) <= MaxFrames /\ written[f] <= Len(log'[f])
                      /\ inc'[f].sequence <= written[Other(f)]
                      /\ reading[f] => inc'[f].sequence < written[Other(f)]
                      /\ out'[f].sequence <= Len(log'[f])
                      /\ f \notin Rogue => out'[f].sequence = Len(log'[f])
                      /\ f \notin Rogue /\ Len(log'[f]) > 1 => inc'[f].sequence > 0
                      /\ Len(queue[f]) <= Capacity
    BY DEF Positions
  <2>1. /\ Len(log[f]) <= MaxFrames /\ written[f] <= Len(log[f])
        /\ inc[f].sequence <= written[Other(f)]
        /\ reading[f] => inc[f].sequence < written[Other(f)]
        /\ out[f].sequence <= Len(log[f])
        /\ f \notin Rogue => out[f].sequence = Len(log[f])
        /\ f \notin Rogue /\ Len(log[f]) > 1 => inc[f].sequence > 0
        /\ Len(queue[f]) <= Capacity
    BY <1>0 DEF Positions
  <2>2. CASE f = e
    <3>1. written[e] \in Nat /\ written[e] <= n
      BY <1>0, <2>1, <2>2, EndShapes DEF n
    <3>2. written[e] <= Len(log'[e])
      BY <1>1, <3>1
    <3>3. inc'[e].sequence = inc[e].sequence /\ out'[e].sequence = Len(log'[e])
      BY <1>1, <1>3, <1>6
    <3>4. Len(log'[e]) > 1 => inc[e].sequence > 0
      BY <1>1 DEF n
    <3>5. Len(log'[e]) <= MaxFrames /\ Len(log'[e]) \in Nat
      BY <1>1, <1>7
    <3>6. out'[e].sequence <= Len(log'[e])
      BY <3>3, <3>5
    <3> QED BY <2>1, <2>2, <3>2, <3>3, <3>4, <3>5, <3>6
  <2>3. CASE f # e
    BY <1>1, <1>3, <2>1, <2>3
  <2> QED BY <2>2, <2>3
<1>9. Limits'
  <2> SUFFICES ASSUME NEW f \in Ends, NEW x \in {out'[f], inc'[f]}
               PROVE  Cardinality(x.pending) <= Capacity /\ Cardinality(x.fences) <= Capacity
    BY DEF Limits
  <2>1. CASE f = e
    <3>1. x = d \/ x = o
      BY <1>3, <2>1
    <3> QED BY <3>1
  <2>2. CASE f # e
    BY <1>0, <1>3, <2>2 DEF Limits
  <2> QED BY <2>1, <2>2
<1>10. (Views(e) /\ Roomy(e) /\ Queued(e))'
  <2>1. Views(e)'
    <3>1. Len(log'[e]) = n + Len(ms) /\ out'[e] = d /\ inc'[e] = o
          /\ log'[Other(e)] = log[Other(e)] /\ inc'[e].sequence = inc[e].sequence
      BY <1>1, <1>3, <1>5
    <3> QED BY <3>1 DEF Views, n
  <2>2. Queued(e)'
    <3>1. Queued(e) /\ queue'[e] = queue[e] /\ polled'[e] = polled[e]
          /\ inc'[e].sequence = inc[e].sequence /\ log'[Other(e)] = log[Other(e)]
      BY <1>1, <1>3, <1>5 DEF IInv
    <3> QED BY <3>1 DEF Queued
  <2> QED BY <2>1, <2>2
<1>11. ASSUME NEW f \in Ends \ Rogue, f # e
       PROVE  (Views(f) /\ Roomy(f) /\ Queued(f))'
  <2>0. f = Other(e) /\ Other(f) = e /\ f \in Ends
    BY <1>5, <1>11, Peers
  <2>1. Views(f) /\ Roomy(f) /\ Queued(f)
    BY DEF IInv
  <2>2. log'[f] = log[f] /\ out'[f] = out[f] /\ inc'[f] = inc[f] /\ (Open(f)' => Open(f))
        /\ queue'[f] = queue[f] /\ polled'[f] = polled[f]
    BY <1>1, <1>3, <1>11 DEF Open
  <2>3. Agree(log[Other(f)], log'[Other(f)], Len(log[Other(f)]))
    BY <1>1, <2>0 DEF n
  <2>4. Len(log'[Other(f)]) \in Nat /\ Len(log[Other(f)]) <= Len(log'[Other(f)])
    BY <1>1, <2>0 DEF n
  <2>5. Views(f)'
    BY <1>0, <2>0, <2>1, <2>2, <2>3, ViewsKept
  <2>6. Roomy(f)'
    BY <1>0, <2>0, <2>1, <2>2, <2>3, <2>4, RoomyKept
  <2>7. Queued(f)'
    BY <1>0, <2>0, <2>1, <2>2, <2>3, QueuedKept
  <2> QED BY <2>5, <2>6, <2>7
<1>12. \A f \in Ends : Other(f) \notin Rogue => error'[f] # "protocol"
  BY DEF IInv
<1> QED BY <1>4, <1>8, <1>9, <1>10, <1>11, <1>12 DEF IInv

\* An end that admits keeps its room if it had room for each new request.
LEMMA RoomyAdmits ==
  ASSUME Shape, Positions, NEW e \in Ends, Roomy(e), NEW q \in Nat,
         Agree(log[e], log'[e], Len(log[e])), Len(log'[e]) = Len(log[e]) + q,
         log'[Other(e)] = log[Other(e)],
         \A b \in Books, i \in 1..q :
           Asks(b, log'[e][Len(log[e]) + i].message) =>
             Cardinality(Asked(b, log'[e], Len(log[e]) + i - 1)
                           \ Settled(b, log[Other(e)], Len(log[Other(e)]))) < Capacity
  PROVE  Roomy(e)'
<1> DEFINE n == Len(log[e])  f == Other(e)
<1>1. n \in Nat
  BY EndShapes
<1> SUFFICES ASSUME NEW b \in Books, NEW i \in 1..(n + q), Asks(b, log'[e][i].message)
             PROVE  Cardinality(Asked(b, log'[e], i - 1) \ Settled(b, log[f], Len(log[f]))) < Capacity
  BY DEF Roomy
<1>2. CASE i \in 1..n
  <2>1. log'[e][i] = log[e][i]
    BY <1>2 DEF Agree
  <2>2. Cardinality(Asked(b, log[e], i - 1) \ Settled(b, log[f], Len(log[f]))) < Capacity
    BY <1>2, <2>1 DEF Roomy
  <2>3. i - 1 \in Nat /\ Agree(log[e], log'[e], i - 1)
    BY <1>1, <1>2 DEF Agree
  <2>4. Asked(b, log[e], i - 1) = Asked(b, log'[e], i - 1)
    BY <2>3, BooksAgree
  <2> QED BY <2>2, <2>4
<1>3. CASE i \notin 1..n
  <2>1. PICK j \in 1..q : i = n + j
    <3>1. i - n \in 1..q /\ i = n + (i - n)
      BY <1>1, <1>3
    <3> QED BY <3>1
  <2>2. Asks(b, log'[e][n + j].message) =>
          Cardinality(Asked(b, log'[e], n + j - 1) \ Settled(b, log[f], Len(log[f]))) < Capacity
    OBVIOUS
  <2>3. Asks(b, log'[e][n + j].message)
    BY <2>1
  <2>4. n + j - 1 = i - 1
    BY <2>1
  <2> QED BY <2>2, <2>3, <2>4
<1> QED BY <1>2, <1>3

\* What an end that is open knows, of its log after it has grown.
LEMMA KnownOfLonger ==
  ASSUME Shape, Positions, NEW e \in Ends, Open(e), Views(e), NEW s,
         Agree(log[e], s, Len(log[e]))
  PROVE  LET n == Len(log[e])  t == log[Other(e)]  k == inc[e].sequence
         IN /\ Half(s, n, out[e], t, k) /\ Balanced(s, n, out[e], t, k)
            /\ Half(t, k, inc[e], s, n) /\ Balanced(t, k, inc[e], s, n)
<1> DEFINE n == Len(log[e])  t == log[Other(e)]  k == inc[e].sequence
<1>1. n \in Nat /\ k \in Nat
  BY EndShapes
<1>2. Agree(t, t, k)
  BY DEF Agree
<1>3. /\ Half(log[e], n, out[e], t, k) /\ Balanced(log[e], n, out[e], t, k)
      /\ Half(t, k, inc[e], log[e], n) /\ Balanced(t, k, inc[e], log[e], n)
  BY DEF Views
<1> HIDE DEF n, t, k
<1>4. Agree(log[e], s, n)
  BY DEF n
<1>5. Half(s, n, out[e], t, k) /\ Half(t, k, inc[e], s, n)
  BY <1>1, <1>2, <1>3, <1>4, HalfAgrees
<1>6. Balanced(s, n, out[e], t, k) /\ Balanced(t, k, inc[e], s, n)
  BY <1>1, <1>2, <1>3, <1>4, BalancedAgrees
<1> QED BY <1>5, <1>6 DEF n, t, k

\* A message other than Hello is legal only once both Hellos are through.
LEMMA OnlyAfterHellos ==
  ASSUME NEW e, NEW m \in Received, NEW d, NEW o, Legal(e, m, d, o), m.type # "Hello"
  PROVE  d.hello /\ o.hello /\ helloSent[e]
<1>1. m \notin {Broken}
  BY MessageShapes DEF Received, Hello, Broken, Messages, Progress, EdgeRequest, EmissionComplete,
                       EdgeResponse, Fence, FenceAck
<1>2. m.type \in {"Hello", "Progress", "EdgeRequest", "EmissionComplete", "EdgeResponse",
                  "Fence", "FenceAck"}
  BY <1>1, MessageShapes
<1> QED BY <1>2 DEF Legal, Mutual

\* A send that is admitted keeps the invariant.
LEMMA AdmitKeeps ==
  ASSUME IInv, NEW e \in Ends, NEW m \in Received, Admit(e, m)
  PROVE  IInv'
<1> DEFINE n == Len(log[e])  s == log'[e]  f == Other(e)  t == log[f]  k == inc[e].sequence
           ms == <<m>>  d == Moved(out[e], m)  o == Answered(inc[e], m)
<1>0. Shape /\ Positions /\ Limits
  BY DEF IInv
<1>1. /\ e \notin Rogue /\ Open(e) /\ Room(e, 1) /\ Legal(e, m, out[e], inc[e])
      /\ Enlog(e, ms) /\ out' = [out EXCEPT ![e] = d] /\ inc' = [inc EXCEPT ![e] = o]
      /\ sender' = [sender EXCEPT ![e] = IF m = Hello THEN "hello" ELSE "data"]
      /\ UNCHANGED <<helloSent, queue, error, reading, written, polled>>
  BY DEF Admit, Open, Acceptable, Frame
<1>2. ms \in Seq(Received) /\ Len(ms) = 1 /\ ms[1] = m
  OBVIOUS
<1>3. Views(e) /\ Roomy(e)
  BY <1>1 DEF IInv
<1>4. out[e] \in Directions /\ inc[e] \in Directions /\ f \in Ends /\ f # e
      /\ n \in Nat /\ k \in Nat /\ k <= Len(t) /\ Len(t) \in Nat
  BY <1>0, EndShapes, Peers
<1> HIDE DEF ms
<1>5. /\ Len(s) = n + 1 /\ Agree(log[e], s, n) /\ log'[f] = t
      /\ s[n + 1].seq = n + 1 /\ s[n + 1].message = m
  <2>1. /\ \A g \in Ends : g # e => log'[g] = log[g]
        /\ Len(s) = n + Len(ms) /\ Agree(log[e], s, n)
        /\ \A i \in 1..Len(ms) : s[n + i].seq = n + i /\ s[n + i].message = ms[i]
    BY <1>0, <1>1, <1>2, EnlogShape
  <2>2. 1 \in 1..Len(ms)
    BY <1>2
  <2> QED BY <1>2, <1>4, <2>1, <2>2
<1>6. Readable(s, n)
  <2>1. Readable(log[e], n)
    BY <1>0, <1>4, LogReadable
  <2> QED BY <1>5, <2>1 DEF Readable, Agree
<1>7. /\ Half(s, n, out[e], t, k) /\ Balanced(s, n, out[e], t, k)
      /\ Half(t, k, inc[e], s, n) /\ Balanced(t, k, inc[e], s, n)
  BY <1>0, <1>1, <1>3, <1>5, KnownOfLonger
<1> HIDE DEF s, t, k, n, d, o, f
<1>8. /\ Half(s, n + 1, d, t, k) /\ Balanced(s, n + 1, d, t, k)
      /\ Half(t, k, o, s, n + 1) /\ Balanced(t, k, o, s, n + 1)
  BY <1>1, <1>4, <1>5, <1>6, <1>7, MessageStep DEF d, o
<1>9. d \in Directions
  BY <1>4, MovedFields DEF d
<1>10. o \in Directions /\ o.sequence = inc[e].sequence
  BY <1>4, AnsweredFields DEF o
<1>11. /\ Cardinality(d.pending) <= Capacity /\ Cardinality(d.fences) <= Capacity
       /\ Cardinality(o.pending) <= Capacity /\ Cardinality(o.fences) <= Capacity
  <2>1. /\ Cardinality(out[e].pending) <= Capacity /\ Cardinality(out[e].fences) <= Capacity
        /\ Cardinality(inc[e].pending) <= Capacity /\ Cardinality(inc[e].fences) <= Capacity
    BY <1>0 DEF Limits
  <2> QED BY <1>1, <1>4, <2>1, MovedLimits DEF d, o
<1>12. n + 1 > 1 => k > 0
  <2>1. CASE m.type = "Hello"
    <3>1. out[e].sequence = 0
      BY <1>1, <2>1 DEF Legal
    <3>2. out[e].sequence = n
      BY <1>0, <1>1 DEF Positions, n
    <3> QED BY <3>1, <3>2
  <2>2. CASE m.type # "Hello"
    <3>1. inc[e].hello
      BY <1>1, <2>2, OnlyAfterHellos
    <3>2. Tally(t, k, inc[e])
      BY <1>7 DEF Half
    <3> QED BY <3>1, <3>2 DEF Tally
  <2> QED BY <2>1, <2>2
<1>13. Roomy(e)'
  <2>1. ASSUME NEW b \in Books, NEW i \in 1..1, Asks(b, s[n + i].message)
        PROVE  Cardinality(Asked(b, s, n + i - 1) \ Settled(b, t, Len(t))) < Capacity
    <3>1. i = 1 /\ n + i - 1 = n
      BY <1>4
    <3>2. Asks(b, m)
      BY <1>5, <2>1, <3>1
    <3>3. Book(b, out[e]) = Asked(b, s, n) \ Settled(b, t, k)
      BY <1>7 DEF Balanced
    <3>4. Settled(b, t, k) \subseteq Settled(b, t, Len(t))
      BY <1>4, BooksGrow
    <3>5. Cardinality(Book(b, out[e])) < Capacity
      BY <1>1, <3>2 DEF Legal, Asks, Book, Books
    <3>6. IsFiniteSet(Book(b, out[e]))
      <4>1. IsFiniteSet(Ids) /\ IsFiniteSet(0..MaxId)
        BY Bounds, FS_Interval DEF Ids
      <4>2. IsFiniteSet(Fences)
        BY <4>1, FS_Product DEF Fences
      <4>3. out[e].pending \subseteq Ids /\ out[e].fences \subseteq Fences
        BY <1>4 DEF Directions
      <4> QED BY <4>1, <4>2, <4>3, FS_Subset DEF Book
    <3>7. (Asked(b, s, n) \ Settled(b, t, Len(t))) \subseteq Book(b, out[e])
      BY <3>3, <3>4
    <3>8. /\ Cardinality(Asked(b, s, n) \ Settled(b, t, Len(t))) \in Nat
          /\ Cardinality(Book(b, out[e])) \in Nat
          /\ Cardinality(Asked(b, s, n) \ Settled(b, t, Len(t))) <= Cardinality(Book(b, out[e]))
      BY <3>6, <3>7, FS_Subset, FS_CardinalityType
    <3>9. \A x, y \in Nat : x <= y /\ y < Capacity => x < Capacity
      BY Bounds
    <3>10. Cardinality(Asked(b, s, n) \ Settled(b, t, Len(t))) < Capacity
      BY <3>5, <3>8, <3>9
    <3> QED BY <3>1, <3>10
  <2> QED BY <1>0, <1>3, <1>5, <2>1, RoomyAdmits DEF s, t, n, f
<1>14. sender' \in [Ends -> Senders]
  BY <1>0, <1>1 DEF Shape, Senders
<1> QED BY <1>1, <1>2, <1>8, <1>9, <1>10, <1>11, <1>12, <1>13, <1>14, AdmissionKeeps
        DEF s, t, k, n, f

\* So does a pair of frames that is admitted as one.
LEMMA AdmitPairKeeps ==
  ASSUME IInv, NEW e \in Ends, NEW at \in Times, AdmitPair(e, at)
  PROVE  IInv'
<1> DEFINE n == Len(log[e])  s == log'[e]  f == Other(e)  t == log[f]  k == inc[e].sequence
           complete == EmissionComplete(at, out[e].edge)  progress == Progress(at)
           ms == <<complete, progress>>
           c == Moved(out[e], complete)  d == Moved(c, progress)
<1>0. Shape /\ Positions /\ Limits
  BY DEF IInv
<1>1. /\ e \notin Rogue /\ Open(e) /\ Room(e, 2)
      /\ Legal(e, complete, out[e], inc[e]) /\ Legal(e, progress, c, inc[e])
      /\ Enlog(e, ms) /\ out' = [out EXCEPT ![e] = d]
      /\ sender' = [sender EXCEPT ![e] = "data"]
      /\ UNCHANGED <<inc, helloSent, queue, error, reading, written, polled>>
  BY DEF AdmitPair, Open, Published
<1>2. out[e] \in Directions /\ inc[e] \in Directions /\ f \in Ends /\ f # e
      /\ n \in Nat /\ k \in Nat /\ k <= Len(t) /\ Len(t) \in Nat
  BY <1>0, EndShapes, Peers
<1>3. complete \in Received /\ progress \in Received
  <2>1. out[e].edge \in Ids \cup {0}
    BY <1>2, Bounds DEF Directions, Ids
  <2> QED BY <2>1 DEF Received, Messages
<1>4. complete.type = "EmissionComplete" /\ progress.type = "Progress"
  BY DEF EmissionComplete, Progress
<1> HIDE DEF complete, progress
<1>5. ms \in Seq(Received) /\ Len(ms) = 2 /\ ms[1] = complete /\ ms[2] = progress
  BY <1>3
<1> HIDE DEF ms
<1>6. Views(e) /\ Roomy(e)
  BY <1>1 DEF IInv
<1>7. inc' = [inc EXCEPT ![e] = inc[e]]
  BY <1>0, <1>1 DEF Shape
<1>8. Answered(inc[e], complete) = inc[e] /\ Answered(inc[e], progress) = inc[e]
  BY <1>4 DEF Answered
<1>9. /\ Len(s) = n + 2 /\ Agree(log[e], s, n) /\ log'[f] = t
      /\ s[n + 1].seq = n + 1 /\ s[n + 1].message = complete
      /\ s[n + 2].seq = n + 2 /\ s[n + 2].message = progress
  <2>1. /\ \A g \in Ends : g # e => log'[g] = log[g]
        /\ Len(s) = n + Len(ms) /\ Agree(log[e], s, n)
        /\ \A i \in 1..Len(ms) : s[n + i].seq = n + i /\ s[n + i].message = ms[i]
    BY <1>0, <1>1, <1>5, EnlogShape
  <2>2. 1 \in 1..Len(ms) /\ 2 \in 1..Len(ms)
    BY <1>5
  <2> QED BY <1>2, <1>5, <2>1, <2>2
<1>10. /\ Half(s, n, out[e], t, k) /\ Balanced(s, n, out[e], t, k)
       /\ Half(t, k, inc[e], s, n) /\ Balanced(t, k, inc[e], s, n)
  BY <1>0, <1>1, <1>6, <1>9, KnownOfLonger
<1>11. Readable(s, n) /\ Readable(s, n + 1)
  <2>1. Readable(log[e], n)
    BY <1>0, <1>2, LogReadable
  <2>2. Readable(s, n)
    BY <1>9, <2>1 DEF Readable, Agree
  <2>3. \A i \in 1..(n + 1) : i \in 1..n \/ i = n + 1
    BY <1>2
  <2> QED BY <1>3, <1>9, <2>2, <2>3 DEF Readable
<1>12. c \in Directions
  BY <1>2, <1>3, MovedFields
<1>13. d \in Directions
  BY <1>3, <1>12, MovedFields
<1> HIDE DEF s, t, k, n, c, d, f
<1>14. /\ Half(s, n + 1, c, t, k) /\ Balanced(s, n + 1, c, t, k)
       /\ Half(t, k, inc[e], s, n + 1) /\ Balanced(t, k, inc[e], s, n + 1)
  <2>1. /\ Half(s, n + 1, Moved(out[e], complete), t, k)
        /\ Balanced(s, n + 1, Moved(out[e], complete), t, k)
        /\ Half(t, k, Answered(inc[e], complete), s, n + 1)
        /\ Balanced(t, k, Answered(inc[e], complete), s, n + 1)
    BY <1>1, <1>2, <1>3, <1>9, <1>10, <1>11, MessageStep
  <2> QED BY <1>8, <2>1 DEF c
<1>15. /\ Half(s, n + 2, d, t, k) /\ Balanced(s, n + 2, d, t, k)
       /\ Half(t, k, inc[e], s, n + 2) /\ Balanced(t, k, inc[e], s, n + 2)
  <2>0. n + 1 \in Nat /\ (n + 1) + 1 = n + 2
    BY <1>2
  <2>1. /\ s[(n + 1) + 1].seq = (n + 1) + 1 /\ s[(n + 1) + 1].message = progress
    BY <1>9, <2>0
  <2>2. /\ Half(s, (n + 1) + 1, Moved(c, progress), t, k)
        /\ Balanced(s, (n + 1) + 1, Moved(c, progress), t, k)
        /\ Half(t, k, Answered(inc[e], progress), s, (n + 1) + 1)
        /\ Balanced(t, k, Answered(inc[e], progress), s, (n + 1) + 1)
    BY <1>1, <1>2, <1>3, <1>11, <1>12, <1>14, <2>0, <2>1, MessageStep
  <2> QED BY <1>8, <2>0, <2>2 DEF d
<1>16. /\ Cardinality(d.pending) <= Capacity /\ Cardinality(d.fences) <= Capacity
       /\ Cardinality(inc[e].pending) <= Capacity /\ Cardinality(inc[e].fences) <= Capacity
  <2>1. /\ Cardinality(out[e].pending) <= Capacity /\ Cardinality(out[e].fences) <= Capacity
        /\ Cardinality(inc[e].pending) <= Capacity /\ Cardinality(inc[e].fences) <= Capacity
    BY <1>0 DEF Limits
  <2>2. c.pending = out[e].pending /\ c.fences = out[e].fences
    BY <1>2, <1>3, <1>4, MovedFields DEF c
  <2>3. d.pending = c.pending /\ d.fences = c.fences
    BY <1>3, <1>4, <1>12, MovedFields DEF d
  <2> QED BY <2>1, <2>2, <2>3
<1>17. n + 2 > 1 => k > 0
  <2>1. inc[e].hello
    BY <1>1, <1>3, <1>4, OnlyAfterHellos
  <2>2. Tally(t, k, inc[e])
    BY <1>10 DEF Half
  <2> QED BY <2>1, <2>2 DEF Tally
<1>18. Roomy(e)'
  <2>1. ASSUME NEW b \in Books, NEW i \in 1..2, Asks(b, s[n + i].message)
        PROVE  FALSE
    <3>1. i = 1 \/ i = 2
      OBVIOUS
    <3>2. s[n + i].message.type \in {"EmissionComplete", "Progress"}
      BY <1>4, <1>9, <3>1
    <3> QED BY <2>1, <3>2 DEF Asks
  <2> QED BY <1>0, <1>6, <1>9, <2>1, RoomyAdmits DEF s, t, n, f
<1>19. sender' \in [Ends -> Senders]
  BY <1>0, <1>1 DEF Shape, Senders
<1> QED BY <1>1, <1>2, <1>5, <1>7, <1>13, <1>15, <1>16, <1>17, <1>18, <1>19, AdmissionKeeps
        DEF s, t, k, n, f

-----------------------------------------------------------------------------
(* The other steps *)

\* Writing, reading and returning move no direction, queue or log.
LEMMA QuietKeeps ==
  ASSUME IInv, UNCHANGED <<out, inc, queue, error, log, polled>>,
         helloSent' \in [Ends -> BOOLEAN], sender' \in [Ends -> Senders],
         reading' \in [Ends -> BOOLEAN], written' \in [Ends -> Nat],
         \A e \in Ends : written[e] <= written'[e] /\ written'[e] <= Len(log[e]),
         \A e \in Ends : reading'[e] => inc[e].sequence < written'[Other(e)]
  PROVE  IInv'
<1>0. /\ out' = out /\ inc' = inc /\ queue' = queue /\ error' = error /\ log' = log
      /\ polled' = polled
  OBVIOUS
<1>1. Shape'
  BY <1>0 DEF IInv, Shape, Senders
<1>2. Positions'
  <2> SUFFICES ASSUME NEW e \in Ends
               PROVE  /\ Len(log[e]) <= MaxFrames /\ written'[e] <= Len(log[e])
                      /\ inc[e].sequence <= written'[Other(e)]
                      /\ reading'[e] => inc[e].sequence < written'[Other(e)]
                      /\ out[e].sequence <= Len(log[e])
                      /\ e \notin Rogue => out[e].sequence = Len(log[e])
                      /\ e \notin Rogue /\ Len(log[e]) > 1 => inc[e].sequence > 0
                      /\ Len(queue[e]) <= Capacity
    BY <1>0 DEF Positions
  <2>1. inc[e].sequence <= written[Other(e)] /\ inc[e].sequence \in Nat
        /\ written[Other(e)] \in Nat
    BY Peers, EndShapes DEF IInv
  <2>2. written[Other(e)] <= written'[Other(e)] /\ written'[Other(e)] \in Nat
    BY Peers
  <2>3. inc[e].sequence <= written'[Other(e)]
    BY <2>1, <2>2
  <2> QED BY <2>3 DEF IInv, Positions
<1>3. Limits'
  BY <1>0 DEF IInv, Limits
<1>4. ASSUME NEW e \in Ends \ Rogue
      PROVE  (Views(e) /\ Roomy(e) /\ Queued(e))'
  <2>1. Views(e) /\ Roomy(e) /\ Queued(e)
    BY DEF IInv
  <2>2. Open(e)' <=> Open(e)
    BY <1>0 DEF Open
  <2> QED BY <1>0, <2>1, <2>2 DEF Views, Roomy, Queued
<1>5. \A e \in Ends : Other(e) \notin Rogue => error'[e] # "protocol"
  BY <1>0 DEF IInv
<1> QED BY <1>1, <1>2, <1>3, <1>4, <1>5 DEF IInv

\* Taking a message from the queue keeps the invariant.
LEMMA PollKeeps ==
  ASSUME IInv, NEW e \in Ends, Poll(e)
  PROVE  IInv'
<1>0. Shape /\ Positions /\ Limits
  BY DEF IInv
<1>1. /\ Open(e) /\ e \notin Rogue /\ queue[e] # <<>>
      /\ queue' = [queue EXCEPT ![e] = Tail(queue[e])]
      /\ polled' = [polled EXCEPT ![e] = [count |-> polled[e].count + 1, last |-> Head(queue[e])]]
      /\ out' = out /\ inc' = inc /\ helloSent' = helloSent /\ error' = error
      /\ sender' = sender /\ reading' = reading /\ log' = log /\ written' = written
  BY DEF Poll, Open
<1>2. /\ queue \in [Ends -> Seq(Messages)] /\ queue[e] \in Seq(Messages)
      /\ polled \in [Ends -> [count : Nat, last : Received]] /\ polled[e].count \in Nat
  BY <1>0 DEF Shape
<1>3. /\ Tail(queue[e]) \in Seq(Messages) /\ Len(Tail(queue[e])) = Len(queue[e]) - 1
      /\ Len(queue[e]) \in Nat /\ Len(queue[e]) > 0 /\ Head(queue[e]) \in Messages
      /\ DOMAIN Tail(queue[e]) = 1..(Len(queue[e]) - 1)
      /\ \A i \in 1..(Len(queue[e]) - 1) : Tail(queue[e])[i] = queue[e][i + 1]
  BY <1>1, <1>2
<1>4. /\ queue' \in [Ends -> Seq(Messages)] /\ queue'[e] = Tail(queue[e])
      /\ \A f \in Ends : f # e => queue'[f] = queue[f]
  BY <1>1, <1>2, <1>3
<1>5. [count |-> polled[e].count + 1, last |-> Head(queue[e])] \in [count : Nat, last : Received]
  BY <1>2, <1>3 DEF Received
<1>6. /\ polled' \in [Ends -> [count : Nat, last : Received]]
      /\ polled'[e].count = polled[e].count + 1
      /\ \A f \in Ends : f # e => polled'[f] = polled[f]
  BY <1>1, <1>2, <1>5
<1>7. Shape'
  BY <1>0, <1>1, <1>4, <1>6 DEF Shape
<1>8. Positions'
  <2>1. \A f \in Ends : Len(queue'[f]) <= Capacity
    <3> SUFFICES ASSUME NEW f \in Ends
                 PROVE  Len(queue'[f]) <= Capacity
      OBVIOUS
    <3>1. Len(queue[f]) <= Capacity
      BY <1>0 DEF Positions
    <3>2. CASE f = e
      BY <1>3, <1>4, <3>1, <3>2, Bounds
    <3>3. CASE f # e
      BY <1>4, <3>1, <3>3
    <3> QED BY <3>2, <3>3
  <2> QED BY <1>0, <1>1, <2>1 DEF Positions
<1>9. Limits'
  BY <1>0, <1>1 DEF Limits
<1>10. ASSUME NEW f \in Ends \ Rogue
       PROVE  (Views(f) /\ Roomy(f) /\ Queued(f))'
  <2>1. Views(f) /\ Roomy(f) /\ Queued(f)
    BY DEF IInv
  <2>2. Open(f)' <=> Open(f)
    BY <1>1 DEF Open
  <2>3. Views(f)' /\ Roomy(f)'
    BY <1>1, <2>1, <2>2 DEF Views, Roomy
  <2>4. CASE f # e
    BY <1>1, <1>4, <1>6, <2>1, <2>2, <2>3, <2>4 DEF Queued
  <2>5. CASE f = e
    <3>1. /\ polled[e].count + Len(queue[e])
               = IF inc[e].sequence = 0 THEN 0 ELSE inc[e].sequence - 1
          /\ \A i \in DOMAIN queue[e] :
               queue[e][i] = log[Other(e)][polled[e].count + i + 1].message
      BY <1>1, <2>1, <2>5 DEF Queued
    <3>2. polled'[e].count + Len(queue'[e]) = polled[e].count + Len(queue[e])
      BY <1>2, <1>3, <1>4, <1>6
    <3>3. ASSUME NEW i \in DOMAIN queue'[e]
          PROVE  queue'[e][i] = log[Other(e)][polled'[e].count + i + 1].message
      <4>1. i \in 1..(Len(queue[e]) - 1)
        BY <1>3, <1>4, <3>3
      <4>2. i + 1 \in DOMAIN queue[e] /\ polled[e].count + (i + 1) + 1 = polled'[e].count + i + 1
        <5>1. DOMAIN queue[e] = 1..Len(queue[e])
          BY <1>2
        <5>2. i \in Nat /\ i + 1 \in 1..Len(queue[e])
          BY <1>3, <4>1
        <5>3. \A a \in Nat, j \in Nat : a + (j + 1) + 1 = (a + 1) + j + 1
          OBVIOUS
        <5> QED BY <1>2, <1>6, <5>1, <5>2, <5>3
      <4>3. queue'[e][i] = queue[e][i + 1]
        BY <1>3, <1>4, <4>1
      <4> QED BY <3>1, <4>2, <4>3
    <3>4. Queued(e)'
      BY <1>1, <3>1, <3>2, <3>3 DEF Queued
    <3> QED BY <2>3, <2>5, <3>4
  <2> QED BY <2>4, <2>5
<1>11. \A f \in Ends : Other(f) \notin Rogue => error'[f] # "protocol"
  BY <1>1 DEF IInv
<1> QED BY <1>7, <1>8, <1>9, <1>10, <1>11 DEF IInv

\* What a rogue writes keeps the invariant of the other end.
LEMMA RogueWritesKeeps ==
  ASSUME IInv, NEW e \in Ends, NEW n \in 1..MaxFrames, NEW m \in Received \cup {Broken},
         RogueWrites(e, n, m)
  PROVE  IInv'
<1>0. Shape /\ Positions /\ Limits
  BY DEF IInv
<1>1. /\ e \in Rogue /\ Room(e, 1)
      /\ log' = [log EXCEPT ![e] = Append(log[e], Frame(n, m))]
      /\ written' = [written EXCEPT ![e] = written[e] + 1]
      /\ out' = out /\ inc' = inc /\ helloSent' = helloSent /\ error' = error /\ queue' = queue
      /\ sender' = sender /\ reading' = reading /\ polled' = polled
  BY DEF RogueWrites
<1>2. /\ log \in [Ends -> Seq(Frames)] /\ log[e] \in Seq(Frames) /\ Len(log[e]) \in Nat
      /\ written \in [Ends -> Nat] /\ written[e] \in Nat
  BY <1>0 DEF Shape
<1>3. Frame(n, m) \in Frames
  BY DEF Frame, Frames
<1>4. /\ Append(log[e], Frame(n, m)) \in Seq(Frames)
      /\ Len(Append(log[e], Frame(n, m))) = Len(log[e]) + 1
      /\ Agree(log[e], Append(log[e], Frame(n, m)), Len(log[e]))
  BY <1>2, <1>3 DEF Agree
<1>5. /\ log' \in [Ends -> Seq(Frames)] /\ Len(log'[e]) = Len(log[e]) + 1
      /\ Agree(log[e], log'[e], Len(log[e]))
      /\ \A f \in Ends : f # e => log'[f] = log[f]
  BY <1>1, <1>2, <1>4
<1>6. /\ written' \in [Ends -> Nat] /\ written'[e] = written[e] + 1
      /\ \A f \in Ends : f # e => written'[f] = written[f]
  BY <1>1, <1>2
<1>7. Shape'
  BY <1>0, <1>1, <1>5, <1>6 DEF Shape
<1>8. Positions'
  <2> SUFFICES ASSUME NEW f \in Ends
               PROVE  /\ Len(log'[f]) <= MaxFrames /\ written'[f] <= Len(log'[f])
                      /\ inc[f].sequence <= written'[Other(f)]
                      /\ reading[f] => inc[f].sequence < written'[Other(f)]
                      /\ out[f].sequence <= Len(log'[f])
                      /\ f \notin Rogue => out[f].sequence = Len(log'[f])
                      /\ f \notin Rogue /\ Len(log'[f]) > 1 => inc[f].sequence > 0
                      /\ Len(queue[f]) <= Capacity
    BY <1>1 DEF Positions
  <2>1. /\ Len(log[f]) <= MaxFrames /\ written[f] <= Len(log[f])
        /\ inc[f].sequence <= written[Other(f)]
        /\ reading[f] => inc[f].sequence < written[Other(f)]
        /\ out[f].sequence <= Len(log[f])
        /\ f \notin Rogue => out[f].sequence = Len(log[f])
        /\ f \notin Rogue /\ Len(log[f]) > 1 => inc[f].sequence > 0
        /\ Len(queue[f]) <= Capacity
    BY <1>0 DEF Positions
  <2>2. inc[f].sequence \in Nat /\ out[f].sequence \in Nat
        /\ written[Other(f)] \in Nat /\ Other(f) \in Ends
    BY <1>0, EndShapes, Peers
  <2>3. /\ inc[f].sequence <= written'[Other(f)]
        /\ reading[f] => inc[f].sequence < written'[Other(f)]
    <3>1. CASE Other(f) = e
      BY <1>2, <1>6, <2>1, <2>2, <3>1
    <3>2. CASE Other(f) # e
      BY <1>6, <2>1, <2>2, <3>2
    <3> QED BY <3>1, <3>2
  <2>4. CASE f = e
    <3>1. Len(log[e]) + 1 <= MaxFrames
      BY <1>1 DEF Room
    <3>2. written'[e] <= Len(log'[e]) /\ out[e].sequence <= Len(log'[e])
      BY <1>2, <1>5, <1>6, <2>1, <2>2, <2>4
    <3> QED BY <1>1, <1>5, <2>1, <2>3, <2>4, <3>1, <3>2
  <2>5. CASE f # e
    BY <1>5, <1>6, <2>1, <2>3, <2>5
  <2> QED BY <2>4, <2>5
<1>9. Limits'
  BY <1>0, <1>1 DEF Limits
<1>10. ASSUME NEW f \in Ends \ Rogue
       PROVE  (Views(f) /\ Roomy(f) /\ Queued(f))'
  <2>0. f # e /\ f \in Ends /\ Other(f) = e
    BY <1>1, Peers
  <2>1. Views(f) /\ Roomy(f) /\ Queued(f)
    BY DEF IInv
  <2>2. log'[f] = log[f] /\ out'[f] = out[f] /\ inc'[f] = inc[f] /\ (Open(f)' => Open(f))
        /\ queue'[f] = queue[f] /\ polled'[f] = polled[f]
    BY <1>1, <1>5, <2>0 DEF Open
  <2>3. /\ Agree(log[Other(f)], log'[Other(f)], Len(log[Other(f)]))
        /\ Len(log'[Other(f)]) \in Nat /\ Len(log[Other(f)]) <= Len(log'[Other(f)])
    BY <1>2, <1>5, <2>0
  <2>4. Views(f)'
    BY <1>0, <2>0, <2>1, <2>2, <2>3, ViewsKept
  <2>5. Roomy(f)'
    BY <1>0, <2>0, <2>1, <2>2, <2>3, RoomyKept
  <2>6. Queued(f)'
    BY <1>0, <2>0, <2>1, <2>2, <2>3, QueuedKept
  <2> QED BY <2>4, <2>5, <2>6
<1>11. \A f \in Ends : Other(f) \notin Rogue => error'[f] # "protocol"
  BY <1>1 DEF IInv
<1> QED BY <1>7, <1>8, <1>9, <1>10, <1>11 DEF IInv

\* The end of a rogue is no protocol violation.
LEMMA RogueEndsKeeps ==
  ASSUME IInv, NEW e \in Ends, RogueEnds(e)
  PROVE  IInv'
<1>1. /\ e \in Rogue /\ error' = [error EXCEPT ![e] = "closed"]
      /\ out' = out /\ inc' = inc /\ helloSent' = helloSent /\ queue' = queue
      /\ sender' = sender /\ reading' = reading /\ log' = log /\ written' = written
      /\ polled' = polled
  BY DEF RogueEnds
<1>2. Shape'
  BY <1>1 DEF IInv, Shape
<1>3. Positions' /\ Limits'
  BY <1>1 DEF IInv, Positions, Limits
<1>4. \A f \in Ends : error'[f] = error[f] \/ (f = e /\ error'[f] = "closed")
  BY <1>1 DEF IInv, Shape
<1>5. ASSUME NEW f \in Ends \ Rogue
      PROVE  (Views(f) /\ Roomy(f) /\ Queued(f))'
  <2>1. Views(f) /\ Roomy(f) /\ Queued(f)
    BY DEF IInv
  <2>2. Open(f)' <=> Open(f)
    BY <1>1, <1>4 DEF Open
  <2> QED BY <1>1, <2>1, <2>2 DEF Views, Roomy, Queued
<1>6. \A f \in Ends : Other(f) \notin Rogue => error'[f] # "protocol"
  BY <1>4 DEF IInv
<1> QED BY <1>2, <1>3, <1>5, <1>6 DEF IInv

\* A message at the end of a queue.
LEMMA Appended ==
  ASSUME NEW q \in Seq(Messages), NEW m \in Messages, NEW r, r = Append(q, m)
  PROVE  /\ r \in Seq(Messages) /\ Len(r) = Len(q) + 1
         /\ \A i \in DOMAIN r : (i \in DOMAIN q /\ r[i] = q[i]) \/ (i = Len(q) + 1 /\ r[i] = m)
<1>1. /\ r \in Seq(Messages) /\ Len(r) = Len(q) + 1
      /\ \A i \in 1..Len(q) : r[i] = q[i]
      /\ r[Len(q) + 1] = m
  BY AppendProperties
<1>2. Len(q) \in Nat /\ DOMAIN q = 1..Len(q)
  BY LenProperties
<1>3. DOMAIN r = 1..(Len(q) + 1)
  BY <1>1, LenProperties
<1>4. \A i \in DOMAIN r : i \in 1..Len(q) \/ i = Len(q) + 1
  BY <1>2, <1>3
<1>5. \A i \in DOMAIN r : (i \in DOMAIN q /\ r[i] = q[i]) \/ (i = Len(q) + 1 /\ r[i] = m)
  <2> TAKE i \in DOMAIN r
  <2>1. CASE i \in 1..Len(q)
    BY ONLY <1>1, <1>2, <2>1
  <2>2. CASE i = Len(q) + 1
    BY ONLY <1>1, <2>2
  <2> QED BY <1>4, <2>1, <2>2
<1> QED BY ONLY <1>1, <1>5

\* A frame that is accepted keeps the invariant.
LEMMA AcceptedKeeps ==
  ASSUME IInv, NEW e \in Ends, e \notin Rogue, Open(e), reading[e],
         NEW m, m = log[Other(e)][inc[e].sequence + 1].message, ~Full(e, m),
         Acceptable(e, log[Other(e)][inc[e].sequence + 1], inc[e], out[e]),
         reading' = [reading EXCEPT ![e] = FALSE],
         inc' = [inc EXCEPT ![e] = Moved(inc[e], m)],
         out' = [out EXCEPT ![e] = Answered(out[e], m)],
         queue' = [queue EXCEPT ![e] = Delivered(e, m)],
         UNCHANGED <<error, helloSent, sender, log, written, polled>>
  PROVE  IInv'
<1> DEFINE f == Other(e)  s == log[f]  n == inc[e].sequence  t == log[e]  k == Len(t)
           d == Moved(inc[e], m)  o == Answered(out[e], m)
<1>0. Shape /\ Positions /\ Limits
  BY DEF IInv
<1>1. /\ f \in Ends /\ f # e /\ n \in Nat /\ k \in Nat /\ Len(s) \in Nat
      /\ written[f] \in Nat /\ written[f] <= Len(s) /\ n < written[f]
      /\ out[e] \in Directions /\ inc[e] \in Directions
      /\ queue[e] \in Seq(Messages) /\ Len(queue[e]) \in Nat
  BY <1>0, EndShapes, Peers DEF Positions
<1>2. n + 1 \in 1..Len(s)
  BY <1>1
<1>3. m \in Received \cup {Broken}
  BY <1>0, <1>1, <1>2, EndShapes
<1>4. s[n + 1].seq = n + 1 /\ s[n + 1].message = m /\ Legal(e, m, inc[e], out[e])
  BY DEF Acceptable
<1>5. m \in Received
  <2>1. ~Legal(e, Broken, inc[e], out[e])
    BY DEF Legal, Broken
  <2> QED BY <1>3, <1>4, <2>1
<1>6. Readable(s, n)
  BY <1>0, <1>1, LogReadable
<1>7. Views(e) /\ Roomy(e) /\ Queued(e)
  BY DEF IInv
<1>8. /\ Half(s, n, inc[e], t, k) /\ Balanced(s, n, inc[e], t, k)
      /\ Half(t, k, out[e], s, n) /\ Balanced(t, k, out[e], s, n)
  BY <1>7 DEF Views
<1>9. d \in Directions /\ d.sequence = n + 1
  BY <1>1, <1>5, MovedFields
<1>10. o \in Directions /\ o.sequence = out[e].sequence
  BY <1>1, <1>5, AnsweredFields
<1>11. /\ Cardinality(d.pending) <= Capacity /\ Cardinality(d.fences) <= Capacity
       /\ Cardinality(o.pending) <= Capacity /\ Cardinality(o.fences) <= Capacity
  <2>1. /\ Cardinality(out[e].pending) <= Capacity /\ Cardinality(out[e].fences) <= Capacity
        /\ Cardinality(inc[e].pending) <= Capacity /\ Cardinality(inc[e].fences) <= Capacity
    BY <1>0 DEF Limits
  <2> QED BY <1>1, <1>4, <1>5, <2>1, MovedLimits
<1> HIDE DEF s, t, k, n, d, o, f
<1>12. /\ Half(s, n + 1, d, t, k) /\ Balanced(s, n + 1, d, t, k)
       /\ Half(t, k, o, s, n + 1) /\ Balanced(t, k, o, s, n + 1)
  BY <1>1, <1>4, <1>5, <1>6, <1>8, MessageStep DEF d, o
<1>13. /\ inc' \in [Ends -> Directions] /\ inc'[e] = d /\ \A g \in Ends : g # e => inc'[g] = inc[g]
       /\ out' \in [Ends -> Directions] /\ out'[e] = o /\ \A g \in Ends : g # e => out'[g] = out[g]
  BY <1>0, <1>9, <1>10 DEF Shape, d, o
<1>14. /\ m # Hello => m \in Messages
       /\ m = Hello <=> m.type = "Hello"
  BY <1>5, MessageShapes DEF Received
<1>15. /\ Delivered(e, m) \in Seq(Messages) /\ Len(Delivered(e, m)) <= Capacity
       /\ Len(Delivered(e, m)) = IF m = Hello THEN Len(queue[e]) ELSE Len(queue[e]) + 1
  <2>1. CASE m = Hello
    BY <1>0, <1>1, <2>1 DEF Delivered, Positions
  <2>2. CASE m # Hello
    <3>1. m # Broken
      BY <1>14, <2>2, MessageShapes
    <3>2. Len(queue[e]) < Capacity
      BY <1>1, <2>2, <3>1, Bounds DEF Full
    <3>3. Delivered(e, m) = Append(queue[e], m)
      BY <2>2 DEF Delivered
    <3>4. Append(queue[e], m) \in Seq(Messages) /\ Len(Append(queue[e], m)) = Len(queue[e]) + 1
      <4> DEFINE q == queue[e]
                 r == Append(q, m)
      <4>1. q \in Seq(Messages) /\ m \in Messages /\ r = Append(q, m)
        BY <1>1, <1>14, <2>2
      <4> HIDE DEF q, r
      <4>2. r \in Seq(Messages) /\ Len(r) = Len(q) + 1
        BY ONLY <4>1, Appended
      <4> QED BY <4>2 DEF q, r
    <3>5. \A a, b \in Nat : a < b => a + 1 <= b
      OBVIOUS
    <3>6. Len(queue[e]) + 1 <= Capacity
      BY <1>1, <3>2, <3>5, Bounds
    <3> QED BY <2>2, <3>3, <3>4, <3>6
  <2> QED BY <2>1, <2>2
<1>16. /\ queue' \in [Ends -> Seq(Messages)] /\ queue'[e] = Delivered(e, m)
       /\ \A g \in Ends : g # e => queue'[g] = queue[g]
  BY <1>0, <1>15 DEF Shape
<1>17. /\ reading' \in [Ends -> BOOLEAN] /\ reading'[e] = FALSE
       /\ \A g \in Ends : g # e => reading'[g] = reading[g]
  BY <1>0 DEF Shape
<1>18. /\ error' = error /\ helloSent' = helloSent /\ sender' = sender /\ log' = log
       /\ written' = written /\ polled' = polled
  OBVIOUS
<1>19. Shape'
  BY <1>0, <1>13, <1>16, <1>17, <1>18 DEF Shape
<1>20. Positions'
  <2> SUFFICES ASSUME NEW g \in Ends
               PROVE  /\ Len(log[g]) <= MaxFrames /\ written[g] <= Len(log[g])
                      /\ inc'[g].sequence <= written[Other(g)]
                      /\ reading'[g] => inc'[g].sequence < written[Other(g)]
                      /\ out'[g].sequence <= Len(log[g])
                      /\ g \notin Rogue => out'[g].sequence = Len(log[g])
                      /\ g \notin Rogue /\ Len(log[g]) > 1 => inc'[g].sequence > 0
                      /\ Len(queue'[g]) <= Capacity
    BY <1>18 DEF Positions
  <2>1. /\ Len(log[g]) <= MaxFrames /\ written[g] <= Len(log[g])
        /\ inc[g].sequence <= written[Other(g)]
        /\ reading[g] => inc[g].sequence < written[Other(g)]
        /\ out[g].sequence <= Len(log[g])
        /\ g \notin Rogue => out[g].sequence = Len(log[g])
        /\ g \notin Rogue /\ Len(log[g]) > 1 => inc[g].sequence > 0
        /\ Len(queue[g]) <= Capacity
    BY <1>0 DEF Positions
  <2>2. CASE g = e
    <3>1. n + 1 <= written[f] /\ n + 1 > 0
      BY <1>1
    <3>2. inc'[e].sequence = n + 1 /\ out'[e].sequence = out[e].sequence
      BY <1>9, <1>10, <1>13
    <3>3. Len(queue'[e]) <= Capacity
      BY <1>15, <1>16
    <3> QED BY <1>17, <2>1, <2>2, <3>1, <3>2, <3>3 DEF f
  <2>3. CASE g # e
    BY <1>13, <1>16, <1>17, <2>1, <2>3
  <2> QED BY <2>2, <2>3
<1>21. Limits'
  <2> SUFFICES ASSUME NEW g \in Ends, NEW x \in {out'[g], inc'[g]}
               PROVE  Cardinality(x.pending) <= Capacity /\ Cardinality(x.fences) <= Capacity
    BY DEF Limits
  <2>1. CASE g = e
    <3>1. x = d \/ x = o
      BY <1>13, <2>1
    <3> QED BY <1>11, <3>1
  <2>2. CASE g # e
    BY <1>0, <1>13, <2>2 DEF Limits
  <2> QED BY <2>1, <2>2
<1>22. (Views(e) /\ Roomy(e) /\ Queued(e))'
  <2>1. Views(e)'
    BY <1>9, <1>12, <1>13, <1>18 DEF Views, s, t, k, f
  <2>2. Roomy(e)'
    BY <1>7, <1>18 DEF Roomy
  <2>3. Queued(e)'
    <3>1. /\ polled[e].count + Len(queue[e]) = IF n = 0 THEN 0 ELSE n - 1
          /\ \A i \in DOMAIN queue[e] : queue[e][i] = s[polled[e].count + i + 1].message
      BY <1>7 DEF Queued, s, n, f
    <3>2. polled[e].count \in Nat
      BY <1>0 DEF Shape
    <3>3. m = Hello <=> n = 0
      <4>1. inc[e].sequence = n /\ (inc[e].hello <=> n > 0)
        BY <1>8 DEF Half, Tally
      <4>2. m = Hello => n = 0
        BY <1>4, <1>14, <4>1 DEF Legal
      <4>3. m # Hello => inc[e].hello
        BY <1>4, <1>5, <1>14, OnlyAfterHellos
      <4> QED BY <1>1, <4>1, <4>2, <4>3
    <3>4. (n + 1 = 0) = FALSE /\ (n + 1) - 1 = n
      BY <1>1
    <3>5. polled[e].count + Len(queue'[e]) = n
      <4>1. CASE m = Hello
        <5>1. Len(queue'[e]) = Len(queue[e]) /\ n = 0
          BY <1>15, <1>16, <3>3, <4>1
        <5> QED BY <3>1, <5>1
      <4>2. CASE m # Hello
        <5>1. Len(queue'[e]) = Len(queue[e]) + 1 /\ n # 0
          BY <1>15, <1>16, <3>3, <4>2
        <5>2. polled[e].count + Len(queue[e]) = n - 1
          BY <3>1, <5>1
        <5>3. \A a, l, x \in Nat : a + l = x - 1 => a + (l + 1) = x
          OBVIOUS
        <5>4. n \in Nat /\ Len(queue[e]) \in Nat /\ polled[e].count \in Nat
          BY <1>1, <3>2
        <5>5. polled[e].count + (Len(queue[e]) + 1) = n
          BY <5>2, <5>3, <5>4
        <5> QED BY <5>1, <5>5
      <4> QED BY <4>1, <4>2
    <3>6. ASSUME NEW i \in DOMAIN queue'[e]
          PROVE  queue'[e][i] = s[polled[e].count + i + 1].message
      <4>1. CASE m = Hello
        BY <1>16, <3>1, <3>6, <4>1 DEF Delivered
      <4>2. CASE m # Hello
        <5>1. queue'[e] = Append(queue[e], m)
          BY <1>16, <4>2 DEF Delivered
        <5>2. queue[e] \in Seq(Messages) /\ m \in Messages
          BY <1>1, <1>14, <4>2
        <5>3. \/ i \in DOMAIN queue[e] /\ queue'[e][i] = queue[e][i]
              \/ i = Len(queue[e]) + 1 /\ queue'[e][i] = m
          <6> DEFINE q == queue[e]
                     r == queue'[e]
          <6>1. q \in Seq(Messages) /\ m \in Messages /\ r = Append(q, m)
            BY <5>1, <5>2
          <6>2. i \in DOMAIN r
            BY <3>6
          <6> HIDE DEF q, r
          <6>3. \A j \in DOMAIN r : (j \in DOMAIN q /\ r[j] = q[j]) \/ (j = Len(q) + 1 /\ r[j] = m)
            BY ONLY <6>1, Appended
          <6>4. (i \in DOMAIN q /\ r[i] = q[i]) \/ (i = Len(q) + 1 /\ r[i] = m)
            BY ONLY <6>2, <6>3
          <6> QED BY <6>4 DEF q, r
        <5>4. CASE i \in DOMAIN queue[e] /\ queue'[e][i] = queue[e][i]
          BY <3>1, <5>1, <5>4
        <5>5. CASE i = Len(queue[e]) + 1 /\ queue'[e][i] = m
          <6>1. polled[e].count + Len(queue[e]) = n - 1
            BY <3>1, <3>3, <4>2
          <6>2. polled[e].count + i + 1 = n + 1
            <7> DEFINE a == polled[e].count
                       l == Len(queue[e])
            <7>1. a \in Nat /\ l \in Nat /\ n \in Nat /\ a + l = n - 1 /\ i = l + 1
              BY <1>1, <3>2, <5>5, <6>1
            <7> HIDE DEF a, l
            <7>2. a + i + 1 = n + 1
              BY ONLY <7>1
            <7> QED BY <7>2 DEF a
          <6> QED BY <1>4, <5>1, <5>5, <6>2
        <5> QED BY <5>3, <5>4, <5>5
      <4> QED BY <4>1, <4>2
    <3>7. inc'[e].sequence = n + 1 /\ polled'[e] = polled[e] /\ log'[f] = s
      BY <1>9, <1>13, <1>18 DEF s
    <3> QED BY <3>4, <3>5, <3>6, <3>7 DEF Queued, f
  <2> QED BY <2>1, <2>2, <2>3
<1>23. ASSUME NEW g \in Ends \ Rogue, g # e
       PROVE  (Views(g) /\ Roomy(g) /\ Queued(g))'
  <2>1. Views(g) /\ Roomy(g) /\ Queued(g)
    BY DEF IInv
  <2>2. /\ Open(g)' <=> Open(g)
        /\ out'[g] = out[g] /\ inc'[g] = inc[g] /\ queue'[g] = queue[g]
    BY <1>13, <1>16, <1>18, <1>23 DEF Open
  <2> QED BY <1>18, <2>1, <2>2 DEF Views, Roomy, Queued
<1>24. \A g \in Ends : Other(g) \notin Rogue => error'[g] # "protocol"
  BY <1>18 DEF IInv
<1> QED BY <1>19, <1>20, <1>21, <1>22, <1>23, <1>24 DEF IInv

-----------------------------------------------------------------------------
(* Every step *)

\* The frame a reader accepts, or ends its channel on, keeps the invariant.
LEMMA AcceptFrameKeeps ==
  ASSUME IInv, NEW e \in Ends, AcceptFrame(e)
  PROVE  IInv'
<1> DEFINE frame == log[Other(e)][inc[e].sequence + 1]  m == frame.message
<1>1. /\ e \notin Rogue /\ Open(e) /\ reading[e] /\ MayAccept(e, m)
      /\ reading' = [reading EXCEPT ![e] = FALSE]
      /\ UNCHANGED <<helloSent, sender, log, written, polled>>
  BY DEF AcceptFrame, Open
<1>2. /\ Full(e, m) => Terminate(e, "overflow")
      /\ ~Full(e, m) /\ ~Acceptable(e, frame, inc[e], out[e]) => Terminate(e, "protocol")
      /\ ~Full(e, m) /\ Acceptable(e, frame, inc[e], out[e]) =>
           /\ inc' = [inc EXCEPT ![e] = Moved(inc[e], m)]
           /\ out' = [out EXCEPT ![e] = Answered(out[e], m)]
           /\ queue' = [queue EXCEPT ![e] = Delivered(e, m)]
           /\ UNCHANGED error
  BY DEF AcceptFrame
<1>3. /\ reading' \in [Ends -> BOOLEAN] /\ \A x \in Ends : reading'[x] => reading[x]
      /\ sender' \in [Ends -> Senders]
  BY <1>1 DEF IInv, Shape, Senders
<1>4. CASE Full(e, m)
  BY <1>1, <1>2, <1>3, <1>4, TerminateKeeps DEF Whys
<1>5. CASE ~Full(e, m) /\ ~Acceptable(e, frame, inc[e], out[e])
  <2>1. Other(e) \in Rogue
    <3> SUFFICES ASSUME Other(e) \notin Rogue
                 PROVE  FALSE
      OBVIOUS
    <3>1. Other(e) \in Ends \ Rogue
      BY Peers
    <3>2. Views(e) /\ Views(Other(e)) /\ Roomy(Other(e)) /\ Shape /\ Positions
      BY <1>1, <3>1 DEF IInv
    <3> QED BY <1>1, <1>5, <3>2, PeerIsLegal
  <2> QED BY <1>1, <1>2, <1>3, <1>5, <2>1, TerminateKeeps DEF Whys
<1>6. CASE ~Full(e, m) /\ Acceptable(e, frame, inc[e], out[e])
  BY <1>1, <1>2, <1>6, AcceptedKeeps
<1> QED BY <1>4, <1>5, <1>6

\* A frame that is written is one that was admitted.
LEMMA WriteFrameKeeps ==
  ASSUME IInv, NEW e \in Ends, WriteFrame(e)
  PROVE  IInv'
<1>1. /\ written[e] < Len(log[e]) /\ written' = [written EXCEPT ![e] = written[e] + 1]
      /\ UNCHANGED <<out, inc, helloSent, queue, error, sender, reading, log, polled>>
  BY DEF WriteFrame
<1>2. written \in [Ends -> Nat] /\ \A f \in Ends : written[f] \in Nat /\ Len(log[f]) \in Nat
  BY EndShapes DEF IInv, Shape
<1>3. \A f \in Ends : written[f] <= Len(log[f])
  BY DEF IInv, Positions
<1>4. /\ written' \in [Ends -> Nat]
      /\ \A f \in Ends : written[f] <= written'[f] /\ written'[f] <= Len(log[f])
  BY <1>1, <1>2, <1>3
<1>5. ASSUME NEW f \in Ends, reading'[f]
      PROVE  inc[f].sequence < written'[Other(f)]
  <2>1. inc[f].sequence < written[Other(f)] /\ inc[f].sequence \in Nat /\ Other(f) \in Ends
    BY <1>1, <1>5, EndShapes, Peers DEF IInv, Positions
  <2>2. written[Other(f)] \in Nat /\ written'[Other(f)] \in Nat
        /\ written[Other(f)] <= written'[Other(f)]
    BY <1>2, <1>4, <2>1
  <2> QED BY <2>1, <2>2
<1> QED BY <1>1, <1>4, <1>5, QuietKeeps DEF IInv, Shape, Senders

\* A frame that is read is one that was written.
LEMMA ReceiveFrameKeeps ==
  ASSUME IInv, NEW e \in Ends, ReceiveFrame(e)
  PROVE  IInv'
<1>1. /\ inc[e].sequence < written[Other(e)] /\ reading' = [reading EXCEPT ![e] = TRUE]
      /\ UNCHANGED <<out, inc, helloSent, queue, error, sender, log, written, polled>>
  BY DEF ReceiveFrame
<1>2. reading' \in [Ends -> BOOLEAN] /\ \A f \in Ends : f # e => reading'[f] = reading[f]
  BY <1>1 DEF IInv, Shape
<1>3. \A f \in Ends : /\ written[f] <= written'[f] /\ written'[f] <= Len(log[f])
                      /\ reading'[f] => inc[f].sequence < written'[Other(f)]
  <2> SUFFICES ASSUME NEW f \in Ends
               PROVE  /\ written[f] <= written[f] /\ written[f] <= Len(log[f])
                      /\ reading'[f] => inc[f].sequence < written[Other(f)]
    BY <1>1
  <2>1. written[f] \in Nat
    BY DEF IInv, Shape
  <2> QED BY <1>1, <1>2, <2>1 DEF IInv, Positions
<1> QED BY <1>1, <1>2, <1>3, QuietKeeps DEF IInv, Shape, Senders

\* So does a send that returns.
LEMMA SendReturnsKeeps ==
  ASSUME IInv, NEW e \in Ends, SendReturns(e)
  PROVE  IInv'
<1>1. /\ helloSent' = [helloSent EXCEPT ![e] = helloSent[e] \/ sender[e] = "hello"]
      /\ sender' = [sender EXCEPT ![e] = "idle"]
      /\ UNCHANGED <<out, inc, queue, error, reading, log, written, polled>>
  BY DEF SendReturns
<1>2. helloSent' \in [Ends -> BOOLEAN] /\ sender' \in [Ends -> Senders]
  BY <1>1 DEF IInv, Shape, Senders
<1>3. \A f \in Ends : /\ written[f] <= written'[f] /\ written'[f] <= Len(log[f])
                      /\ reading'[f] => inc[f].sequence < written'[Other(f)]
  <2> SUFFICES ASSUME NEW f \in Ends
               PROVE  /\ written[f] <= written[f] /\ written[f] <= Len(log[f])
                      /\ reading[f] => inc[f].sequence < written[Other(f)]
    BY <1>1
  <2>1. written[f] \in Nat
    BY DEF IInv, Shape
  <2> QED BY <2>1 DEF IInv, Positions
<1> QED BY <1>1, <1>2, <1>3, QuietKeeps DEF IInv, Shape

\* Whatever ends the channel of an end keeps the invariant.
LEMMA EndingsKeep ==
  ASSUME IInv, NEW e \in Ends,
         \/ \E why \in {"deadline", "cancelled"} : SendFails(e, why)
         \/ SendAborted(e) \/ ReadExpires(e) \/ ReadEnds(e) \/ Close(e)
  PROVE  IInv'
<1>0. reading \in [Ends -> BOOLEAN] /\ sender \in [Ends -> Senders]
  BY DEF IInv, Shape, Senders
<1>1. CASE \E why \in {"deadline", "cancelled"} : SendFails(e, why)
  <2>1. PICK why \in {"deadline", "cancelled"} :
          /\ Terminate(e, why) /\ sender' = [sender EXCEPT ![e] = "idle"]
          /\ UNCHANGED <<helloSent, reading, log, written, polled>>
    BY <1>1 DEF SendFails
  <2>2. sender' \in [Ends -> Senders]
    BY <1>0, <2>1 DEF Senders
  <2> QED BY <1>0, <2>1, <2>2, TerminateKeeps DEF Whys
<1>2. CASE SendAborted(e)
  <2>1. /\ Terminate(e, "closed") /\ sender' = [sender EXCEPT ![e] = "idle"]
        /\ UNCHANGED <<helloSent, reading, log, written, polled>>
    BY <1>2 DEF SendAborted
  <2>2. sender' \in [Ends -> Senders]
    BY <1>0, <2>1 DEF Senders
  <2> QED BY <1>0, <2>1, <2>2, TerminateKeeps DEF Whys
<1>3. CASE ReadExpires(e) \/ ReadEnds(e)
  <2>1. PICK why \in {"deadline", "closed"} :
          /\ Terminate(e, why) /\ reading' = [reading EXCEPT ![e] = FALSE]
          /\ UNCHANGED <<helloSent, sender, log, written, polled>>
    BY <1>3 DEF ReadExpires, ReadEnds
  <2>2. reading' \in [Ends -> BOOLEAN] /\ \A x \in Ends : reading'[x] => reading[x]
    BY <1>0, <2>1
  <2> QED BY <1>0, <2>1, <2>2, TerminateKeeps DEF Whys
<1>4. CASE Close(e)
  <2>1. /\ Terminate(e, "closed")
        /\ UNCHANGED <<helloSent, sender, reading, log, written, polled>>
    BY <1>4 DEF Close
  <2> QED BY <1>0, <2>1, TerminateKeeps DEF Whys
<1> QED BY <1>1, <1>2, <1>3, <1>4

\* The initial states satisfy the invariant.
LEMMA InitEstablishes == Init => IInv
<1> SUFFICES ASSUME Init
             PROVE  IInv
  OBVIOUS
<1>1. /\ out = [e \in Ends |-> Direction] /\ inc = [e \in Ends |-> Direction]
      /\ helloSent = [e \in Ends |-> FALSE] /\ queue = [e \in Ends |-> <<>>]
      /\ error = [e \in Ends |-> "none"] /\ sender = [e \in Ends |-> "idle"]
      /\ reading = [e \in Ends |-> FALSE]
      /\ log = [e \in Ends |-> <<>>] /\ written = [e \in Ends |-> 0]
      /\ polled = [e \in Ends |-> [count |-> 0, last |-> Hello]]
  BY DEF Init
<1>2. Direction \in Directions /\ Direction.sequence = 0 /\ ~Direction.hello
      /\ Direction.edge = 0 /\ Direction.fence = 0 /\ Direction.settled = 0 /\ Direction.mark = -1
      /\ Direction.pending = {} /\ Direction.fences = {}
  BY Bounds DEF Direction, Directions, Times
<1>3. [count |-> 0, last |-> Hello] \in [count : Nat, last : Received]
  BY DEF Received
<1>4. Shape
  BY <1>1, <1>2, <1>3 DEF Shape
<1>5. Positions
  BY <1>1, <1>2, Bounds, Peers DEF Positions
<1>6. Limits
  <2>1. Cardinality({}) = 0 /\ 0 <= Capacity
    BY FS_EmptySet, Bounds
  <2> QED BY <1>1, <1>2, <2>1 DEF Limits
<1>7. ASSUME NEW s, NEW t
      PROVE  Half(s, 0, Direction, t, 0) /\ Balanced(s, 0, Direction, t, 0)
  <2>1. 1..0 = {}
    OBVIOUS
  <2>2. \A type : Earlier(s, 0 + 1, type) = {}
    BY DEF Earlier
  <2>3. Cardinality({}) = 0
    BY FS_EmptySet
  <2>4. Tally(s, 0, Direction)
    BY <1>2, <2>1, <2>2, <2>3 DEF Tally, Latest
  <2>5. \A b : /\ Asked(b, s, 0) = {} /\ Settled(b, s, 0) = {}
               /\ Asked(b, t, 0) = {} /\ Settled(b, t, 0) = {}
    BY <2>1 DEF Asked, Settled
  <2>6. Answering(s, 0, t, 0)
    BY <2>1, <2>5 DEF Answering
  <2>7. Balanced(s, 0, Direction, t, 0)
    BY <1>2, <2>5 DEF Balanced, Book
  <2> QED BY <2>4, <2>6, <2>7 DEF Half
<1>8. ASSUME NEW e \in Ends
      PROVE  Views(e) /\ Roomy(e) /\ Queued(e)
  <2>1. /\ log[e] = <<>> /\ log[Other(e)] = <<>> /\ out[e] = Direction /\ inc[e] = Direction
        /\ queue[e] = <<>> /\ polled[e].count = 0 /\ inc[e].sequence = 0
    BY <1>1, <1>2, Peers
  <2>2. Len(<<>>) = 0 /\ 1..0 = {} /\ DOMAIN <<>> = {}
    OBVIOUS
  <2>3. Views(e)
    BY <1>7, <2>1, <2>2 DEF Views
  <2>4. Roomy(e)
    BY <2>1, <2>2 DEF Roomy
  <2>5. Queued(e)
    BY <2>1, <2>2 DEF Queued
  <2> QED BY <2>3, <2>4, <2>5
<1>9. \A e \in Ends : error[e] # "protocol"
  BY <1>1
<1> QED BY <1>4, <1>5, <1>6, <1>8, <1>9 DEF IInv

\* Every step keeps the invariant.
LEMMA NextKeeps == IInv /\ [Next]_vars => IInv'
<1> SUFFICES ASSUME IInv, [Next]_vars
             PROVE  IInv'
  OBVIOUS
<1>1. CASE UNCHANGED vars
  <2>1. /\ out' = out /\ inc' = inc /\ queue' = queue /\ error' = error /\ log' = log
        /\ polled' = polled /\ helloSent' = helloSent /\ sender' = sender /\ reading' = reading
        /\ written' = written
    BY <1>1 DEF vars
  <2>2. \A f \in Ends : /\ written[f] <= written'[f] /\ written'[f] <= Len(log[f])
                        /\ reading'[f] => inc[f].sequence < written'[Other(f)]
    <3> SUFFICES ASSUME NEW f \in Ends
                 PROVE  /\ written[f] <= written[f] /\ written[f] <= Len(log[f])
                        /\ reading[f] => inc[f].sequence < written[Other(f)]
      BY <2>1
    <3>1. written[f] \in Nat
      BY DEF IInv, Shape
    <3> QED BY <3>1 DEF IInv, Positions
  <2> QED BY <2>1, <2>2, QuietKeeps DEF IInv, Shape, Senders
<1>2. ASSUME NEW e \in Ends, Reader(e) \/ Writer(e) \/ Owner(e)
      PROVE  IInv'
  <2>1. CASE ReceiveFrame(e)
    BY <2>1, ReceiveFrameKeeps
  <2>2. CASE AcceptFrame(e)
    BY <2>2, AcceptFrameKeeps
  <2>3. CASE ReadEnds(e) \/ SendAborted(e)
    BY <2>3, EndingsKeep
  <2>4. CASE WriteFrame(e)
    BY <2>4, WriteFrameKeeps
  <2>5. CASE SendReturns(e)
    BY <2>5, SendReturnsKeeps
  <2>6. CASE \E m \in Messages \cup {Hello} : Admit(e, m)
    BY <2>6, AdmitKeeps DEF Received
  <2>7. CASE \E at \in Times : AdmitPair(e, at)
    BY <2>7, AdmitPairKeeps
  <2>8. CASE Poll(e)
    BY <2>8, PollKeeps
  <2> QED BY <1>2, <2>1, <2>2, <2>3, <2>4, <2>5, <2>6, <2>7, <2>8 DEF Reader, Writer, Owner
<1>3. CASE \E e \in Impatient :
             ReadExpires(e) \/ \E why \in {"deadline", "cancelled"} : SendFails(e, why)
  BY <1>3, WireAssumption, EndingsKeep
<1>4. CASE \E e \in Closers : Close(e)
  BY <1>4, WireAssumption, EndingsKeep
<1>5. CASE \E e \in Rogue : RogueEnds(e)
  BY <1>5, WireAssumption, RogueEndsKeeps
<1>6. CASE \E e \in Rogue : \E n \in 1..MaxFrames, m \in Messages \cup {Hello, Broken} :
             RogueWrites(e, n, m)
  <2>1. Messages \cup {Hello, Broken} = Received \cup {Broken}
    BY DEF Received
  <2> QED BY <1>6, <2>1, WireAssumption, RogueWritesKeeps
<1> QED BY <1>1, <1>2, <1>3, <1>4, <1>5, <1>6 DEF Next

\* In every reachable state, whatever is at the other end: what an end says of
\* the directions it sends in and receives is what their frames say, and its
\* queue and outstanding requests are what has been accepted and not yet taken
\* or answered.
THEOREM WireInvariant == Spec => []IInv
<1>1. IInv /\ [Next]_vars => IInv'
  BY NextKeeps
<1> QED BY InitEstablishes, <1>1, PTL DEF Spec

-----------------------------------------------------------------------------
(* What the invariant says *)

\* Two directions that tally with as many frames agree.
LEMMA TalliesAgree ==
  ASSUME NEW s, NEW n \in Nat, Readable(s, n),
         NEW d \in Directions, NEW x \in Directions, Tally(s, n, d), Tally(s, n, x)
  PROVE  Cleared(d) = Cleared(x)
<1>1. /\ d.sequence = x.sequence /\ d.edge = x.edge /\ d.fence = x.fence
      /\ (d.hello <=> n > 0) /\ (x.hello <=> n > 0)
      /\ Latest(s, n, "Progress", d.settled, 0) /\ Latest(s, n, "Progress", x.settled, 0)
      /\ Latest(s, n, "EmissionComplete", d.mark, -1)
      /\ Latest(s, n, "EmissionComplete", x.mark, -1)
  BY DEF Tally
<1>2. d.hello = x.hello
  <2>1. d.hello \in BOOLEAN /\ x.hello \in BOOLEAN
    BY DEF Directions
  <2> QED BY <1>1, <2>1
<1>3. /\ d.settled \in Times /\ x.settled \in Times
      /\ d.mark \in Times \cup {-1} /\ x.mark \in Times \cup {-1}
  BY DEF Directions
<1>4. ASSUME NEW type, NEW start \in Int, NEW a \in Int, NEW b \in Int, a >= start, b >= start,
             Latest(s, n, type, a, start), Latest(s, n, type, b, start)
      PROVE  a <= b
  <2>1. CASE a = start
    BY <1>4, <2>1
  <2>2. CASE \E j \in Earlier(s, n + 1, type) : s[j].message.at = a
    BY <1>4, <2>2 DEF Latest
  <2> QED BY <1>4, <2>1, <2>2 DEF Latest
<1>5. d.settled = x.settled
  <2>1. d.settled \in Int /\ x.settled \in Int /\ d.settled >= 0 /\ x.settled >= 0
    BY <1>3, Bounds DEF Times
  <2>2. d.settled <= x.settled /\ x.settled <= d.settled
    BY <1>1, <1>4, <2>1
  <2> QED BY <2>1, <2>2
<1>6. d.mark = x.mark
  <2>1. d.mark \in Int /\ x.mark \in Int /\ d.mark >= -1 /\ x.mark >= -1
    BY <1>3, Bounds DEF Times
  <2>2. d.mark <= x.mark /\ x.mark <= d.mark
    BY <1>1, <1>4, <2>1
  <2> QED BY <2>1, <2>2
<1>7. \A y, z \in Directions :
        /\ y.sequence = z.sequence /\ y.edge = z.edge /\ y.fence = z.fence /\ y.hello = z.hello
        /\ y.settled = z.settled /\ y.mark = z.mark /\ y.pending = z.pending /\ y.fences = z.fences
        => y = z
  BY DEF Directions
<1>8. LET y == Cleared(d)  z == Cleared(x)
      IN /\ y \in Directions /\ z \in Directions
         /\ y.sequence = d.sequence /\ y.edge = d.edge /\ y.fence = d.fence /\ y.hello = d.hello
         /\ y.settled = d.settled /\ y.mark = d.mark /\ y.pending = {} /\ y.fences = {}
         /\ z.sequence = x.sequence /\ z.edge = x.edge /\ z.fence = x.fence /\ z.hello = x.hello
         /\ z.settled = x.settled /\ z.mark = x.mark /\ z.pending = {} /\ z.fences = {}
  BY ClearedFields
<1> QED BY ZenonT(60), <1>1, <1>2, <1>5, <1>6, <1>7, <1>8

\* The invariant bounds what an end keeps.
LEMMA Typed == IInv => TypeOK
<1> SUFFICES ASSUME IInv
             PROVE  TypeOK
  OBVIOUS
<1>0. Shape /\ Positions /\ Limits
  BY DEF IInv
<1>1. ASSUME NEW e \in Ends, NEW d \in {out[e], inc[e]}
      PROVE  /\ d.sequence \in 0..MaxFrames /\ d.hello \in BOOLEAN /\ d.edge \in 0..MaxId
             /\ d.settled \in Times /\ d.mark \in Times \cup {-1}
             /\ Cardinality(d.pending) <= Capacity /\ Cardinality(d.fences) <= Capacity
  <2>1. d \in Directions
    BY <1>0 DEF Shape
  <2>2. d.sequence <= MaxFrames
    <3>1. /\ out[e].sequence <= Len(log[e]) /\ inc[e].sequence <= written[Other(e)]
          /\ written[Other(e)] <= Len(log[Other(e)])
          /\ Len(log[e]) <= MaxFrames /\ Len(log[Other(e)]) <= MaxFrames
      BY <1>0, Peers DEF Positions
    <3>2. /\ out[e].sequence \in Nat /\ inc[e].sequence \in Nat /\ written[Other(e)] \in Nat
          /\ Len(log[e]) \in Nat /\ Len(log[Other(e)]) \in Nat
      BY <1>0, EndShapes, Peers
    <3>3. out[e].sequence <= MaxFrames /\ inc[e].sequence <= MaxFrames
      BY <3>1, <3>2, Bounds
    <3> QED BY <3>3
  <2>3. d.sequence \in Nat /\ MaxFrames \in Nat
    BY <2>1, Bounds DEF Directions
  <2>4. Cardinality(d.pending) <= Capacity /\ Cardinality(d.fences) <= Capacity
    BY <1>0 DEF Limits
  <2> QED BY <2>1, <2>2, <2>3, <2>4 DEF Directions
<1>2. \A e \in Ends : Len(queue[e]) <= Capacity
  BY <1>0 DEF Positions
<1>3. \A e \in Ends : written[e] \in 0..Len(log[e])
  <2> SUFFICES ASSUME NEW e \in Ends
               PROVE  written[e] \in 0..Len(log[e])
    OBVIOUS
  <2>1. written[e] \in Nat /\ Len(log[e]) \in Nat /\ written[e] <= Len(log[e])
    BY <1>0, EndShapes DEF Positions
  <2> QED BY <2>1
<1> QED BY <1>0, <1>1, <1>2, <1>3 DEF TypeOK, Shape

\* The views of the two ends converge.
LEMMA Converges == IInv => ViewsConverge
<1> SUFFICES ASSUME IInv
             PROVE  ViewsConverge
  OBVIOUS
<1>0. Shape /\ Positions
  BY DEF IInv
<1> SUFFICES ASSUME NEW e \in Ends, Open(e), Open(Other(e))
             PROVE  /\ inc[Other(e)].pending \subseteq out[e].pending
                    /\ inc[Other(e)].fences \subseteq out[e].fences
                    /\ inc[Other(e)].sequence = out[e].sequence =>
                         Cleared(inc[Other(e)]) = Cleared(out[e])
  <2>1. TypeOK
    BY Typed
  <2>2. \A e \in Ends : inc[Other(e)].sequence <= written[e]
    BY <1>0, Peers DEF Positions
  <2> QED BY <2>1, <2>2 DEF ViewsConverge
<1> DEFINE f == Other(e)  s == log[e]  t == log[f]  n == inc[f].sequence  k == inc[e].sequence
<1>1. f \in Ends /\ Other(f) = e /\ e \notin Rogue /\ f \notin Rogue
  BY Peers DEF Open
<1>2. /\ n \in Nat /\ k \in Nat /\ Len(s) \in Nat /\ Len(t) \in Nat
      /\ n <= Len(s) /\ k <= Len(t) /\ out[e] \in Directions /\ inc[f] \in Directions
  <2>1. /\ n <= written[e] /\ written[e] <= Len(s) /\ k <= written[f] /\ written[f] <= Len(t)
        /\ n \in Nat /\ k \in Nat /\ Len(s) \in Nat /\ Len(t) \in Nat
        /\ written[e] \in Nat /\ written[f] \in Nat
        /\ out[e] \in Directions /\ inc[f] \in Directions
    BY <1>0, <1>1, EndShapes
  <2> HIDE DEF n, k, s, t, f
  <2> QED BY <2>1
<1>3. /\ Balanced(s, Len(s), out[e], t, k) /\ Balanced(s, n, inc[f], t, Len(t))
      /\ Tally(s, Len(s), out[e]) /\ Tally(s, n, inc[f])
  BY <1>1 DEF IInv, Views, Half
<1> HIDE DEF s, t, n, k, f
<1>4. ASSUME NEW b \in Books
      PROVE  Book(b, inc[f]) \subseteq Book(b, out[e])
  <2>1. /\ Book(b, out[e]) = Asked(b, s, Len(s)) \ Settled(b, t, k)
        /\ Book(b, inc[f]) = Asked(b, s, n) \ Settled(b, t, Len(t))
    BY <1>3 DEF Balanced
  <2>2. Asked(b, s, n) \subseteq Asked(b, s, Len(s)) /\ Settled(b, t, k) \subseteq Settled(b, t, Len(t))
    BY <1>2, BooksGrow
  <2> QED BY <2>1, <2>2
<1>5. inc[f].pending \subseteq out[e].pending
  <2>1. "edges" \in Books /\ Book("edges", inc[f]) = inc[f].pending
        /\ Book("edges", out[e]) = out[e].pending
    BY DEF Books, Book
  <2> QED BY <1>4, <2>1
<1>6. inc[f].fences \subseteq out[e].fences
  <2>1. "fences" \in Books /\ Book("fences", inc[f]) = inc[f].fences
        /\ Book("fences", out[e]) = out[e].fences
    BY DEF Books, Book
  <2> QED BY <1>4, <2>1
<1>7. ASSUME inc[f].sequence = out[e].sequence
      PROVE  Cleared(inc[f]) = Cleared(out[e])
  <2>1. n = Len(s)
    BY <1>3, <1>7 DEF Tally, n
  <2>2. Readable(s, n)
    BY <1>0, <1>2, LogReadable DEF s
  <2> QED BY <1>2, <1>3, <2>1, <2>2, TalliesAgree
<1> QED BY <1>5, <1>6, <1>7 DEF f

\* The fences of a tally have different numbers.
LEMMA FencesDiffer ==
  ASSUME NEW s, NEW n \in Nat, NEW d, Tally(s, n, d), NEW i \in 1..n, NEW j \in 1..n,
         s[i].message.type = "Fence", s[j].message.type = "Fence",
         s[i].message.id = s[j].message.id
  PROVE  i = j
<1>1. ASSUME NEW p \in 1..n, NEW q \in 1..n, p < q,
             s[p].message.type = "Fence", s[q].message.type = "Fence"
      PROVE  s[p].message.id # s[q].message.id
  <2>1. /\ s[p].message.id = Cardinality(Earlier(s, p, "Fence")) + 1
        /\ s[q].message.id = Cardinality(Earlier(s, q, "Fence")) + 1
    BY <1>1 DEF Tally, Ordered
  <2>2. q - 1 \in Nat /\ p \in 1..(q - 1) /\ (q - 1) + 1 = q /\ p \in Nat /\ q \in Nat
    BY <1>1
  <2>3. Cardinality(Earlier(s, p, s[p].message.type)) + 1
          <= Cardinality(Earlier(s, (q - 1) + 1, s[p].message.type))
    BY <2>2, Counted
  <2>4. Cardinality(Earlier(s, p, "Fence")) + 1 <= Cardinality(Earlier(s, q, "Fence"))
    BY <1>1, <2>2, <2>3
  <2>5. Cardinality(Earlier(s, p, "Fence")) \in Nat /\ Cardinality(Earlier(s, q, "Fence")) \in Nat
    BY <2>2, EarlierFinite
  <2> QED BY <2>1, <2>4, <2>5
<1>2. i < j \/ j < i \/ i = j
  OBVIOUS
<1> QED BY <1>1, <1>2

\* What an end has accepted is a legal conversation.
LEMMA Conversation == IInv => AcceptedIsLegal
<1> SUFFICES ASSUME IInv, NEW e \in Ends \ Rogue, NEW i \in DOMAIN Accepted(e)
             PROVE  LET s == Accepted(e)
                        m == s[i].message
                        new(type) == \A j \in Earlier(s, i, type) : m.id # s[j].message.id
                    IN /\ Ordered(s, i)
                       /\ m.type = "EdgeResponse" =>
                            Requested(e, "EdgeRequest", m) /\ new("EdgeResponse")
                       /\ m.type = "FenceAck" => Requested(e, "Fence", m) /\ new("FenceAck")
  BY DEF AcceptedIsLegal
<1> DEFINE f == Other(e)  l == log[f]  n == inc[e].sequence  t == log[e]  k == Len(t)
           s == Accepted(e)  m == s[i].message
<1>0. Shape /\ Positions /\ e \in Ends /\ f \in Ends
  BY Peers DEF IInv
<1>1. /\ n \in Nat /\ k \in Nat /\ Len(l) \in Nat /\ l \in Seq(Frames) /\ t \in Seq(Frames)
      /\ n <= Len(l)
  <2>1. /\ n <= written[f] /\ written[f] <= Len(l) /\ written[f] \in Nat
        /\ n \in Nat /\ k \in Nat /\ Len(l) \in Nat /\ l \in Seq(Frames) /\ t \in Seq(Frames)
    BY <1>0, EndShapes
  <2> HIDE DEF n, l, k, t, f
  <2> QED BY <2>1
<1>2. /\ Tally(l, n, inc[e]) /\ Answering(l, n, t, k)
  BY DEF IInv, Views, Half
<1>3. s = [j \in 1..n |-> l[j]]
  <2>1. s = SubSeq(l, 1, n)
    BY DEF Accepted
  <2> HIDE DEF s, l, n
  <2> QED BY <1>1, <2>1
<1>4. DOMAIN s = 1..n /\ Agree(l, s, n) /\ i \in 1..n
  <2>1. i \in DOMAIN s
    OBVIOUS
  <2> HIDE DEF s
  <2> QED BY <1>3, <2>1 DEF Agree
<1> HIDE DEF s, l, n, t, k, f
<1>5. Ordered(s, i)
  <2>1. Ordered(l, i)
    BY <1>2, <1>4 DEF Tally
  <2> QED BY <1>1, <1>4, <2>1, OrderedAgrees
<1>6. Answering(s, n, t, k)
  <2>1. Agree(t, t, k)
    BY DEF Agree
  <2> QED BY <1>1, <1>2, <1>4, <2>1, AnsweringAgrees
<1>7. DOMAIN t = 1..k
  BY <1>1 DEF k
<1>8. ASSUME m.type = "EdgeResponse"
      PROVE  /\ Requested(e, "EdgeRequest", m)
             /\ \A j \in Earlier(s, i, "EdgeResponse") : m.id # s[j].message.id
  <2>0. "edges" \in Books
    BY DEF Books
  <2>1. /\ Settled("edges", s, n) \subseteq Asked("edges", t, k)
        /\ \A j, q \in 1..n : j < q /\ Answers("edges", s[j].message) /\ Answers("edges", s[q].message)
             => Key("edges", s[j].message) # Key("edges", s[q].message)
    BY <1>6, <2>0 DEF Answering
  <2>2. Answers("edges", m) /\ Key("edges", m) = m.id
    BY <1>8 DEF Answers, Key
  <2>3. m.id \in Asked("edges", t, k)
    BY <1>4, <2>1, <2>2 DEF Settled
  <2>4. PICK q \in 1..k : t[q].message.type = "EdgeRequest" /\ t[q].message.id = m.id
    BY <2>3 DEF Asked, Asks, Key
  <2>5. Requested(e, "EdgeRequest", m)
    BY <1>7, <2>4 DEF Requested, t
  <2>6. ASSUME NEW j \in Earlier(s, i, "EdgeResponse")
        PROVE  m.id # s[j].message.id
    <3>1. j \in 1..n /\ j < i /\ s[j].message.type = "EdgeResponse"
      BY <1>1, <1>4 DEF Earlier
    <3>2. Answers("edges", s[j].message) /\ Key("edges", s[j].message) = s[j].message.id
      BY <3>1 DEF Answers, Key
    <3> QED BY <1>4, <2>1, <2>2, <3>1, <3>2
  <2> QED BY <2>5, <2>6
<1>9. ASSUME m.type = "FenceAck"
      PROVE  /\ Requested(e, "Fence", m)
             /\ \A j \in Earlier(s, i, "FenceAck") : m.id # s[j].message.id
  <2>0. "fences" \in Books
    BY DEF Books
  <2>1. /\ Settled("fences", s, n) \subseteq Asked("fences", t, k)
        /\ \A j, q \in 1..n :
             j < q /\ Answers("fences", s[j].message) /\ Answers("fences", s[q].message)
             => Key("fences", s[j].message) # Key("fences", s[q].message)
    BY <1>6, <2>0 DEF Answering
  <2>2. Answers("fences", m) /\ Key("fences", m) = <<m.id, m.through>>
    BY <1>9 DEF Answers, Key
  <2>3. <<m.id, m.through>> \in Asked("fences", t, k)
    BY <1>4, <2>1, <2>2 DEF Settled
  <2>4. PICK q \in 1..k : t[q].message.type = "Fence" /\ t[q].message.id = m.id
                          /\ t[q].message.through = m.through
    BY <2>3 DEF Asked, Asks, Key
  <2>5. Requested(e, "Fence", m)
    BY <1>7, <2>4 DEF Requested, t
  <2>6. ASSUME NEW j \in Earlier(s, i, "FenceAck"), m.id = s[j].message.id
        PROVE  FALSE
    <3>1. j \in 1..n /\ j < i /\ s[j].message.type = "FenceAck"
      BY <1>1, <1>4 DEF Earlier
    <3>2. Answers("fences", s[j].message)
          /\ Key("fences", s[j].message) = <<s[j].message.id, s[j].message.through>>
      BY <3>1 DEF Answers, Key
    <3>3. <<s[j].message.id, s[j].message.through>> \in Asked("fences", t, k)
      BY <2>1, <3>1, <3>2 DEF Settled
    <3>4. PICK p \in 1..k : t[p].message.type = "Fence" /\ t[p].message.id = s[j].message.id
                            /\ t[p].message.through = s[j].message.through
      BY <3>3 DEF Asked, Asks, Key
    <3>5. Tally(t, k, out[e])
      BY DEF IInv, Views, Half, t, k
    <3>6. p = q
      BY <1>1, <2>4, <2>6, <3>4, <3>5, FencesDiffer
    <3>7. Key("fences", s[j].message) = Key("fences", m)
      BY <2>2, <2>4, <2>6, <3>2, <3>4, <3>6
    <3> QED BY <1>4, <2>1, <2>2, <3>1, <3>2, <3>7
  <2> QED BY <2>5, <2>6
<1> QED BY <1>5, <1>8, <1>9 DEF s

\* Whatever is at the other end, what an end has accepted is a legal conversation.
THEOREM LegalConversation == Spec => []AcceptedIsLegal
BY WireInvariant, Conversation, PTL

\* Whatever is at the other end of either, the views of two open ends converge.
THEOREM ViewsOfBothConverge == Spec => []ViewsConverge
BY WireInvariant, Converges, PTL

\* Two channels never accuse each other of a protocol violation.
THEOREM ChannelsAreNotAccused ==
  ASSUME Rogue = {}
  PROVE  Spec => []NoFalseAccusation
<1>1. IInv => NoFalseAccusation
  BY DEF IInv, NoFalseAccusation
<1> QED BY WireInvariant, <1>1, PTL

-----------------------------------------------------------------------------
(* The wire is a FIFO link *)

SentOf(s) == [i \in 1..(Len(s) - 1) |-> s[i + 1].message]
Down == {e \in Ends : error[e] # "none"}

\* A log that moves by appending is a send, or no step if it was empty.
LEMMA LogGrows ==
  ASSUME NEW e \in Ends, log \in [Ends -> Seq(Frames)], log' \in [Ends -> Seq(Frames)],
         Agree(log[e], log'[e], Len(log[e])), Len(log[e]) < Len(log'[e]),
         \A f \in Ends : f # e => log'[f] = log[f],
         Len(log[e]) = 0 => Len(log'[e]) = 1,
         polled' = polled, error' = error, error[e] = "none"
  PROVE  Fifo!Next \/ UNCHANGED Fifo!vars
<1> DEFINE n == Len(log[e])  q == Len(log'[e])
           sent == [x \in Ends |-> SentOf(log[x])]
           sent2 == [x \in Ends |-> SentOf(log'[x])]
<1>1. n \in Nat /\ q \in Nat
  OBVIOUS
<1>2. \A x \in Ends : x # e => sent2[x] = sent[x]
  OBVIOUS
<1>3. CASE n = 0
  <2>1. SentOf(log[e]) = SentOf(log'[e])
    <3>0. q = 1
      BY <1>3
    <3> HIDE DEF n, q
    <3>1. 1..(n - 1) = {} /\ 1..(q - 1) = {}
      BY <1>3, <3>0
    <3> QED BY <3>1 DEF SentOf, n, q
  <2>2. sent2 = sent
    BY <1>2, <2>1
  <2> QED BY <2>2 DEF Fifo!vars, SentOf
<1>4. CASE n > 0
  <2> DEFINE a == SentOf(log[e])  b == SentOf(log'[e])
  <2>1. /\ n - 1 \in Nat /\ q - 1 \in Nat /\ n - 1 < q - 1
        /\ \A i \in 1..(n - 1) : i + 1 \in 1..n
    BY <1>1, <1>4
  <2>2. /\ Len(a) = n - 1 /\ Len(b) = q - 1
        /\ a \in Seq(Received \cup {Broken}) /\ b \in Seq(Received \cup {Broken})
    <3>0. ASSUME NEW s \in Seq(Frames), NEW i \in 1..Len(s)
          PROVE  s[i].message \in Received \cup {Broken}
      <4>1. s[i] \in Frames
        OBVIOUS
      <4> QED BY <4>1 DEF Frames
    <3>1. /\ \A i \in 1..n : log[e][i].message \in Received \cup {Broken}
          /\ \A i \in 1..q : log'[e][i].message \in Received \cup {Broken}
      BY <3>0
    <3>2. \A i \in 1..(q - 1) : i + 1 \in 1..q
      <4> HIDE DEF q
      <4> QED BY <1>1
    <3>3. a \in [1..(n - 1) -> Received \cup {Broken}]
      BY <2>1, <3>1 DEF SentOf
    <3>4. b \in [1..(q - 1) -> Received \cup {Broken}]
      BY <3>1, <3>2 DEF SentOf
    <3> HIDE DEF a, b, n, q
    <3>5. ASSUME NEW M, NEW k \in Nat, NEW g \in [1..k -> M]
          PROVE  g \in Seq(M) /\ Len(g) = k
      OBVIOUS
    <3>6. a \in Seq(Received \cup {Broken}) /\ Len(a) = n - 1
      <4>1. n - 1 \in Nat
        BY <2>1
      <4> QED BY ONLY <3>3, <3>5, <4>1, ZenonT(60)
    <3>7. b \in Seq(Received \cup {Broken}) /\ Len(b) = q - 1
      <4>1. q - 1 \in Nat
        BY <2>1
      <4> QED BY ONLY <3>4, <3>5, <4>1, ZenonT(60)
    <3> QED BY <3>6, <3>7
  <2>3. \A i \in 1..(n - 1) : a[i] = b[i]
    <3> SUFFICES ASSUME NEW i \in 1..(n - 1)
                 PROVE  a[i] = b[i]
      OBVIOUS
    <3>1. log[e][i + 1] = log'[e][i + 1]
      BY <2>1 DEF Agree
    <3>2. i \in 1..(q - 1)
      BY <2>1
    <3> QED BY <3>1, <3>2 DEF SentOf
  <2>4. a # b
    BY <2>1, <2>2
  <2>5. SubSeq(b, 1, Len(a)) = SubSeq(a, 1, Len(a))
    <3> HIDE DEF a, b
    <3>1. SubSeq(b, 1, n - 1) = [i \in 1..(n - 1) |-> b[i]]
      BY <2>1, <2>2
    <3>2. SubSeq(a, 1, n - 1) = [i \in 1..(n - 1) |-> a[i]]
      BY <2>1, <2>2
    <3> QED BY <2>2, <2>3, <3>1, <3>2
  <2>6. sent2 = [sent EXCEPT ![e] = sent2[e]]
    BY <1>2
  <2>7. Len(a) <= Len(b)
    BY <2>1, <2>2
  <2> HIDE DEF n, q
  <2>8. sent[e] = a /\ sent2[e] = b
    OBVIOUS
  <2> HIDE DEF a, b
  <2>9. Fifo!IsStrictPrefix(a, b)
    BY <2>4, <2>5, <2>7 DEF Fifo!IsStrictPrefix, Fifo!IsPrefix
  <2>10. Fifo!IsStrictPrefix(sent[e], sent2[e])
    BY <2>8, <2>9
  <2>11. Fifo!Send(e)
    BY <2>6, <2>10 DEF Fifo!Send, SentOf
  <2> QED BY <2>11 DEF Fifo!Next
<1> QED BY <1>1, <1>3, <1>4

\* An end that is told is a failure of the link.
LEMMA ErrorFails ==
  ASSUME NEW e \in Ends, error'[e] # "none", \A f \in Ends : f # e => error'[f] = error[f],
         log' = log, polled' = polled
  PROVE  Fifo!Next
<1> DEFINE down == {x \in Ends : error[x] # "none"}
           down2 == {x \in Ends : error'[x] # "none"}
<1>1. down2 = down \cup {e}
  <2>1. ASSUME NEW x \in Ends
        PROVE  error'[x] # "none" <=> error[x] # "none" \/ x = e
    OBVIOUS
  <2> QED BY <2>1
<1>2. Fifo!Fail(e)
  BY <1>1 DEF Fifo!Fail
<1> QED BY <1>2 DEF Fifo!Next

\* A step that shows neither owner anything is no step of the link.
LEMMA NothingShown ==
  ASSUME log' = log, polled' = polled, error' = error
  PROVE  UNCHANGED Fifo!vars
BY DEF Fifo!vars

\* Ending a channel is a failure of the link.
LEMMA TerminateFails ==
  ASSUME IInv, NEW e \in Ends, NEW why \in Whys, Terminate(e, why), log' = log, polled' = polled
  PROVE  Fifo!Next
<1>1. error'[e] # "none" /\ \A f \in Ends : f # e => error'[f] = error[f]
  BY TerminateFields DEF IInv
<1> QED BY <1>1, ErrorFails

\* What the owner takes is the next message of the other end.
LEMMA PollReceives ==
  ASSUME IInv, NEW e \in Ends, Poll(e)
  PROVE  Fifo!Next
<1> DEFINE f == Other(e)  c == polled[e].count  n == inc[e].sequence
<1>1. /\ Open(e) /\ e \notin Rogue /\ error[e] = "none" /\ queue[e] # <<>>
      /\ polled' = [polled EXCEPT ![e] = [count |-> polled[e].count + 1, last |-> Head(queue[e])]]
      /\ log' = log /\ error' = error
  BY DEF Poll, Open
<1>2. /\ f \in Ends /\ f # e /\ n \in Nat /\ n <= Len(log[f]) /\ Len(log[f]) \in Nat
      /\ queue[e] \in Seq(Messages) /\ Len(queue[e]) \in Nat
  <2>1. /\ f \in Ends /\ f # e /\ n \in Nat /\ n <= written[f] /\ written[f] <= Len(log[f])
        /\ written[f] \in Nat
        /\ Len(log[f]) \in Nat /\ queue[e] \in Seq(Messages) /\ Len(queue[e]) \in Nat
    BY EndShapes, Peers DEF IInv
  <2> HIDE DEF f, n
  <2> QED BY <2>1
<1>3. Len(queue[e]) > 0 /\ Head(queue[e]) = queue[e][1] /\ 1 \in DOMAIN queue[e]
  BY <1>1, <1>2
<1>4. c \in Nat /\ polled \in [Ends -> [count : Nat, last : Received]]
  BY DEF IInv, Shape
<1>5. /\ c + Len(queue[e]) = IF n = 0 THEN 0 ELSE n - 1
      /\ queue[e][1] = log[f][c + 1 + 1].message
  BY <1>1, <1>3 DEF IInv, Queued
<1> HIDE DEF c, n, f
<1>6. c + 1 \in 1..(Len(log[f]) - 1) /\ c < Len(log[f]) - 1
  <2>1. n # 0
    BY <1>2, <1>3, <1>4, <1>5
  <2>2. c + Len(queue[e]) = n - 1
    BY <1>5, <2>1
  <2> QED BY <1>2, <1>3, <1>4, <2>2
<1> DEFINE sent == [x \in Ends |-> [i \in 1..(Len(log[x]) - 1) |-> log[x][i + 1].message]]
           got == [x \in Ends |-> polled[x].count]
           got2 == [x \in Ends |-> polled'[x].count]
           last == [x \in Ends |-> polled[x].last]
           last2 == [x \in Ends |-> polled'[x].last]
           down == {x \in Ends : error[x] # "none"}
<1>7. Len(sent[f]) = Len(log[f]) - 1 /\ sent[f][c + 1] = log[f][c + 1 + 1].message
  <2>1. sent[f] = [i \in 1..(Len(log[f]) - 1) |-> log[f][i + 1].message]
    BY <1>2
  <2>2. Len(log[f]) - 1 \in Nat
    BY <1>2, <1>4, <1>6
  <2> HIDE DEF sent
  <2> QED BY <1>6, <2>1, <2>2
<1>8. got[e] = c /\ e \notin down /\ e # f
  BY <1>1, <1>2 DEF c
<1>9. /\ polled'[e].count = c + 1 /\ polled'[e].last = Head(queue[e])
      /\ \A x \in Ends : x # e => polled'[x] = polled[x]
  BY <1>1, <1>4 DEF c
<1>10. got2 = [got EXCEPT ![e] = got[e] + 1]
  BY <1>8, <1>9
<1>11. last2 = [last EXCEPT ![e] = sent[f][got[e] + 1]]
  <2>1. sent[f][got[e] + 1] = Head(queue[e])
    BY <1>3, <1>5, <1>7, <1>8
  <2> HIDE DEF sent, got
  <2> QED BY <1>9, <2>1
<1>12. got[e] < Len(sent[f])
  BY <1>6, <1>7, <1>8
<1>13. UNCHANGED <<sent, down>>
  BY <1>1
<1>14. Fifo!Receive(e, f)
  BY <1>8, <1>10, <1>11, <1>12, <1>13 DEF Fifo!Receive
<1> QED BY <1>2, <1>14 DEF Fifo!Next

\* An end that is open admits its first frame alone.
LEMMA AdmissionSends ==
  ASSUME IInv, NEW e \in Ends, e \notin Rogue, Open(e),
         NEW ms \in Seq(Received), Len(ms) > 0, Enlog(e, ms),
         Len(log[e]) = 0 => Len(ms) = 1,
         polled' = polled, error' = error
  PROVE  Fifo!Next \/ UNCHANGED Fifo!vars
<1>1. /\ log' \in [Ends -> Seq(Frames)] /\ \A f \in Ends : f # e => log'[f] = log[f]
      /\ Len(log[e]) \in Nat /\ Len(ms) \in Nat /\ Len(log'[e]) = Len(log[e]) + Len(ms)
      /\ Agree(log[e], log'[e], Len(log[e]))
  BY EnlogShape DEF IInv
<1>2. log \in [Ends -> Seq(Frames)] /\ error[e] = "none"
  BY DEF IInv, Shape, Open
<1>3. Len(log[e]) < Len(log'[e]) /\ (Len(log[e]) = 0 => Len(log'[e]) = 1)
  <2>1. \A a, b \in Nat : b > 0 => a < a + b /\ (a = 0 /\ b = 1 => a + b = 1)
    OBVIOUS
  <2>2. /\ Len(log[e]) < Len(log[e]) + Len(ms)
        /\ Len(log[e]) = 0 /\ Len(ms) = 1 => Len(log[e]) + Len(ms) = 1
    BY <1>1, <2>1
  <2> QED BY <1>1, <2>2
<1> QED BY <1>1, <1>2, <1>3, LogGrows

\* Every step of the wire is a step of a FIFO link, or none.
LEMMA StepImplements ==
  ASSUME IInv, Next
  PROVE  Fifo!Next \/ UNCHANGED Fifo!vars
<1>0. Shape /\ Positions
  BY DEF IInv
<1>1. ASSUME NEW e \in Ends, Reader(e)
      PROVE  Fifo!Next \/ UNCHANGED Fifo!vars
  <2>1. CASE ReceiveFrame(e)
    BY <2>1, NothingShown DEF ReceiveFrame
  <2>2. CASE AcceptFrame(e)
    <3>1. /\ log' = log /\ polled' = polled
          /\ error' = error \/ \E why \in Whys : Terminate(e, why)
      BY <2>2 DEF AcceptFrame, Whys
    <3> QED BY <3>1, NothingShown, TerminateFails
  <2>3. CASE ReadEnds(e)
    <3>1. log' = log /\ polled' = polled /\ Terminate(e, "closed") /\ "closed" \in Whys
      BY <2>3 DEF ReadEnds, Whys
    <3> QED BY <3>1, TerminateFails
  <2> QED BY <1>1, <2>1, <2>2, <2>3 DEF Reader
<1>2. ASSUME NEW e \in Ends, Writer(e)
      PROVE  Fifo!Next \/ UNCHANGED Fifo!vars
  <2>1. CASE WriteFrame(e) \/ SendReturns(e)
    BY <2>1, NothingShown DEF WriteFrame, SendReturns
  <2>2. CASE SendAborted(e)
    <3>1. log' = log /\ polled' = polled /\ Terminate(e, "closed") /\ "closed" \in Whys
      BY <2>2 DEF SendAborted, Whys
    <3> QED BY <3>1, TerminateFails
  <2> QED BY <1>2, <2>1, <2>2 DEF Writer
<1>3. ASSUME NEW e \in Ends, NEW m \in Received, Admit(e, m)
      PROVE  Fifo!Next \/ UNCHANGED Fifo!vars
  <2>1. /\ e \notin Rogue /\ Open(e) /\ Enlog(e, <<m>>) /\ polled' = polled /\ error' = error
    BY <1>3 DEF Admit, Open
  <2>2. <<m>> \in Seq(Received) /\ Len(<<m>>) = 1 /\ Len(<<m>>) > 0
    OBVIOUS
  <2> QED BY <2>1, <2>2, AdmissionSends
<1>4. ASSUME NEW e \in Ends, NEW at \in Times, AdmitPair(e, at)
      PROVE  Fifo!Next \/ UNCHANGED Fifo!vars
  <2> DEFINE complete == EmissionComplete(at, out[e].edge)
             ms == <<complete, Progress(at)>>
  <2>1. /\ e \notin Rogue /\ Open(e) /\ Enlog(e, ms) /\ polled' = polled /\ error' = error
        /\ Legal(e, complete, out[e], inc[e])
    BY <1>4 DEF AdmitPair, Open
  <2>2. complete \in Received /\ Progress(at) \in Received
    <3>1. out[e] \in Directions
      BY <1>0, EndShapes
    <3>2. out[e].edge \in Ids \cup {0}
      BY <3>1, Bounds DEF Directions, Ids
    <3> QED BY <3>2 DEF Received, Messages
  <2>3. complete.type # "Hello"
    BY DEF EmissionComplete
  <2>4. Len(log[e]) # 0
    <3> HIDE DEF complete
    <3>1. out[e].hello
      BY <2>1, <2>2, <2>3, OnlyAfterHellos
    <3>2. Tally(log[e], Len(log[e]), out[e])
      BY <2>1 DEF IInv, Views, Half
    <3>3. Len(log[e]) > 0
      BY <3>1, <3>2 DEF Tally
    <3> QED BY <3>3
  <2> HIDE DEF complete
  <2>5. ms \in Seq(Received) /\ Len(ms) = 2 /\ Len(ms) > 0
    BY <2>2
  <2> QED BY <2>1, <2>4, <2>5, AdmissionSends
<1>5. ASSUME NEW e \in Ends, Owner(e)
      PROVE  Fifo!Next \/ UNCHANGED Fifo!vars
  <2>1. CASE \E m \in Messages \cup {Hello} : Admit(e, m)
    BY <1>3, <2>1 DEF Received
  <2>2. CASE \E at \in Times : AdmitPair(e, at)
    BY <1>4, <2>2
  <2>3. CASE Poll(e)
    BY <2>3, PollReceives
  <2> QED BY <1>5, <2>1, <2>2, <2>3 DEF Owner
<1>6. ASSUME NEW e \in Ends, ReadExpires(e) \/ \E why \in {"deadline", "cancelled"} : SendFails(e, why)
      PROVE  Fifo!Next \/ UNCHANGED Fifo!vars
  <2>1. PICK why \in Whys : log' = log /\ polled' = polled /\ Terminate(e, why)
    BY <1>6 DEF ReadExpires, SendFails, Whys
  <2> QED BY <2>1, TerminateFails
<1>7. ASSUME NEW e \in Ends, Close(e)
      PROVE  Fifo!Next \/ UNCHANGED Fifo!vars
  <2>1. log' = log /\ polled' = polled /\ Terminate(e, "closed") /\ "closed" \in Whys
    BY <1>7 DEF Close, Whys
  <2> QED BY <2>1, TerminateFails
<1>8. ASSUME NEW e \in Ends, RogueEnds(e)
      PROVE  Fifo!Next \/ UNCHANGED Fifo!vars
  <2>1. log' = log /\ polled' = polled /\ error' = [error EXCEPT ![e] = "closed"]
    BY <1>8 DEF RogueEnds
  <2>2. error'[e] # "none" /\ \A f \in Ends : f # e => error'[f] = error[f]
    BY <1>0, <2>1 DEF Shape
  <2> QED BY <2>1, <2>2, ErrorFails
<1>9. ASSUME NEW e \in Ends, NEW n \in 1..MaxFrames, NEW m \in Messages \cup {Hello, Broken},
             RogueWrites(e, n, m)
      PROVE  Fifo!Next \/ UNCHANGED Fifo!vars
  <2>1. /\ log' = [log EXCEPT ![e] = Append(log[e], Frame(n, m))]
        /\ polled' = polled /\ error' = error /\ error[e] = "none"
    BY <1>9 DEF RogueWrites
  <2>2. log \in [Ends -> Seq(Frames)] /\ log[e] \in Seq(Frames) /\ Len(log[e]) \in Nat
    BY <1>0 DEF Shape
  <2>3. Frame(n, m) \in Frames
    BY Bounds DEF Frame, Frames, Received
  <2>4. /\ Append(log[e], Frame(n, m)) \in Seq(Frames)
        /\ Len(Append(log[e], Frame(n, m))) = Len(log[e]) + 1
        /\ Agree(log[e], Append(log[e], Frame(n, m)), Len(log[e]))
    BY <2>2, <2>3 DEF Agree
  <2>5. /\ log' \in [Ends -> Seq(Frames)] /\ Len(log'[e]) = Len(log[e]) + 1
        /\ Agree(log[e], log'[e], Len(log[e]))
        /\ \A f \in Ends : f # e => log'[f] = log[f]
    BY <2>1, <2>2, <2>4
  <2>6. Len(log[e]) < Len(log'[e]) /\ (Len(log[e]) = 0 => Len(log'[e]) = 1)
    BY <2>2, <2>5
  <2> QED BY <2>1, <2>2, <2>5, <2>6, LogGrows
<1> QED BY <1>1, <1>2, <1>5, <1>6, <1>7, <1>8, <1>9, WireAssumption DEF Next

\* Whatever is at the other end, each owner takes exactly what the other end sent,
\* in order, and nothing once it has been told that the link is down.
THEOREM WireIsFifo == Spec => ImplementsFifo
<1>1. Init => Fifo!Init
  <2> SUFFICES ASSUME Init
               PROVE  Fifo!Init
    OBVIOUS
  <2>1. /\ error = [e \in Ends |-> "none"] /\ log = [e \in Ends |-> <<>>]
        /\ polled = [e \in Ends |-> [count |-> 0, last |-> Hello]]
    BY DEF Init
  <2>2. [i \in 1..(Len(<<>>) - 1) |-> (<<>>)[i + 1].message] = <<>>
    <3>1. Len(<<>>) - 1 = -1 /\ 1..(-1) = {}
      OBVIOUS
    <3> QED BY <3>1
  <2>3. [e \in Ends |-> [i \in 1..(Len(log[e]) - 1) |-> log[e][i + 1].message]]
          = [e \in Ends |-> <<>>]
    BY <2>1, <2>2
  <2>4. /\ [e \in Ends |-> polled[e].count] = [e \in Ends |-> 0]
        /\ [e \in Ends |-> polled[e].last] = [e \in Ends |-> Hello]
        /\ {e \in Ends : error[e] # "none"} = {}
    BY <2>1
  <2> QED BY <2>3, <2>4 DEF Fifo!Init
<1>2. IInv /\ [Next]_vars => [Fifo!Next]_(Fifo!vars)
  <2>1. UNCHANGED vars => UNCHANGED Fifo!vars
    BY NothingShown DEF vars
  <2> QED BY <2>1, StepImplements
<1> QED BY WireInvariant, <1>1, <1>2, PTL DEF Spec, ImplementsFifo, Fifo!Spec

=============================================================================
