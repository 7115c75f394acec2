---------------------- MODULE EmulatorSessionsProofs ----------------------
(***************************************************************************)
(* Proofs about EmulatorSessions for every set of threads and emulators,   *)
(* every depth of nesting and every number of attempts.                    *)
(***************************************************************************)
EXTENDS EmulatorSessions, WellFoundedInduction, SequenceTheorems, TLAPS

-----------------------------------------------------------------------------
(* The inductive invariant *)

Closing == {"defer", "lock", "hooks", "launch", "await", "wait"}

(* A thread that closes follows an attempt that exists, and one that       *)
(* enters a scope has its frame.                                           *)
Followed ==
  /\ \A t \in Threads : pc[t] \in Closing =>
       /\ target[t] \in Emulators \X Nat
       /\ target[t][2] \in DOMAIN attempts[target[t][1]]
  /\ \A t \in Threads : pc[t] = "enter" => frames[t] # <<>>

(* A lock is held by the thread that is in the emulator or closes its      *)
(* hooks, or by its stop worker; a close waits in order.                   *)
LocksHeld ==
  /\ \A t \in Threads : \A s \in Held(t) : lock[s] = t
  /\ \A t \in Threads, s \in Emulators : lock[s] = t =>
       s \in Held(t) \/ (pc[t] = "hooks" /\ target[t][1] = s)
  /\ \A t \in Threads : pc[t] = "hooks" => lock[target[t][1]] = t
  /\ \A t \in Threads : pc[t] \in {"lock", "hooks"} => MayWait(t, target[t][1])
  /\ \A s \in Emulators : Stopping(s) # {} => lock[s] = Worker(s)

(* The one attempt that can still change is the session's current one: it  *)
(* belongs to its worker or to the close that made it.                     *)
WorkerOwned == \A s \in Emulators :
  /\ \A a \in DOMAIN attempts[s] : attempts[s][a].worker # "none" => running[s] = a
  /\ running[s] # 0 =>
       /\ running[s] \in DOMAIN attempts[s] /\ running[s] = current[s]
       /\ ~attempts[s][running[s]].done /\ owner[s] = Free /\ ~stopped[s]
CloserOwned ==
  /\ \A t \in Threads : pc[t] \in {"lock", "hooks", "launch"} => owner[target[t][1]] = t
  /\ \A s \in Emulators : owner[s] # Free =>
       /\ pc[owner[s]] \in {"lock", "hooks", "launch", "defer"}
       /\ target[owner[s]] = <<s, current[s]>>
       /\ running[s] = 0 /\ current[s] \in DOMAIN attempts[s]
       /\ ~attempts[s][current[s]].done /\ ~stopped[s]
  /\ \A t \in Threads : pc[t] = "await" =>
       LET s == target[t][1]
           a == target[t][2]
       IN attempts[s][a].done \/ running[s] = a

(* An attempt that stopped the emulator is the only one that did. *)
Results ==
  /\ \A s \in Emulators : current[s] # 0 => current[s] \in DOMAIN attempts[s]
  /\ \A s \in Emulators : \A a \in DOMAIN attempts[s] : attempts[s][a].stopped =>
       stopped[s] /\ attempts[s][a].done
  /\ \A s \in Emulators : \A a, b \in DOMAIN attempts[s] :
       attempts[s][a].stopped /\ attempts[s][b].stopped => a = b
  /\ \A t \in Threads : returned[t] # <<>> /\ returned[t][2] # 0 =>
       returned[t][2] \in DOMAIN attempts[returned[t][1]]
  /\ CloseTellsTheTruth

IInv == TypeOK /\ Followed /\ LocksHeld /\ WorkerOwned /\ CloserOwned /\ Results

-----------------------------------------------------------------------------
(* Scopes as sequences of sets *)

\* A new scope adds nothing a thread is in.
LEMMA InAppend ==
  ASSUME NEW f \in Seq(SUBSET Emulators)
  PROVE  Append(f, {}) \in Seq(SUBSET Emulators) /\ In(Append(f, {})) = In(f)
<1> DEFINE g == Append(f, {})
<1>1. /\ g \in Seq(SUBSET Emulators) /\ DOMAIN g = 1..Len(f) + 1 /\ DOMAIN f = 1..Len(f)
      /\ Len(f) \in Nat /\ \A k \in 1..Len(f) : g[k] = f[k]
      /\ g[Len(f) + 1] = {}
  OBVIOUS
<1> HIDE DEF g
<1>2. \A x : x \in In(g) <=> \E k \in 1..Len(f) + 1 : x \in g[k]
  BY <1>1 DEF In
<1>3. \A x : x \in In(f) <=> \E k \in 1..Len(f) : x \in f[k]
  BY <1>1 DEF In
<1>4. \A x : x \in In(g) <=> x \in In(f)
  <2> SUFFICES ASSUME NEW x PROVE x \in In(g) <=> x \in In(f)
    OBVIOUS
  <2>1. ASSUME x \in In(g) PROVE x \in In(f)
    <3>1. PICK k \in 1..Len(f) + 1 : x \in g[k]
      BY <2>1, <1>2
    <3>2. k # Len(f) + 1
      BY <3>1, <1>1
    <3>3. k \in 1..Len(f)
      BY <3>2, <1>1
    <3> QED BY <3>1, <3>3, <1>1, <1>3
  <2>2. ASSUME x \in In(f) PROVE x \in In(g)
    <3>1. PICK k \in 1..Len(f) : x \in f[k]
      BY <2>2, <1>3
    <3>2. k \in 1..Len(f) + 1
      BY <1>1
    <3> QED BY <3>1, <3>2, <1>1, <1>2
  <2> QED BY <2>1, <2>2
<1> QED BY <1>1, <1>4 DEF g

\* Taking a lock adds it to the innermost scope.
LEMMA InLast ==
  ASSUME NEW f \in Seq(SUBSET Emulators), f # <<>>, NEW e \in Emulators
  PROVE  LET g == [f EXCEPT ![Len(f)] = @ \cup {e}]
         IN g \in Seq(SUBSET Emulators) /\ g # <<>> /\ In(g) = In(f) \cup {e}
<1> DEFINE n == Len(f)
           g == [f EXCEPT ![n] = @ \cup {e}]
<1>1. n \in Nat \ {0} /\ DOMAIN f = 1..n /\ f[n] \in SUBSET Emulators
  BY EmptySeq, LenProperties, ElementOfSeq
<1>2. g \in Seq(SUBSET Emulators) /\ Len(g) = n /\ DOMAIN g = 1..n
  BY <1>1, ExceptSeq
<1>3. g[n] = f[n] \cup {e} /\ \A k \in 1..n : k # n => g[k] = f[k]
  <2>1. n \in DOMAIN f
    BY <1>1
  <2> QED BY <2>1, <1>1
<1> HIDE DEF g, n
<1>4. \A x : x \in In(g) <=> \E k \in 1..n : x \in g[k]
  BY <1>2 DEF In
<1>5. \A x : x \in In(f) <=> \E k \in 1..n : x \in f[k]
  BY <1>1 DEF In
<1>6. n \in 1..n
  BY <1>1
<1>7. \A x : x \in In(g) <=> x \in In(f) \/ x = e
  BY <1>3, <1>4, <1>5, <1>6
<1>8. In(g) = In(f) \cup {e}
  BY <1>7
<1>9. g # <<>>
  BY <1>1, <1>2
<1> QED BY <1>2, <1>8, <1>9 DEF g, n

\* The outer scopes hold no more than all of them.
LEMMA InOuter ==
  ASSUME NEW f \in Seq(SUBSET Emulators), f # <<>>
  PROVE  LET g == SubSeq(f, 1, Len(f) - 1)
         IN g \in Seq(SUBSET Emulators) /\ In(g) \subseteq In(f)
<1> DEFINE n == Len(f)
           g == SubSeq(f, 1, n - 1)
<1>1. n \in Nat \ {0} /\ DOMAIN f = 1..n /\ \A k \in 1..n : f[k] \in SUBSET Emulators
  BY EmptySeq, LenProperties, ElementOfSeq
<1>2. /\ g \in Seq(SUBSET Emulators) /\ Len(g) = n - 1
      /\ \A k \in 1..n - 1 : g[k] = f[k]
  BY <1>1
<1>3. DOMAIN g = 1..n - 1
  BY <1>2
<1> HIDE DEF g
<1>4. \A x : x \in In(g) => x \in In(f)
  <2> SUFFICES ASSUME NEW x \in In(g) PROVE x \in In(f)
    OBVIOUS
  <2>1. PICK k \in 1..n - 1 : x \in g[k]
    BY <1>3 DEF In
  <2>2. k \in 1..n
    BY <1>1
  <2> QED BY <2>1, <2>2, <1>1, <1>2 DEF In
<1> QED BY <1>2, <1>4 DEF g

\* What a thread is in is a set of emulators.
LEMMA HeldType ==
  ASSUME TypeOK, NEW t \in Threads
  PROVE  Held(t) \subseteq Emulators /\ In(<<>>) = {}
BY DEF TypeOK, Held, In

\* A set of numbers has a smallest one.
LEMMA Smallest ==
  ASSUME NEW S \in SUBSET Nat, S # {}
  PROVE  \E e \in S : \A f \in S : e <= f
<1>1. PICK e \in S : \A f \in S : <<f, e>> \notin OpToRel(<, Nat)
  BY WFMin, NatLessThanWellFounded, Zenon
<1>2. \A f \in S : ~(f < e)
  BY <1>1, Zenon DEF OpToRel
<1> QED BY <1>2

\* The lock a thread takes next is one it wants.
LEMMA FirstWanted ==
  ASSUME NEW es \in SUBSET Emulators, es # {}
  PROVE  First(es) \in es
<1>1. es \in SUBSET Nat
  BY EmulatorsAssumption
<1> QED BY <1>1, Smallest DEF First

-----------------------------------------------------------------------------
(* Attempts as sequences of records *)

\* Rewriting one attempt leaves all others as they are.
LEMMA Rewritten ==
  ASSUME TypeOK, NEW s \in Emulators, NEW a \in DOMAIN attempts[s], NEW r \in AttemptRecords,
         attempts' = [attempts EXCEPT ![s][a] = r]
  PROVE  /\ attempts' \in [Emulators -> Seq(AttemptRecords)]
         /\ \A q \in Emulators : DOMAIN attempts'[q] = DOMAIN attempts[q]
         /\ attempts'[s][a] = r
         /\ \A q \in Emulators : \A b \in DOMAIN attempts[q] :
              (q # s \/ b # a) => attempts'[q][b] = attempts[q][b]
<1>1. attempts[s] \in Seq(AttemptRecords) /\ a \in 1..Len(attempts[s])
  BY DEF TypeOK
<1>2. [attempts[s] EXCEPT ![a] = r] \in Seq(AttemptRecords)
  BY <1>1, ExceptSeq
<1>3. attempts' = [attempts EXCEPT ![s] = [attempts[s] EXCEPT ![a] = r]]
  BY DEF TypeOK
<1>4. attempts' \in [Emulators -> Seq(AttemptRecords)]
  BY <1>2, <1>3 DEF TypeOK
<1>5. attempts'[s] = [attempts[s] EXCEPT ![a] = r] /\ \A q \in Emulators \ {s} : attempts'[q] = attempts[q]
  BY <1>3 DEF TypeOK
<1> QED BY <1>1, <1>4, <1>5

\* A new attempt leaves all others as they are.
LEMMA Appended ==
  ASSUME TypeOK, NEW s \in Emulators, NEW r \in AttemptRecords,
         attempts' = [attempts EXCEPT ![s] = Append(@, r)]
  PROVE  LET n == Len(attempts[s]) + 1
         IN /\ attempts' \in [Emulators -> Seq(AttemptRecords)]
            /\ n \in Nat \ {0} /\ n \notin DOMAIN attempts[s]
            /\ DOMAIN attempts'[s] = DOMAIN attempts[s] \cup {n} /\ attempts'[s][n] = r
            /\ \A q \in Emulators \ {s} : attempts'[q] = attempts[q]
            /\ \A b \in DOMAIN attempts[s] : attempts'[s][b] = attempts[s][b]
<1>1. attempts[s] \in Seq(AttemptRecords)
  BY DEF TypeOK
<1>2. attempts'[s] = Append(attempts[s], r) /\ \A q \in Emulators \ {s} : attempts'[q] = attempts[q]
  BY DEF TypeOK
<1>3. Append(attempts[s], r) \in Seq(AttemptRecords)
  BY <1>1
<1>4. attempts' \in [Emulators -> Seq(AttemptRecords)]
  BY <1>3 DEF TypeOK
<1>5. Len(attempts[s]) \in Nat /\ DOMAIN attempts[s] = 1..Len(attempts[s])
  BY <1>1
<1>6. /\ DOMAIN attempts'[s] = 1..Len(attempts[s]) + 1
      /\ attempts'[s][Len(attempts[s]) + 1] = r
      /\ \A b \in 1..Len(attempts[s]) : attempts'[s][b] = attempts[s][b]
  BY <1>1, <1>2
<1>7. 1..Len(attempts[s]) + 1 = 1..Len(attempts[s]) \cup {Len(attempts[s]) + 1}
  BY <1>5
<1> QED BY <1>2, <1>4, <1>5, <1>6, <1>7

\* Every attempt is a record of the three.
LEMMA AttemptType ==
  ASSUME TypeOK, NEW s \in Emulators, NEW a \in DOMAIN attempts[s]
  PROVE  attempts[s][a] \in AttemptRecords /\ a \in Nat \ {0}
<1>1. attempts[s] \in Seq(AttemptRecords)
  BY DEF TypeOK
<1>2. a \in 1..Len(attempts[s]) /\ Len(attempts[s]) \in Nat
  BY <1>1
<1> QED BY <1>1, <1>2, ElementOfSeq

-----------------------------------------------------------------------------
(* What the invariant gives *)

\* A lock that threads of a ring wait for is below every lock its holder
\* waits for, so no ring has a highest one.
LEMMA NoRingFollows ==
  ASSUME TypeOK, Followed, LocksHeld
  PROVE  NoRing
<1> SUFFICES ASSUME NEW C \in SUBSET Threads, C # {},
                    \A t \in C : \E e \in Awaits(t) : lock[e] \in C \ {t}
             PROVE  FALSE
  BY DEF NoRing
<1> DEFINE Chain == {e \in Emulators : \E t \in C : e \in Awaits(t) /\ lock[e] \in C \ {t}}
<1>1. ASSUME NEW t \in C, NEW e \in Awaits(t), lock[e] \in C \ {t}
      PROVE  /\ e \in Emulators /\ e \in Chain /\ pc[t] \in {"enter", "lock"}
             /\ e \notin Held(t) /\ \A h \in Held(t) : h < e
  <2>1. e \notin Held(t)
    BY <1>1 DEF LocksHeld
  <2>2. CASE pc[t] = "enter"
    <3>1. want[t] \in SUBSET Emulators
      BY DEF TypeOK
    <3>2. want[t] # {} /\ InOrder(t, First(want[t])) /\ e = First(want[t])
      BY <1>1, <2>2 DEF Awaits
    <3>3. e \in Emulators
      BY <3>1, <3>2, FirstWanted
    <3> QED BY <1>1, <2>1, <2>2, <3>2, <3>3 DEF InOrder
  <2>3. CASE pc[t] # "enter"
    <3>1. pc[t] = "lock" /\ e = target[t][1]
      BY <1>1, <2>3 DEF Awaits
    <3>2. MayWait(t, e)
      BY <3>1 DEF LocksHeld
    <3>3. e \in Emulators
      BY <3>1 DEF Followed, Closing
    <3> QED BY <1>1, <2>1, <3>1, <3>2, <3>3 DEF MayWait, InOrder
  <2> QED BY <2>2, <2>3
<1>2. Chain # {} /\ Chain \subseteq Emulators
  <2>1. PICK t \in C : TRUE
    OBVIOUS
  <2>2. PICK e \in Awaits(t) : lock[e] \in C \ {t}
    OBVIOUS
  <2> QED BY <2>2, <1>1
<1>3. PICK top \in Chain : \A e \in Chain : e <= top
  <2> DEFINE Depth == {MaxOrder - e : e \in Chain}
  <2>1. \A e \in Chain : e \in Nat /\ MaxOrder - e \in Nat
    BY <1>2, EmulatorsAssumption
  <2>2. Depth \in SUBSET Nat /\ Depth # {}
    BY <1>2, <2>1
  <2>3. PICK d \in Depth : \A f \in Depth : d <= f
    BY <2>2, Smallest
  <2>4. PICK e \in Chain : d = MaxOrder - e
    BY <2>3
  <2>5. \A f \in Chain : MaxOrder - e <= MaxOrder - f
    BY <2>3, <2>4
  <2>6. \A f \in Chain : f <= e
    BY <2>1, <2>5, EmulatorsAssumption
  <2> QED BY <2>6
<1>4. PICK t \in C : top \in Awaits(t) /\ lock[top] \in C \ {t}
  BY <1>3
<1>5. PICK e \in Awaits(lock[top]) : lock[e] \in C \ {lock[top]}
  BY <1>4
<1>6. e \in Chain /\ pc[lock[top]] \in {"enter", "lock"} /\ \A h \in Held(lock[top]) : h < e
  BY <1>1, <1>4, <1>5
<1>7. top \in Held(lock[top])
  <2>1. lock[top] \in Threads /\ top \in Emulators
    BY <1>3, <1>4
  <2> QED BY <1>6, <2>1 DEF LocksHeld
<1>8. top < e /\ e <= top
  BY <1>3, <1>6, <1>7
<1> QED BY <1>2, <1>3, <1>6, <1>8, EmulatorsAssumption

\* Two stops would both be the running one; one that worked has left the
\* session stopped, and no worker runs then.
LEMMA StopOnceFollows ==
  ASSUME TypeOK, LocksHeld, WorkerOwned, Results
  PROVE  StopOnce
<1>1. ASSUME NEW s \in Emulators, NEW a \in Stopping(s) \cup Worked(s),
             NEW b \in Stopping(s) \cup Worked(s)
      PROVE  a = b
  <2>1. /\ a \in DOMAIN attempts[s] /\ b \in DOMAIN attempts[s]
        /\ attempts[s][a].worker # "none" \/ attempts[s][a].stopped
        /\ attempts[s][b].worker # "none" \/ attempts[s][b].stopped
    BY <1>1 DEF Stopping, Worked
  <2>2. /\ attempts[s][a].worker # "none" => running[s] = a
        /\ attempts[s][b].worker # "none" => running[s] = b
    BY <2>1 DEF WorkerOwned
  <2>3. a # 0 /\ b # 0
    BY <2>1, AttemptType
  <2>4. running[s] # 0 => ~stopped[s]
    BY DEF WorkerOwned
  <2>5. /\ attempts[s][a].stopped \/ attempts[s][b].stopped => stopped[s]
        /\ attempts[s][a].stopped /\ attempts[s][b].stopped => a = b
    BY <2>1 DEF Results
  <2> QED BY <2>1, <2>2, <2>3, <2>4, <2>5
<1>2. ASSUME NEW s \in Emulators, Stopping(s) # {}, NEW t \in Threads
      PROVE  s \notin Held(t)
  <2>1. lock[s] = s
    BY <1>2 DEF LocksHeld, Worker
  <2> QED BY <2>1, NamesAssumption DEF LocksHeld
<1> QED BY <1>1, <1>2 DEF StopOnce

-----------------------------------------------------------------------------
(* What several actions have in common *)

Final == \A s \in Emulators : \A a \in DOMAIN attempts[s] :
  attempts[s][a].done => attempts'[s][a] = attempts[s][a]

\* The attempt a closing thread follows.
LEMMA Following ==
  ASSUME TypeOK, Followed, NEW t \in Threads, pc[t] \in Closing
  PROVE  /\ target[t][1] \in Emulators /\ target[t][2] \in Nat \ {0}
         /\ target[t] = <<target[t][1], target[t][2]>>
         /\ target[t][2] \in DOMAIN attempts[target[t][1]]
         /\ attempts[target[t][1]][target[t][2]] \in AttemptRecords
<1>1. target[t] \in Emulators \X Nat /\ target[t][2] \in DOMAIN attempts[target[t][1]]
  BY DEF Followed
<1> QED BY <1>1, AttemptType

\* While a thread enters or leaves scopes, no session changes.
LEMMA SessionsKept ==
  ASSUME IInv, TypeOK', NEW t \in Threads,
         pc[t] \in {"run", "enter"}, pc'[t] \in {"run", "enter"},
         \A u \in Threads \ {t} : pc'[u] = pc[u],
         UNCHANGED <<target, sessionVars>>,
         \A u \in Threads : returned'[u] = returned[u] \/ returned'[u] = <<>>
  PROVE  /\ WorkerOwned' /\ CloserOwned' /\ Results' /\ Final
         /\ \A u \in Threads : pc'[u] \in Closing =>
              /\ target'[u] \in Emulators \X Nat
              /\ target'[u][2] \in DOMAIN attempts'[target'[u][1]]
<1> USE DEF IInv, sessionVars
<1>1. WorkerOwned' /\ Final
  BY DEF WorkerOwned, Final
<1>2. CloserOwned'
  <2>1. \A s \in Emulators : owner[s] # Free => owner[s] # t /\ owner[s] \in Threads
    BY ZenonT(60) DEF CloserOwned, TypeOK
  <2> QED BY <2>1 DEF CloserOwned
<1>3. Results'
  BY DEF Results, CloseTellsTheTruth
<1>4. \A u \in Threads : pc'[u] \in Closing => u # t
  BY DEF Closing
<1> QED BY <1>1, <1>2, <1>3, <1>4 DEF Followed

\* A step that moves no lock and no scope keeps the holders, if a thread
\* that begins to wait may do so.
LEMMA LocksKept ==
  ASSUME LocksHeld, UNCHANGED <<frames, lock>>,
         \A u \in Threads : (pc'[u] = "hooks") <=> (pc[u] = "hooks"),
         \A u \in Threads : pc'[u] = "hooks" => target'[u] = target[u],
         \A u \in Threads : pc'[u] = "lock" =>
           (pc[u] = "lock" /\ target'[u] = target[u]) \/ MayWait(u, target'[u][1]),
         \A s \in Emulators : Stopping(s)' # {} => Stopping(s) # {}
  PROVE  LocksHeld'
<1>1. \A u \in Threads : Held(u)' = Held(u)
  BY DEF Held
<1>2. \A u \in Threads, s \in Emulators : lock'[s] = u =>
        s \in Held(u)' \/ (pc'[u] = "hooks" /\ target'[u][1] = s)
  BY <1>1 DEF LocksHeld
<1>3. \A u \in Threads : pc'[u] \in {"lock", "hooks"} => MayWait(u, target[u][1])'
  <2> SUFFICES ASSUME NEW u \in Threads, pc'[u] \in {"lock", "hooks"}
               PROVE  MayWait(u, target'[u][1])
    BY <1>1 DEF MayWait, InOrder
  <2> QED BY DEF LocksHeld
<1> QED BY <1>1, <1>2, <1>3 DEF LocksHeld, Worker

\* A close that ends: in failure, with its own unfinished attempt if it
\* has one, or with the result of the attempt it followed.
LEMMA CloseEnds ==
  ASSUME IInv, NEW t \in Threads, NEW ok \in BOOLEAN,
         pc[t] \in {"defer", "lock", "launch", "await", "wait"}, Ends(t, ok),
         UNCHANGED <<frames, want, open, lock, closed, stopped, current, running>>,
         LET s == target[t][1]
             a == target[t][2]
         IN \/ /\ owner[s] = t /\ ~ok /\ Fail(s, a)
               /\ owner' = [owner EXCEPT ![s] = Free]
            \/ /\ owner[s] # t /\ (ok => attempts[s][a].stopped)
               /\ UNCHANGED <<attempts, owner>>
  PROVE  IInv' /\ Final
<1> DEFINE s == target[t][1]
           a == target[t][2]
<1> USE DEF IInv
<1>1. s \in Emulators /\ a \in Nat \ {0} /\ target[t] = <<s, a>> /\ a \in DOMAIN attempts[s]
      /\ attempts[s][a] \in AttemptRecords
  BY Following DEF Closing
<1> DEFINE r == [attempts[s][a] EXCEPT !.done = TRUE]
<1>2. /\ attempts' \in [Emulators -> Seq(AttemptRecords)]
      /\ \A q \in Emulators : DOMAIN attempts'[q] = DOMAIN attempts[q]
      /\ \A q \in Emulators : \A b \in DOMAIN attempts[q] :
           /\ attempts'[q][b].stopped = attempts[q][b].stopped
           /\ attempts'[q][b].worker = attempts[q][b].worker
           /\ attempts[q][b].done => attempts'[q][b].done
           /\ attempts'[q][b] = attempts[q][b] \/ (q = s /\ b = a /\ owner[s] = t)
  <2>1. CASE owner[s] = t /\ Fail(s, a)
    <3>1. attempts' = [attempts EXCEPT ![s][a] = r]
      BY <2>1 DEF Fail
    <3>2. r \in AttemptRecords /\ r.done /\ r.stopped = attempts[s][a].stopped
          /\ r.worker = attempts[s][a].worker
      BY <1>1 DEF AttemptRecords
    <3> HIDE DEF r
    <3>3. /\ attempts' \in [Emulators -> Seq(AttemptRecords)]
          /\ \A q \in Emulators : DOMAIN attempts'[q] = DOMAIN attempts[q]
          /\ attempts'[s][a] = r
          /\ \A q \in Emulators : \A b \in DOMAIN attempts[q] :
               (q # s \/ b # a) => attempts'[q][b] = attempts[q][b]
      BY <1>1, <3>1, <3>2, Rewritten
    <3> HIDE DEF s, a
    <3> QED BY <2>1, <3>2, <3>3
  <2>2. CASE UNCHANGED attempts
    BY <2>2 DEF TypeOK
  <2> QED BY <2>1, <2>2
<1>3. /\ owner' \in [Emulators -> Threads \cup {Free}] /\ owner'[s] # t
      /\ \A q \in Emulators : owner'[q] = owner[q] \/ (q = s /\ owner[s] = t /\ owner'[s] = Free)
  <2>1. owner \in [Emulators -> Threads \cup {Free}] /\ Free # t
    BY NamesAssumption DEF TypeOK
  <2>2. CASE owner[s] = t /\ owner' = [owner EXCEPT ![s] = Free]
    BY <1>1, <2>1, <2>2
  <2>3. CASE owner[s] # t /\ owner' = owner
    BY <1>1, <2>1, <2>3
  <2> QED BY <2>2, <2>3
<1>4. /\ pc' = [pc EXCEPT ![t] = "run"] /\ target' = [target EXCEPT ![t] = <<>>]
      /\ returned' = [returned EXCEPT ![t] = <<s, a, ok>>]
  BY DEF Ends
<1>5. ok => attempts[s][a].stopped
  BY DEF Fail
<1> HIDE DEF s, a
<1>6. TypeOK'
  BY SMTT(30), <1>1, <1>2, <1>3, <1>4 DEF TypeOK
<1>7. pc'[t] = "run" /\ \A u \in Threads \ {t} : pc'[u] = pc[u] /\ target'[u] = target[u]
  BY <1>4 DEF TypeOK
<1>8. Followed'
  BY ZenonT(60), <1>2, <1>7 DEF Followed, Closing
<1>9. LocksHeld'
  <2>1. \A q \in Emulators : Stopping(q)' = Stopping(q)
    BY <1>2 DEF Stopping
  <2> QED BY <1>7, <2>1, LocksKept
<1>10. WorkerOwned'
  <2>1. owner[s] = t => running[s] = 0
    BY <1>1, NamesAssumption DEF CloserOwned
  <2> QED BY <1>2, <1>3, <2>1 DEF WorkerOwned
<1>11. CloserOwned'
  <2>1. \A q \in Emulators : owner[q] = t => q = s
    BY <1>1, NamesAssumption DEF CloserOwned
  <2>2. \A u \in Threads : pc'[u] \in {"lock", "hooks", "launch"} => owner'[target'[u][1]] = u
    <3> SUFFICES ASSUME NEW u \in Threads, pc'[u] \in {"lock", "hooks", "launch"}
                 PROVE  owner'[target'[u][1]] = u
      OBVIOUS
    <3>1. u # t /\ owner[target[u][1]] = u /\ target'[u] = target[u] /\ pc[u] \in Closing
      BY <1>7 DEF CloserOwned, Closing
    <3>2. target[u][1] \in Emulators
      BY <3>1, Following
    <3> QED BY <1>3, <3>1, <3>2
  <2>3. ASSUME NEW q \in Emulators, owner'[q] # Free
        PROVE  /\ pc'[owner'[q]] \in {"lock", "hooks", "launch", "defer"}
               /\ target'[owner'[q]] = <<q, current'[q]>>
               /\ running'[q] = 0 /\ current'[q] \in DOMAIN attempts'[q]
               /\ ~attempts'[q][current'[q]].done /\ ~stopped'[q]
    <3>1. owner'[q] = owner[q] /\ owner[q] \in Threads /\ owner[q] # t
      BY <1>3, <2>1, <2>3 DEF TypeOK
    <3>2. /\ pc[owner[q]] \in {"lock", "hooks", "launch", "defer"}
          /\ target[owner[q]] = <<q, current[q]>>
          /\ running[q] = 0 /\ current[q] \in DOMAIN attempts[q]
          /\ ~attempts[q][current[q]].done /\ ~stopped[q]
      BY <2>3, <3>1 DEF CloserOwned
    <3>3. attempts'[q][current[q]] = attempts[q][current[q]]
      BY <1>2, <3>1, <3>2
    <3> QED BY <1>2, <1>7, <3>1, <3>2, <3>3
  <2>4. \A u \in Threads : pc'[u] = "await" =>
          attempts'[target'[u][1]][target'[u][2]].done \/ running'[target'[u][1]] = target'[u][2]
    <3> SUFFICES ASSUME NEW u \in Threads, pc'[u] = "await"
                 PROVE  attempts'[target'[u][1]][target'[u][2]].done \/ running'[target'[u][1]] = target'[u][2]
      OBVIOUS
    <3>1. u # t /\ target'[u] = target[u] /\ pc[u] = "await" /\ pc[u] \in Closing
      BY <1>7 DEF Closing
    <3>2. attempts[target[u][1]][target[u][2]].done \/ running[target[u][1]] = target[u][2]
      BY <3>1 DEF CloserOwned
    <3>3. target[u][1] \in Emulators /\ target[u][2] \in DOMAIN attempts[target[u][1]]
      BY <3>1, Following
    <3> QED BY <1>2, <3>1, <3>2, <3>3
  <2> QED BY <2>2, <2>3, <2>4 DEF CloserOwned
<1>12. Results'
  <2>1. /\ \A q \in Emulators : current'[q] # 0 => current'[q] \in DOMAIN attempts'[q]
        /\ \A q \in Emulators : \A b \in DOMAIN attempts'[q] : attempts'[q][b].stopped =>
             stopped'[q] /\ attempts'[q][b].done
        /\ \A q \in Emulators : \A b, c \in DOMAIN attempts'[q] :
             attempts'[q][b].stopped /\ attempts'[q][c].stopped => b = c
    BY SMTT(30), <1>2 DEF Results
  <2>2. returned'[t] = <<s, a, ok>> /\ \A u \in Threads \ {t} : returned'[u] = returned[u]
    BY <1>4 DEF TypeOK
  <2>3. ok => stopped[s] /\ attempts'[s][a].stopped
    BY <1>1, <1>2, <1>5 DEF Results
  <2>4. \A u \in Threads : returned'[u] # <<>> =>
          /\ returned'[u][2] # 0 => returned'[u][2] \in DOMAIN attempts'[returned'[u][1]]
          /\ returned'[u][3] => stopped'[returned'[u][1]]
          /\ returned'[u][2] # 0 /\ returned'[u][3] =>
               attempts'[returned'[u][1]][returned'[u][2]].stopped
    <3>1. ASSUME NEW u \in Threads \ {t}, returned[u] # <<>>
          PROVE  /\ returned[u][1] \in Emulators
                 /\ returned[u][2] # 0 => returned[u][2] \in DOMAIN attempts[returned[u][1]]
                 /\ returned[u][3] => stopped[returned[u][1]]
                 /\ returned[u][2] # 0 /\ returned[u][3] =>
                      attempts[returned[u][1]][returned[u][2]].stopped
      BY <3>1 DEF Results, CloseTellsTheTruth, TypeOK
    <3> QED BY SMTT(30), <1>1, <1>2, <2>2, <2>3, <3>1
  <2> QED BY <2>1, <2>4 DEF Results, CloseTellsTheTruth
<1>13. Final
  <2>1. owner[s] = t => ~attempts[s][a].done
    BY <1>1, NamesAssumption DEF CloserOwned
  <2> QED BY <1>2, <2>1 DEF Final
<1> QED BY <1>6, <1>8, <1>9, <1>10, <1>11, <1>12, <1>13

-----------------------------------------------------------------------------
(* Ownership scopes *)

\* Beginning an operation or a group keeps the invariant.
LEMMA StartStep ==
  ASSUME IInv, NEW t \in Threads, NEW es \in (SUBSET Emulators) \ {{}}, NEW refusing \in BOOLEAN,
         Start(t, es, refusing)
  PROVE  IInv' /\ Final
<1> USE DEF IInv
<1>1. frames[t] \in Seq(SUBSET Emulators) /\ frames' = [frames EXCEPT ![t] = Append(frames[t], {})]
  BY DEF Start, TypeOK
<1>2. Append(frames[t], {}) \in Seq(SUBSET Emulators) /\ In(Append(frames[t], {})) = In(frames[t])
      /\ Append(frames[t], {}) # <<>>
  BY <1>1, InAppend
<1>3. TypeOK'
  BY <1>1, <1>2 DEF Start, sessionVars, TypeOK
<1>4. frames'[t] # <<>> /\ \A u \in Threads \ {t} : frames'[u] = frames[u]
  BY <1>1, <1>2 DEF TypeOK
<1>5. \A u \in Threads : Held(u)' = Held(u)
  BY <1>1, <1>2, <1>4 DEF Held, TypeOK
<1>6. pc[t] = "run" /\ pc'[t] = "enter" /\ \A u \in Threads \ {t} : pc'[u] = pc[u]
  BY DEF Start, TypeOK
<1>7. \A u \in Threads : returned'[u] = returned[u] \/ returned'[u] = <<>>
  BY DEF Start, TypeOK
<1>8. UNCHANGED <<target, lock, sessionVars>>
  BY DEF Start
<1>9. /\ WorkerOwned' /\ CloserOwned' /\ Results' /\ Final
      /\ \A u \in Threads : pc'[u] \in Closing =>
           /\ target'[u] \in Emulators \X Nat
           /\ target'[u][2] \in DOMAIN attempts'[target'[u][1]]
  BY <1>3, <1>6, <1>7, <1>8, SessionsKept
<1>10. Followed'
  BY <1>4, <1>6, <1>9 DEF Followed
<1>11. LocksHeld'
  BY <1>5, <1>6, <1>8 DEF LocksHeld, MayWait, InOrder, Stopping, sessionVars
<1> QED BY <1>3, <1>9, <1>10, <1>11

\* Taking the next lock of a scope, which was free or is held already.
LEMMA AcquireStep ==
  ASSUME IInv, NEW t \in Threads, Acquire(t)
  PROVE  IInv' /\ Final
<1> DEFINE e == First(want[t])
           g == [frames[t] EXCEPT ![Len(frames[t])] = @ \cup {e}]
<1> USE DEF IInv
<1>1. /\ pc[t] = "enter" /\ lock[e] \in {Free, t} /\ lock' = [lock EXCEPT ![e] = t]
      /\ want' = [want EXCEPT ![t] = @ \ {e}]
      /\ UNCHANGED <<pc, open, target, sessionVars, returned>>
  BY DEF Acquire
<1>2. e \in Emulators
  BY FirstWanted DEF Acquire, TypeOK
<1>3. frames[t] \in Seq(SUBSET Emulators) /\ frames[t] # <<>>
  BY <1>1 DEF TypeOK, Followed
<1>4. frames' = [frames EXCEPT ![t] = g]
  BY DEF Acquire
<1>5. g \in Seq(SUBSET Emulators) /\ g # <<>> /\ In(g) = In(frames[t]) \cup {e}
  BY <1>2, <1>3, InLast
<1> HIDE DEF g, e
<1>6. TypeOK'
  BY <1>1, <1>2, <1>4, <1>5 DEF sessionVars, TypeOK
<1>7. frames'[t] # <<>> /\ Held(t)' = Held(t) \cup {e}
      /\ \A u \in Threads \ {t} : frames'[u] = frames[u] /\ Held(u)' = Held(u)
  BY <1>4, <1>5 DEF TypeOK, Held
<1>8. lock'[e] = t /\ \A s \in Emulators \ {e} : lock'[s] = lock[s]
  BY <1>1, <1>2 DEF TypeOK
<1>9. /\ WorkerOwned' /\ CloserOwned' /\ Results' /\ Final
      /\ \A u \in Threads : pc'[u] \in Closing =>
           /\ target'[u] \in Emulators \X Nat
           /\ target'[u][2] \in DOMAIN attempts'[target'[u][1]]
  BY <1>1, <1>6, SessionsKept
<1>10. Followed'
  BY <1>1, <1>7, <1>9 DEF Followed
<1>11. LocksHeld'
  <2>1. \A u \in Threads \ {t} : lock[e] # u
    BY <1>1, NamesAssumption
  <2>2. \A u \in Threads : \A s \in Held(u)' : lock'[s] = u
    BY <1>2, <1>6, <1>7, <1>8, <2>1, HeldType DEF LocksHeld
  <2>3. \A u \in Threads, s \in Emulators : lock'[s] = u =>
          s \in Held(u)' \/ (pc'[u] = "hooks" /\ target'[u][1] = s)
    BY <1>1, <1>7, <1>8 DEF LocksHeld
  <2>4. ASSUME NEW u \in Threads, pc'[u] = "hooks" PROVE lock'[target'[u][1]] = u
    <3>1. u # t /\ pc[u] = "hooks" /\ target'[u] = target[u] /\ lock[target[u][1]] = u
      BY <1>1, <2>4 DEF LocksHeld
    <3>2. target[u][1] \in Emulators
      BY <3>1, Following DEF Closing
    <3> QED BY <1>8, <2>1, <3>1, <3>2
  <2>5. \A u \in Threads : pc'[u] \in {"lock", "hooks"} => MayWait(u, target[u][1])'
    BY <1>1, <1>7 DEF LocksHeld, MayWait, InOrder
  <2>6. \A s \in Emulators : Stopping(s)' # {} => lock'[s] = Worker(s)
    <3>1. \A s \in Emulators : Stopping(s)' = Stopping(s)
      BY <1>1 DEF Stopping, sessionVars
    <3>2. lock[e] # Worker(e)
      BY <1>1, <1>2, NamesAssumption DEF Worker
    <3> QED BY <1>8, <3>1, <3>2 DEF LocksHeld, Worker
  <2> QED BY <2>2, <2>3, <2>4, <2>5, <2>6 DEF LocksHeld
<1> QED BY <1>6, <1>9, <1>10, <1>11

\* A scope that ends gives back what no outer scope holds.
LEMMA LeaveStep ==
  ASSUME IInv, NEW t \in Threads, pc[t] \in {"run", "enter"}, frames[t] # <<>>,
         Leave(t), UNCHANGED <<target, sessionVars, returned>>
  PROVE  IInv' /\ Final
<1> DEFINE kept == In(Outer(t))
<1> USE DEF IInv
<1>1. frames[t] \in Seq(SUBSET Emulators)
  BY DEF TypeOK
<1>2. Outer(t) \in Seq(SUBSET Emulators) /\ kept \subseteq Held(t)
  BY <1>1, InOuter DEF Outer, Held
<1>3. /\ frames' = [frames EXCEPT ![t] = Outer(t)]
      /\ lock' = [s \in Emulators |-> IF lock[s] = t /\ s \notin kept THEN Free ELSE lock[s]]
      /\ want' = [want EXCEPT ![t] = {}] /\ open' = [open EXCEPT ![t] = TRUE]
      /\ pc' = [pc EXCEPT ![t] = "run"]
  BY DEF Leave
<1>4. Held(t)' = kept /\ \A u \in Threads \ {t} : frames'[u] = frames[u] /\ Held(u)' = Held(u)
  BY <1>3 DEF TypeOK, Held
<1> HIDE DEF kept
<1>5. TypeOK'
  BY <1>2, <1>3 DEF sessionVars, TypeOK
<1>6. pc'[t] = "run" /\ \A u \in Threads \ {t} : pc'[u] = pc[u]
  BY <1>3 DEF TypeOK
<1>7. /\ WorkerOwned' /\ CloserOwned' /\ Results' /\ Final
      /\ \A u \in Threads : pc'[u] \in Closing =>
           /\ target'[u] \in Emulators \X Nat
           /\ target'[u][2] \in DOMAIN attempts'[target'[u][1]]
  BY <1>5, <1>6, SessionsKept
<1>8. Followed'
  BY <1>4, <1>6, <1>7 DEF Followed
<1>9. \A s \in Emulators :
        /\ lock'[s] = lock[s] \/ (lock[s] = t /\ s \notin kept /\ lock'[s] = Free)
        /\ lock[s] # t \/ s \in kept => lock'[s] = lock[s]
        /\ lock[s] = t /\ s \notin kept => lock'[s] = Free
  BY <1>3
<1>10. LocksHeld'
  <2>1. \A u \in Threads : \A s \in Held(u)' : lock'[s] = u
    BY <1>2, <1>4, <1>5, <1>9, HeldType DEF LocksHeld
  <2>2. \A u \in Threads, s \in Emulators : lock'[s] = u =>
          s \in Held(u)' \/ (pc'[u] = "hooks" /\ target'[u][1] = s)
    BY <1>4, <1>6, <1>9, NamesAssumption DEF LocksHeld
  <2>3. ASSUME NEW u \in Threads, pc'[u] = "hooks" PROVE lock'[target'[u][1]] = u
    <3>1. u # t /\ pc[u] = "hooks" /\ lock[target[u][1]] = u
      BY <1>6, <2>3 DEF LocksHeld
    <3>2. target[u][1] \in Emulators
      BY <3>1, Following DEF Closing
    <3> QED BY <1>9, <3>1, <3>2
  <2>4. \A u \in Threads : pc'[u] \in {"lock", "hooks"} => MayWait(u, target[u][1])'
    BY <1>4, <1>6 DEF LocksHeld, MayWait, InOrder
  <2>5. \A s \in Emulators : Stopping(s)' # {} => lock'[s] = Worker(s)
    <3>1. \A s \in Emulators : Stopping(s)' = Stopping(s)
      BY DEF Stopping, sessionVars
    <3> QED BY <1>9, <3>1, NamesAssumption DEF LocksHeld, Worker
  <2> QED BY <2>1, <2>2, <2>3, <2>4, <2>5 DEF LocksHeld
<1> QED BY <1>5, <1>7, <1>8, <1>10

\* Entering, giving up and leaving scopes.
LEMMA ScopeSteps ==
  ASSUME IInv, NEW t \in Threads, ScopeStep(t) \/ GiveUp(t)
  PROVE  IInv' /\ Final
<1> USE DEF IInv
<1>1. CASE Acquire(t)
  BY <1>1, AcquireStep
<1>2. CASE Entered(t)
  <2>1. pc[t] = "enter" /\ frames[t] # <<>> /\ UNCHANGED <<target, sessionVars, returned>>
    BY <1>2 DEF Entered, Followed
  <2>2. CASE Leave(t)
    BY <2>1, <2>2, LeaveStep
  <2>3. CASE ~Leave(t)
    <3>1. /\ pc' = [pc EXCEPT ![t] = "run"] /\ open' = [open EXCEPT ![t] = TRUE]
          /\ UNCHANGED <<frames, lock, want>>
      BY <1>2, <2>3 DEF Entered
    <3>2. TypeOK'
      BY <2>1, <3>1 DEF sessionVars, TypeOK
    <3>3. pc'[t] = "run" /\ \A u \in Threads \ {t} : pc'[u] = pc[u]
      BY <3>1 DEF TypeOK
    <3>4. /\ WorkerOwned' /\ CloserOwned' /\ Results' /\ Final
          /\ \A u \in Threads : pc'[u] \in Closing =>
               /\ target'[u] \in Emulators \X Nat
               /\ target'[u][2] \in DOMAIN attempts'[target'[u][1]]
      BY <2>1, <3>2, <3>3, SessionsKept
    <3>5. Followed'
      BY <3>1, <3>3, <3>4 DEF Followed
    <3>6. LocksHeld'
      <4>1. \A s \in Emulators : Stopping(s)' = Stopping(s)
        BY <2>1 DEF Stopping, sessionVars
      <4> QED BY <2>1, <3>1, <3>3, <4>1, LocksKept
    <3> QED BY <3>2, <3>4, <3>5, <3>6
  <2> QED BY <2>2, <2>3
<1>3. CASE Refused(t) \/ GiveUp(t)
  BY <1>3, LeaveStep DEF Refused, GiveUp, Followed
<1>4. CASE Exit(t)
  BY <1>4, LeaveStep DEF Exit
<1> QED BY <1>1, <1>2, <1>3, <1>4 DEF ScopeStep

-----------------------------------------------------------------------------
(* Session.close *)

\* A close of a stopped session says so.
LEMMA CloseStoppedStep ==
  ASSUME IInv, NEW t \in Threads, NEW s \in Emulators, CloseStopped(t, s)
  PROVE  IInv' /\ Final
<1> USE DEF IInv
<1>1. /\ stopped[s] /\ returned' = [returned EXCEPT ![t] = <<s, 0, TRUE>>]
      /\ UNCHANGED <<pc, frames, want, open, target, lock, sessionVars>>
  BY DEF CloseStopped
<1>2. TypeOK'
  BY <1>1 DEF TypeOK, sessionVars
<1>3. Followed' /\ LocksHeld' /\ WorkerOwned' /\ CloserOwned' /\ Final
  BY SMTT(30), <1>1 DEF Followed, LocksHeld, WorkerOwned, CloserOwned, Final, sessionVars, Held,
              MayWait, InOrder, Stopping
<1>4. Results'
  <2>1. returned'[t] = <<s, 0, TRUE>> /\ \A u \in Threads \ {t} : returned'[u] = returned[u]
    BY <1>1 DEF TypeOK
  <2> QED BY <1>1, <2>1 DEF Results, CloseTellsTheTruth, sessionVars
<1> QED BY <1>2, <1>3, <1>4

\* A thread that joins the current attempt waits for it, or defers.
LEMMA JoinStep ==
  ASSUME IInv, NEW t \in Threads, NEW s \in Emulators, Join(t, s)
  PROVE  IInv' /\ Final
<1> DEFINE a == Live(s)
<1> USE DEF IInv
<1>1. /\ pc[t] = "run" /\ a # 0
      /\ pc' = [pc EXCEPT ![t] = IF MayWait(t, s) THEN "wait" ELSE "defer"]
      /\ target' = [target EXCEPT ![t] = <<s, a>>]
      /\ returned' = [returned EXCEPT ![t] = <<>>]
      /\ UNCHANGED <<frames, want, open, lock, sessionVars>>
  BY DEF Join
<1>2. a \in Nat /\ a \in DOMAIN attempts[s]
  <2>1. a = current[s] /\ current[s] # 0
    BY <1>1 DEF Live
  <2> QED BY <2>1 DEF Results, TypeOK
<1> HIDE DEF a
<1>3. TypeOK'
  BY <1>1, <1>2 DEF TypeOK, sessionVars
<1>4. /\ pc'[t] \in {"wait", "defer"} /\ target'[t] = <<s, a>> /\ returned'[t] = <<>>
      /\ \A u \in Threads \ {t} :
           pc'[u] = pc[u] /\ target'[u] = target[u] /\ returned'[u] = returned[u]
  BY <1>1 DEF TypeOK
<1>5. Followed'
  BY <1>1, <1>2, <1>4 DEF Followed, sessionVars
<1>6. LocksHeld'
  <2>1. \A q \in Emulators : Stopping(q)' = Stopping(q)
    BY <1>1 DEF Stopping, sessionVars
  <2> QED BY <1>1, <1>4, <2>1, LocksKept
<1>7. WorkerOwned' /\ Final
  BY <1>1 DEF WorkerOwned, Final, sessionVars
<1>8. CloserOwned'
  <2>1. \A q \in Emulators : owner[q] # Free => owner[q] # t /\ owner[q] \in Threads
    BY <1>1 DEF CloserOwned, TypeOK
  <2>2. \A u \in Threads : pc'[u] \in {"lock", "hooks", "launch"} =>
          u # t /\ pc[u] \in {"lock", "hooks", "launch"}
    BY <1>4
  <2>3. \A u \in Threads : pc'[u] = "await" => u # t /\ pc[u] = "await"
    BY <1>4
  <2>4. UNCHANGED <<stopped, owner, current, running, attempts>>
    BY <1>1 DEF sessionVars
  <2> QED BY <1>4, <2>1, <2>2, <2>3, <2>4 DEF CloserOwned
<1>9. Results'
  BY <1>1, <1>4 DEF Results, CloseTellsTheTruth, sessionVars
<1> QED BY <1>3, <1>5, <1>6, <1>7, <1>8, <1>9

\* A thread that claims the close has the session to itself: whoever owned
\* it would own a current attempt that is not done.
LEMMA ClaimStep ==
  ASSUME IInv, NEW t \in Threads, NEW s \in Emulators, Claim(t, s)
  PROVE  IInv' /\ Final
<1> DEFINE n == Len(attempts[s]) + 1
<1> USE DEF IInv
<1>1. /\ pc[t] = "run" /\ ~stopped[s] /\ Live(s) = 0
      /\ attempts' = [attempts EXCEPT ![s] = Append(@, NewAttempt)]
      /\ current' = [current EXCEPT ![s] = n]
      /\ target' = [target EXCEPT ![t] = <<s, n>>]
      /\ returned' = [returned EXCEPT ![t] = <<>>]
      /\ UNCHANGED <<frames, want, open, lock, stopped, running>>
  BY DEF Claim
<1>2. owner[s] = Free
  <2> SUFFICES ASSUME owner[s] # Free PROVE FALSE
    OBVIOUS
  <2>1. current[s] \in DOMAIN attempts[s] /\ ~attempts[s][current[s]].done
    BY DEF CloserOwned
  <2>2. current[s] # 0
    BY <2>1, AttemptType
  <2> QED BY <1>1, <2>1, <2>2 DEF Live
<1>3. /\ closed' = [closed EXCEPT ![s] = TRUE] /\ owner' = [owner EXCEPT ![s] = t]
      /\ pc' = [pc EXCEPT ![t] = IF MayWait(t, s) THEN "lock" ELSE "defer"]
  BY <1>2 DEF Claim
<1>4. NewAttempt \in AttemptRecords /\ ~NewAttempt.done /\ ~NewAttempt.stopped
      /\ NewAttempt.worker = "none"
  BY DEF NewAttempt, AttemptRecords
<1>5. /\ attempts' \in [Emulators -> Seq(AttemptRecords)]
      /\ n \in Nat \ {0} /\ n \notin DOMAIN attempts[s]
      /\ DOMAIN attempts'[s] = DOMAIN attempts[s] \cup {n} /\ attempts'[s][n] = NewAttempt
      /\ \A q \in Emulators \ {s} : attempts'[q] = attempts[q]
      /\ \A b \in DOMAIN attempts[s] : attempts'[s][b] = attempts[s][b]
  BY <1>1, <1>4, Appended
<1> HIDE DEF n
<1>6. TypeOK'
  BY <1>1, <1>3, <1>5 DEF TypeOK
<1>7. /\ pc'[t] = (IF MayWait(t, s) THEN "lock" ELSE "defer")
      /\ target'[t] = <<s, n>> /\ returned'[t] = <<>>
      /\ \A u \in Threads \ {t} :
           pc'[u] = pc[u] /\ target'[u] = target[u] /\ returned'[u] = returned[u]
  BY <1>1, <1>3 DEF TypeOK
<1>8. /\ current'[s] = n /\ owner'[s] = t
      /\ \A q \in Emulators \ {s} : current'[q] = current[q] /\ owner'[q] = owner[q]
  BY <1>1, <1>3 DEF TypeOK
<1>9. running[s] = 0
  <2> SUFFICES ASSUME running[s] # 0 PROVE FALSE
    OBVIOUS
  <2>1. running[s] = current[s] /\ ~attempts[s][current[s]].done
    BY DEF WorkerOwned
  <2> QED BY <1>1, <2>1 DEF Live
<1>10. Followed'
  <2>1. \A u \in Threads \ {t} : pc[u] \in Closing =>
          /\ target'[u] \in Emulators \X Nat
          /\ target'[u][2] \in DOMAIN attempts'[target'[u][1]]
    BY SMTT(30), <1>5, <1>7 DEF Followed
  <2>2. target'[t] \in Emulators \X Nat /\ target'[t][2] \in DOMAIN attempts'[target'[t][1]]
    BY <1>5, <1>7
  <2>3. pc'[t] # "enter"
    BY <1>7
  <2> QED BY <1>1, <1>7, <2>1, <2>2, <2>3 DEF Followed
<1>11. LocksHeld'
  <2>1. \A q \in Emulators : Stopping(q)' = Stopping(q)
    BY <1>4, <1>5 DEF Stopping
  <2>2. \A u \in Threads : (pc'[u] = "hooks") <=> (pc[u] = "hooks")
    BY <1>1, <1>7
  <2>3. \A u \in Threads : pc'[u] = "hooks" => target'[u] = target[u]
    BY <1>7
  <2>4. \A u \in Threads : pc'[u] = "lock" =>
          (pc[u] = "lock" /\ target'[u] = target[u]) \/ MayWait(u, target'[u][1])
    BY <1>7
  <2> QED BY <1>1, <2>1, <2>2, <2>3, <2>4, LocksKept
<1>12. WorkerOwned'
  <2>1. \A q \in Emulators : \A b \in DOMAIN attempts'[q] :
          attempts'[q][b].worker # "none" => b \in DOMAIN attempts[q] /\ attempts'[q][b] = attempts[q][b]
    BY <1>4, <1>5
  <2> QED BY <1>1, <1>5, <1>8, <1>9, <2>1 DEF WorkerOwned
<1>13. CloserOwned'
  <2>1. ASSUME NEW u \in Threads, pc'[u] \in {"lock", "hooks", "launch"}
        PROVE  owner'[target'[u][1]] = u
    <3>1. CASE u = t
      BY <1>7, <1>8, <3>1
    <3>2. CASE u # t
      <4>1. pc[u] \in {"lock", "hooks", "launch"} /\ target'[u] = target[u]
        BY <1>7, <2>1, <3>2
      <4>2. owner[target[u][1]] = u /\ target[u][1] \in Emulators
        BY <4>1, Following DEF CloserOwned, Closing
      <4>3. target[u][1] # s
        BY <1>2, <4>2, NamesAssumption
      <4> QED BY <1>8, <4>1, <4>2, <4>3
    <3> QED BY <3>1, <3>2
  <2>2. ASSUME NEW q \in Emulators, owner'[q] # Free
        PROVE  /\ pc'[owner'[q]] \in {"lock", "hooks", "launch", "defer"}
               /\ target'[owner'[q]] = <<q, current'[q]>>
               /\ running'[q] = 0 /\ current'[q] \in DOMAIN attempts'[q]
               /\ ~attempts'[q][current'[q]].done /\ ~stopped'[q]
    <3>1. CASE q = s
      BY <1>1, <1>4, <1>5, <1>7, <1>8, <1>9, <3>1
    <3>2. CASE q # s
      <4>1. owner'[q] = owner[q] /\ owner[q] \in Threads
        BY <1>8, <2>2, <3>2 DEF TypeOK
      <4>2. /\ pc[owner[q]] \in {"lock", "hooks", "launch", "defer"}
            /\ target[owner[q]] = <<q, current[q]>>
            /\ running[q] = 0 /\ current[q] \in DOMAIN attempts[q]
            /\ ~attempts[q][current[q]].done /\ ~stopped[q]
        BY <2>2, <4>1 DEF CloserOwned
      <4>3. owner[q] # t
        BY <1>1, <4>2
      <4> QED BY <1>1, <1>5, <1>7, <1>8, <3>2, <4>1, <4>2, <4>3
    <3> QED BY <3>1, <3>2
  <2>3. ASSUME NEW u \in Threads, pc'[u] = "await"
        PROVE  attempts'[target'[u][1]][target'[u][2]].done
               \/ running'[target'[u][1]] = target'[u][2]
    <3>1. u # t /\ pc[u] = "await" /\ target'[u] = target[u]
      BY <1>7, <2>3
    <3>2. attempts[target[u][1]][target[u][2]].done \/ running[target[u][1]] = target[u][2]
      BY <3>1 DEF CloserOwned
    <3>3. target[u][1] \in Emulators /\ target[u][2] \in DOMAIN attempts[target[u][1]]
      BY <3>1, Following DEF Closing
    <3> QED BY <1>1, <1>5, <3>1, <3>2, <3>3
  <2> QED BY <2>1, <2>2, <2>3 DEF CloserOwned
<1>14. Results'
  <2>1. \A q \in Emulators : \A b \in DOMAIN attempts'[q] :
          \/ b \in DOMAIN attempts[q] /\ attempts'[q][b] = attempts[q][b]
          \/ ~attempts'[q][b].stopped
    BY <1>4, <1>5
  <2>2. \A q \in Emulators : current'[q] # 0 => current'[q] \in DOMAIN attempts'[q]
    BY <1>5, <1>8 DEF Results
  <2>3. ASSUME NEW u \in Threads, returned'[u] # <<>>
        PROVE  /\ returned'[u][2] # 0 => returned'[u][2] \in DOMAIN attempts'[returned'[u][1]]
               /\ returned'[u][3] => stopped'[returned'[u][1]]
               /\ returned'[u][2] # 0 /\ returned'[u][3] =>
                    attempts'[returned'[u][1]][returned'[u][2]].stopped
    <3>1. u # t /\ returned'[u] = returned[u]
      BY <1>7, <2>3
    <3>2. /\ returned[u][1] \in Emulators
          /\ returned[u][2] # 0 => returned[u][2] \in DOMAIN attempts[returned[u][1]]
          /\ returned[u][3] => stopped[returned[u][1]]
          /\ returned[u][2] # 0 /\ returned[u][3] =>
               attempts[returned[u][1]][returned[u][2]].stopped
      BY <2>3, <3>1 DEF Results, CloseTellsTheTruth, TypeOK
    <3> QED BY <1>1, <1>5, <3>1, <3>2
  <2> QED BY <1>1, <2>1, <2>2, <2>3 DEF Results, CloseTellsTheTruth
<1>15. Final
  BY <1>5 DEF Final
<1> QED BY <1>6, <1>10, <1>11, <1>12, <1>13, <1>14, <1>15

\* A closing thread that moves on, while no session changes.
LEMMA CloserMoves ==
  ASSUME IInv, TypeOK', NEW t \in Threads, NEW from \in {"lock", "hooks"}, pc[t] = from,
         pc' = [pc EXCEPT ![t] = IF from = "lock" THEN "hooks" ELSE "launch"],
         UNCHANGED <<frames, want, open, target, sessionVars, returned>>
  PROVE  Followed' /\ WorkerOwned' /\ CloserOwned' /\ Results' /\ Final
<1> USE DEF IInv, sessionVars
<1>1. pc'[t] = (IF from = "lock" THEN "hooks" ELSE "launch") /\ \A u \in Threads \ {t} : pc'[u] = pc[u]
  BY DEF TypeOK
<1>2. pc[t] \in {"lock", "hooks"} /\ pc'[t] \in {"hooks", "launch"}
  BY <1>1
<1>3. Followed'
  BY <1>1, <1>2 DEF Followed, Closing
<1>4. WorkerOwned' /\ Results' /\ Final
  BY DEF WorkerOwned, Results, CloseTellsTheTruth, Final
<1>5. CloserOwned'
  <2>1. \A u \in Threads : pc'[u] \in {"lock", "hooks", "launch"} => pc[u] \in {"lock", "hooks", "launch"}
    BY <1>1, <1>2
  <2>2. \A u \in Threads : pc[u] \in {"lock", "hooks", "launch", "defer"} =>
          pc'[u] \in {"lock", "hooks", "launch", "defer"}
    BY <1>1, <1>2
  <2>3. \A u \in Threads : pc'[u] = "await" => pc[u] = "await"
    BY <1>1, <1>2
  <2>4. \A q \in Emulators : owner[q] # Free => owner[q] \in Threads
    BY DEF TypeOK
  <2> QED BY <2>1, <2>2, <2>3, <2>4 DEF CloserOwned
<1> QED BY <1>3, <1>4, <1>5

\* A close gets the lock it waited for.
LEMMA TakeLockStep ==
  ASSUME IInv, NEW t \in Threads, TakeLock(t)
  PROVE  IInv' /\ Final
<1> DEFINE s == target[t][1]
<1> USE DEF IInv
<1>1. /\ pc[t] = "lock" /\ lock[s] = Free
      /\ lock' = [lock EXCEPT ![s] = t] /\ pc' = [pc EXCEPT ![t] = "hooks"]
      /\ UNCHANGED <<frames, want, open, target, sessionVars, returned>>
  BY DEF TakeLock
<1>2. s \in Emulators
  BY <1>1, Following DEF Closing
<1>3. TypeOK'
  BY <1>1, <1>2 DEF TypeOK, sessionVars
<1>4. Followed' /\ WorkerOwned' /\ CloserOwned' /\ Results' /\ Final
  BY <1>1, <1>3, CloserMoves
<1>5. /\ lock'[s] = t /\ \A q \in Emulators \ {s} : lock'[q] = lock[q]
      /\ pc'[t] = "hooks" /\ \A u \in Threads \ {t} : pc'[u] = pc[u]
  BY <1>1, <1>2 DEF TypeOK
<1>6. LocksHeld'
  <2>1. \A u \in Threads : Held(u)' = Held(u) /\ s \notin Held(u)
    BY <1>1, NamesAssumption DEF Held, LocksHeld
  <2>2. \A u \in Threads : \A q \in Held(u)' : lock'[q] = u
    BY <1>5, <2>1, HeldType DEF LocksHeld
  <2>3. \A u \in Threads, q \in Emulators : lock'[q] = u =>
          q \in Held(u)' \/ (pc'[u] = "hooks" /\ target'[u][1] = q)
    BY <1>1, <1>5, <2>1 DEF LocksHeld
  <2>4. ASSUME NEW u \in Threads, pc'[u] = "hooks" PROVE lock'[target'[u][1]] = u
    <3>1. CASE u = t
      BY <1>1, <1>5, <3>1
    <3>2. CASE u # t
      <4>1. pc[u] = "hooks" /\ lock[target[u][1]] = u
        BY <1>5, <2>4, <3>2 DEF LocksHeld
      <4>2. target[u][1] \in Emulators /\ target[u][1] # s
        BY <1>1, <4>1, Following, NamesAssumption DEF Closing
      <4> QED BY <1>1, <1>5, <4>1, <4>2
    <3> QED BY <3>1, <3>2
  <2>5. \A u \in Threads : pc'[u] \in {"lock", "hooks"} => MayWait(u, target[u][1])'
    BY <1>1, <1>5, <2>1 DEF LocksHeld, MayWait, InOrder
  <2>6. \A q \in Emulators : Stopping(q)' # {} => lock'[q] = Worker(q)
    <3>1. \A q \in Emulators : Stopping(q)' = Stopping(q)
      BY <1>1 DEF Stopping, sessionVars
    <3>2. lock[s] # Worker(s)
      BY <1>1, <1>2, NamesAssumption DEF Worker
    <3> QED BY <1>2, <1>5, <3>1, <3>2 DEF LocksHeld, Worker
  <2> QED BY <2>2, <2>3, <2>4, <2>5, <2>6 DEF LocksHeld
<1> QED BY <1>3, <1>4, <1>6

\* A close gives the lock back when the hooks are closed.
LEMMA CloseHooksStep ==
  ASSUME IInv, NEW t \in Threads, CloseHooks(t)
  PROVE  IInv' /\ Final
<1> DEFINE s == target[t][1]
<1> USE DEF IInv
<1>1. /\ pc[t] = "hooks"
      /\ lock' = [lock EXCEPT ![s] = Free] /\ pc' = [pc EXCEPT ![t] = "launch"]
      /\ UNCHANGED <<frames, want, open, target, sessionVars, returned>>
  BY DEF CloseHooks
<1>2. s \in Emulators /\ lock[s] = t /\ s \notin Held(t)
  BY <1>1, Following DEF Closing, LocksHeld, MayWait
<1>3. TypeOK'
  BY <1>1, <1>2 DEF TypeOK, sessionVars
<1>4. Followed' /\ WorkerOwned' /\ CloserOwned' /\ Results' /\ Final
  BY <1>1, <1>3, CloserMoves
<1>5. /\ lock'[s] = Free /\ \A q \in Emulators \ {s} : lock'[q] = lock[q]
      /\ pc'[t] = "launch" /\ \A u \in Threads \ {t} : pc'[u] = pc[u]
  BY <1>1, <1>2 DEF TypeOK
<1>6. LocksHeld'
  <2>1. \A u \in Threads : Held(u)' = Held(u) /\ s \notin Held(u)
    BY <1>1, <1>2 DEF Held, LocksHeld
  <2>2. \A u \in Threads : \A q \in Held(u)' : lock'[q] = u
    BY <1>5, <2>1, HeldType DEF LocksHeld
  <2>3. \A u \in Threads, q \in Emulators : lock'[q] = u =>
          q \in Held(u)' \/ (pc'[u] = "hooks" /\ target'[u][1] = q)
    BY <1>1, <1>5, <2>1, NamesAssumption DEF LocksHeld
  <2>4. ASSUME NEW u \in Threads, pc'[u] = "hooks" PROVE lock'[target'[u][1]] = u
    <3>1. u # t /\ pc[u] = "hooks" /\ lock[target[u][1]] = u
      BY <1>5, <2>4 DEF LocksHeld
    <3>2. target[u][1] \in Emulators /\ target[u][1] # s
      BY <1>2, <3>1, Following DEF Closing
    <3> QED BY <1>1, <1>5, <3>1, <3>2
  <2>5. \A u \in Threads : pc'[u] \in {"lock", "hooks"} => MayWait(u, target[u][1])'
    BY <1>1, <1>5, <2>1 DEF LocksHeld, MayWait, InOrder
  <2>6. \A q \in Emulators : Stopping(q)' # {} => lock'[q] = Worker(q)
    <3>1. \A q \in Emulators : Stopping(q)' = Stopping(q)
      BY <1>1 DEF Stopping, sessionVars
    <3>2. lock[s] # Worker(s)
      BY <1>2, NamesAssumption DEF Worker
    <3> QED BY <1>2, <1>5, <3>1, <3>2 DEF LocksHeld, Worker
  <2> QED BY <2>2, <2>3, <2>4, <2>5, <2>6 DEF LocksHeld
<1> QED BY <1>3, <1>4, <1>6

\* The attempt changes hands: from the close that made it to its worker.
LEMMA LaunchStep ==
  ASSUME IInv, NEW t \in Threads, Launch(t)
  PROVE  IInv' /\ Final
<1> DEFINE s == target[t][1]
           a == target[t][2]
           r == [attempts[s][a] EXCEPT !.worker = "start"]
<1> USE DEF IInv
<1>1. /\ pc[t] = "launch" /\ pc' = [pc EXCEPT ![t] = "await"]
      /\ current' = [current EXCEPT ![s] = a] /\ running' = [running EXCEPT ![s] = a]
      /\ owner' = [owner EXCEPT ![s] = Free]
      /\ attempts' = [attempts EXCEPT ![s][a].worker = "start"]
      /\ UNCHANGED <<frames, want, open, target, lock, closed, stopped, returned>>
  BY DEF Launch
<1>2. s \in Emulators /\ a \in Nat \ {0} /\ target[t] = <<s, a>> /\ a \in DOMAIN attempts[s]
      /\ attempts[s][a] \in AttemptRecords
  BY <1>1, Following DEF Closing
<1>3. /\ owner[s] = t /\ running[s] = 0 /\ current[s] = a
      /\ ~attempts[s][a].done /\ ~stopped[s]
  <2>1. owner[s] = t /\ owner[s] # Free
    BY <1>1, NamesAssumption DEF CloserOwned
  <2> QED BY <1>2, <2>1 DEF CloserOwned
<1>4. r \in AttemptRecords /\ r.done = attempts[s][a].done /\ r.stopped = attempts[s][a].stopped
      /\ r.worker = "start"
  BY <1>2 DEF AttemptRecords
<1>5. attempts' = [attempts EXCEPT ![s][a] = r]
  BY <1>1
<1> HIDE DEF r
<1>6. /\ attempts' \in [Emulators -> Seq(AttemptRecords)]
      /\ \A q \in Emulators : DOMAIN attempts'[q] = DOMAIN attempts[q]
      /\ attempts'[s][a] = r
      /\ \A q \in Emulators : \A b \in DOMAIN attempts[q] :
           (q # s \/ b # a) => attempts'[q][b] = attempts[q][b]
  BY <1>2, <1>4, <1>5, Rewritten
<1> HIDE DEF s, a
<1>7. TypeOK'
  BY <1>1, <1>2, <1>6 DEF TypeOK
<1>8. /\ pc'[t] = "await" /\ \A u \in Threads \ {t} : pc'[u] = pc[u]
      /\ current'[s] = a /\ running'[s] = a /\ owner'[s] = Free
      /\ \A q \in Emulators \ {s} :
           current'[q] = current[q] /\ running'[q] = running[q] /\ owner'[q] = owner[q]
  BY <1>1, <1>2 DEF TypeOK
<1>9. \A q \in Emulators : \A b \in DOMAIN attempts[q] :
        /\ attempts'[q][b].done = attempts[q][b].done
        /\ attempts'[q][b].stopped = attempts[q][b].stopped
        /\ (q = s /\ b = a) \/ attempts'[q][b] = attempts[q][b]
  BY <1>4, <1>6
<1>10. Followed'
  BY <1>1, <1>6, <1>8 DEF Followed, Closing
<1>11. LocksHeld'
  <2>1. \A q \in Emulators : Stopping(q)' # {} => Stopping(q) # {}
    BY <1>4, <1>6 DEF Stopping
  <2> QED BY <1>1, <1>8, <2>1, LocksKept
<1>12. WorkerOwned'
  <2>1. \A b \in DOMAIN attempts[s] : attempts[s][b].worker = "none"
    BY <1>2, <1>3, AttemptType DEF WorkerOwned
  <2>2. \A q \in Emulators \ {s} : \A b \in DOMAIN attempts'[q] :
          attempts'[q][b].worker # "none" => running'[q] = b
    BY <1>6, <1>8 DEF WorkerOwned
  <2>3. \A b \in DOMAIN attempts'[s] : attempts'[s][b].worker # "none" => running'[s] = b
    BY <1>2, <1>6, <1>8, <2>1
  <2>4. \A q \in Emulators \ {s} : running'[q] # 0 =>
          /\ running'[q] \in DOMAIN attempts'[q] /\ running'[q] = current'[q]
          /\ ~attempts'[q][running'[q]].done /\ owner'[q] = Free /\ ~stopped'[q]
    BY <1>1, <1>6, <1>8 DEF WorkerOwned
  <2>5. /\ running'[s] \in DOMAIN attempts'[s] /\ running'[s] = current'[s]
        /\ ~attempts'[s][running'[s]].done /\ owner'[s] = Free /\ ~stopped'[s]
    BY <1>1, <1>2, <1>3, <1>6, <1>8, <1>9
  <2> QED BY <1>2, <2>2, <2>3, <2>4, <2>5 DEF WorkerOwned
<1>13. CloserOwned'
  <2>1. ASSUME NEW u \in Threads, pc'[u] \in {"lock", "hooks", "launch"}
        PROVE  owner'[target'[u][1]] = u
    <3>1. u # t /\ pc[u] \in {"lock", "hooks", "launch"} /\ target'[u] = target[u]
      BY <1>1, <1>8, <2>1
    <3>2. owner[target[u][1]] = u /\ target[u][1] \in Emulators
      BY <3>1, Following DEF CloserOwned, Closing
    <3> QED BY <1>3, <1>8, <3>1, <3>2
  <2>2. ASSUME NEW q \in Emulators, owner'[q] # Free
        PROVE  /\ pc'[owner'[q]] \in {"lock", "hooks", "launch", "defer"}
               /\ target'[owner'[q]] = <<q, current'[q]>>
               /\ running'[q] = 0 /\ current'[q] \in DOMAIN attempts'[q]
               /\ ~attempts'[q][current'[q]].done /\ ~stopped'[q]
    <3>1. q # s /\ owner'[q] = owner[q]
      BY <1>8, <2>2
    <3>2. /\ pc[owner[q]] \in {"lock", "hooks", "launch", "defer"}
          /\ target[owner[q]] = <<q, current[q]>>
          /\ running[q] = 0 /\ current[q] \in DOMAIN attempts[q]
          /\ ~attempts[q][current[q]].done /\ ~stopped[q]
      BY <2>2, <3>1 DEF CloserOwned
    <3>3. owner[q] \in Threads /\ owner[q] # t
      BY <1>2, <2>2, <3>1, <3>2 DEF TypeOK
    <3> QED BY <1>1, <1>6, <1>8, <3>1, <3>2, <3>3
  <2>3. ASSUME NEW u \in Threads, pc'[u] = "await"
        PROVE  attempts'[target'[u][1]][target'[u][2]].done
               \/ running'[target'[u][1]] = target'[u][2]
    <3>1. CASE u = t
      BY <1>1, <1>2, <1>8, <3>1 DEF s, a
    <3>2. CASE u # t
      <4>1. pc[u] = "await" /\ target'[u] = target[u]
        BY <1>1, <1>8, <2>3, <3>2
      <4>2. target[u][1] \in Emulators /\ target[u][2] \in DOMAIN attempts[target[u][1]]
            /\ target[u][2] # 0
        BY <4>1, Following DEF Closing
      <4>3. attempts[target[u][1]][target[u][2]].done \/ running[target[u][1]] = target[u][2]
        BY <4>1 DEF CloserOwned
      <4>4. CASE target[u][1] = s
        BY <1>3, <1>9, <4>1, <4>2, <4>3, <4>4
      <4>5. CASE target[u][1] # s
        BY <1>8, <1>9, <4>1, <4>2, <4>3, <4>5
      <4> QED BY <4>4, <4>5
    <3> QED BY <3>1, <3>2
  <2> QED BY <2>1, <2>2, <2>3 DEF CloserOwned
<1>14. Results'
  <2>1. \A q \in Emulators : current'[q] # 0 => current'[q] \in DOMAIN attempts'[q]
    <3>1. \A q \in Emulators : current[q] # 0 => current[q] \in DOMAIN attempts[q]
      BY DEF Results
    <3> QED BY <1>2, <1>6, <1>8, <3>1
  <2>2. /\ \A q \in Emulators : \A b \in DOMAIN attempts'[q] : attempts'[q][b].stopped =>
             stopped'[q] /\ attempts'[q][b].done
        /\ \A q \in Emulators : \A b, c \in DOMAIN attempts'[q] :
             attempts'[q][b].stopped /\ attempts'[q][c].stopped => b = c
    BY <1>1, <1>6, <1>9 DEF Results
  <2>3. ASSUME NEW u \in Threads, returned'[u] # <<>>
        PROVE  /\ returned'[u][2] # 0 => returned'[u][2] \in DOMAIN attempts'[returned'[u][1]]
               /\ returned'[u][3] => stopped'[returned'[u][1]]
               /\ returned'[u][2] # 0 /\ returned'[u][3] =>
                    attempts'[returned'[u][1]][returned'[u][2]].stopped
    <3>1. /\ returned[u][1] \in Emulators
          /\ returned[u][2] # 0 => returned[u][2] \in DOMAIN attempts[returned[u][1]]
          /\ returned[u][3] => stopped[returned[u][1]]
          /\ returned[u][2] # 0 /\ returned[u][3] =>
               attempts[returned[u][1]][returned[u][2]].stopped
      BY <1>1, <2>3 DEF Results, CloseTellsTheTruth, TypeOK
    <3> QED BY <1>1, <1>6, <1>9, <3>1
  <2> QED BY <2>1, <2>2, <2>3 DEF Results, CloseTellsTheTruth
<1>15. Final
  BY <1>3, <1>9 DEF Final
<1> QED BY <1>7, <1>10, <1>11, <1>12, <1>13, <1>14, <1>15

\* A close that fails ends its own attempt; one that gives up waiting for a
\* worker leaves it alone, and so does one that followed another's.
LEMMA EndingSteps ==
  ASSUME IInv, NEW t \in Threads,
         Defer(t) \/ CloseFails(t) \/ CloseTimesOut(t) \/ CloseReturns(t)
  PROVE  IInv' /\ Final
<1> DEFINE s == target[t][1]
           a == target[t][2]
<1> USE DEF IInv
<1>1. pc[t] \in {"defer", "lock", "launch", "await", "wait"}
  BY DEF Defer, CloseFails, CloseTimesOut, CloseReturns
<1>2. s \in Emulators /\ a \in Nat \ {0} /\ target[t] = <<s, a>>
      /\ attempts[s][a] \in AttemptRecords
  BY <1>1, Following DEF Closing
<1>3. owner[s] = t => /\ pc[t] \in {"lock", "launch", "defer"} /\ running[s] = 0
                      /\ current[s] = a /\ ~attempts[s][a].done
  BY <1>1, <1>2, NamesAssumption DEF CloserOwned
<1>4. pc[t] \in {"lock", "launch"} => owner[s] = t
  BY DEF CloserOwned
<1>5. CASE Defer(t)
  <2>1. CASE owner[s] = t
    BY <1>1, <1>3, <1>5, <2>1, CloseEnds DEF Defer, Attempt
  <2>2. CASE owner[s] # t
    BY <1>1, <1>5, <2>2, CloseEnds DEF Defer, Attempt
  <2> QED BY <2>1, <2>2
<1>6. CASE CloseFails(t)
  BY <1>1, <1>3, <1>4, <1>6, CloseEnds DEF CloseFails, Abandon
<1>7. CASE CloseTimesOut(t)
  <2>1. owner[s] # t
    BY <1>3, <1>7 DEF CloseTimesOut
  <2>2. pc[t] = "await" => running[s] # 0
    BY <1>2, <1>7 DEF CloseTimesOut, Attempt, CloserOwned
  <2>3. UNCHANGED <<attempts, owner, closed, stopped, current, running>>
    BY <1>7, <2>1, <2>2 DEF CloseTimesOut, Abandon, sessionVars
  <2> QED BY <1>1, <1>7, <2>1, <2>3, CloseEnds DEF CloseTimesOut
<1>8. CASE CloseReturns(t)
  <2>1. attempts[s][a].stopped \in BOOLEAN
    BY <1>2 DEF AttemptRecords
  <2>2. owner[s] # t
    BY <1>3, <1>8 DEF CloseReturns
  <2>3. /\ Ends(t, attempts[s][a].stopped)
        /\ UNCHANGED <<frames, want, open, lock, closed, stopped, current, running, attempts, owner>>
    BY <1>8 DEF CloseReturns, Attempt, sessionVars
  <2> QED BY <1>1, <2>1, <2>2, <2>3, CloseEnds
<1> QED BY <1>5, <1>6, <1>7, <1>8

-----------------------------------------------------------------------------
(* The stop worker *)

\* A worker's step within its attempt: its lock follows its stop.
LEMMA WorkerMoves ==
  ASSUME IInv, NEW s \in Emulators, NEW a \in DOMAIN attempts[s],
         NEW from \in {"start", "stop"}, NEW to \in {"stop", "stopped", "failed"},
         Step(s, a, from, to),
         \/ from = "start" /\ to = "stop" /\ lock[s] = Free /\ lock' = [lock EXCEPT ![s] = Worker(s)]
         \/ from = "start" /\ to = "failed" /\ lock' = lock
         \/ from = "stop" /\ to # "stop" /\ lock' = [lock EXCEPT ![s] = Free]
  PROVE  IInv' /\ Final
<1> DEFINE r == [attempts[s][a] EXCEPT !.worker = to]
<1> USE DEF IInv
<1>1. /\ attempts[s][a].worker = from /\ attempts' = [attempts EXCEPT ![s][a].worker = to]
      /\ UNCHANGED <<pc, frames, want, open, target, closed, stopped, owner, current, running, returned>>
  BY DEF Step
<1>2. attempts[s][a] \in AttemptRecords /\ a \in Nat \ {0}
  BY AttemptType
<1>3. running[s] = a /\ ~attempts[s][a].done
  BY <1>1, <1>2 DEF WorkerOwned
<1>4. r \in AttemptRecords /\ r.done = attempts[s][a].done /\ r.stopped = attempts[s][a].stopped
      /\ r.worker = to
  BY <1>2 DEF AttemptRecords
<1>5. attempts' = [attempts EXCEPT ![s][a] = r]
  BY <1>1
<1> HIDE DEF r
<1>6. /\ attempts' \in [Emulators -> Seq(AttemptRecords)]
      /\ \A q \in Emulators : DOMAIN attempts'[q] = DOMAIN attempts[q]
      /\ attempts'[s][a] = r
      /\ \A q \in Emulators : \A b \in DOMAIN attempts[q] :
           (q # s \/ b # a) => attempts'[q][b] = attempts[q][b]
  BY <1>4, <1>5, Rewritten
<1>7. TypeOK'
  <2>1. lock' \in [Emulators -> Threads \cup Emulators \cup {Free}]
    BY DEF TypeOK, Worker
  <2> QED BY <1>1, <1>6, <2>1 DEF TypeOK
<1>8. \A q \in Emulators : \A b \in DOMAIN attempts[q] :
        /\ attempts'[q][b].done = attempts[q][b].done
        /\ attempts'[q][b].stopped = attempts[q][b].stopped
        /\ (q = s /\ b = a) \/ attempts'[q][b] = attempts[q][b]
  BY <1>4, <1>6
<1>9. Followed'
  BY <1>1, <1>6 DEF Followed
<1>10. WorkerOwned'
  <2>1. \A q \in Emulators : \A b \in DOMAIN attempts'[q] :
          attempts'[q][b].worker # "none" => running'[q] = b
    BY <1>1, <1>3, <1>6, <1>8 DEF WorkerOwned
  <2> QED BY <1>1, <1>6, <1>8, <2>1 DEF WorkerOwned
<1>11. CloserOwned'
  <2>1. \A q \in Emulators : owner[q] # Free => current[q] \in DOMAIN attempts[q]
    BY DEF CloserOwned
  <2>2. \A u \in Threads : pc[u] = "await" =>
          target[u][1] \in Emulators /\ target[u][2] \in DOMAIN attempts[target[u][1]]
    BY Following DEF Closing
  <2>3. \A u \in Threads : pc'[u] = "await" =>
          attempts'[target'[u][1]][target'[u][2]].done
          \/ running'[target'[u][1]] = target'[u][2]
    BY <1>1, <1>8, <2>2 DEF CloserOwned
  <2>4. ASSUME NEW q \in Emulators, owner'[q] # Free
        PROVE  /\ pc'[owner'[q]] \in {"lock", "hooks", "launch", "defer"}
               /\ target'[owner'[q]] = <<q, current'[q]>>
               /\ running'[q] = 0 /\ current'[q] \in DOMAIN attempts'[q]
               /\ ~attempts'[q][current'[q]].done /\ ~stopped'[q]
    <3>1. /\ pc[owner[q]] \in {"lock", "hooks", "launch", "defer"}
          /\ target[owner[q]] = <<q, current[q]>>
          /\ running[q] = 0 /\ ~attempts[q][current[q]].done /\ ~stopped[q]
      BY <1>1, <2>4 DEF CloserOwned
    <3> QED BY <1>1, <1>6, <1>8, <2>1, <2>4, <3>1
  <2> QED BY <1>1, <2>3, <2>4 DEF CloserOwned
<1>12. Results'
  <2>1. /\ \A q \in Emulators : current'[q] # 0 => current'[q] \in DOMAIN attempts'[q]
        /\ \A q \in Emulators : \A b \in DOMAIN attempts'[q] : attempts'[q][b].stopped =>
             stopped'[q] /\ attempts'[q][b].done
        /\ \A q \in Emulators : \A b, c \in DOMAIN attempts'[q] :
             attempts'[q][b].stopped /\ attempts'[q][c].stopped => b = c
    BY <1>1, <1>6, <1>8 DEF Results
  <2>2. ASSUME NEW u \in Threads, returned'[u] # <<>>
        PROVE  /\ returned'[u][2] # 0 => returned'[u][2] \in DOMAIN attempts'[returned'[u][1]]
               /\ returned'[u][3] => stopped'[returned'[u][1]]
               /\ returned'[u][2] # 0 /\ returned'[u][3] =>
                    attempts'[returned'[u][1]][returned'[u][2]].stopped
    <3>1. /\ returned[u][1] \in Emulators
          /\ returned[u][2] # 0 => returned[u][2] \in DOMAIN attempts[returned[u][1]]
          /\ returned[u][3] => stopped[returned[u][1]]
          /\ returned[u][2] # 0 /\ returned[u][3] =>
               attempts[returned[u][1]][returned[u][2]].stopped
      BY <1>1, <2>2 DEF Results, CloseTellsTheTruth, TypeOK
    <3> QED BY <1>1, <1>6, <1>8, <3>1
  <2> QED BY <2>1, <2>2 DEF Results, CloseTellsTheTruth
<1>13. Final
  BY <1>3, <1>8 DEF Final
<1>14. LocksHeld'
  <2>1. lock[s] \notin Threads \/ lock' = lock
    <3>1. from = "stop" => lock[s] = s
      BY <1>1 DEF LocksHeld, Stopping, Worker
    <3> QED BY <3>1, NamesAssumption
  <2>2. lock'[s] \notin Threads \/ lock' = lock
    BY NamesAssumption DEF TypeOK, Worker
  <2>3. \A q \in Emulators \ {s} : lock'[q] = lock[q]
    BY DEF TypeOK
  <2>4. \A u \in Threads : Held(u)' = Held(u)
    BY <1>1 DEF Held
  <2>5. \A u \in Threads : \A q \in Held(u)' : lock'[q] = u
    BY <2>1, <2>3, <2>4, HeldType DEF LocksHeld
  <2>6. \A u \in Threads, q \in Emulators : lock'[q] = u =>
          q \in Held(u)' \/ (pc'[u] = "hooks" /\ target'[u][1] = q)
    BY <1>1, <2>2, <2>3, <2>4 DEF LocksHeld
  <2>7. ASSUME NEW u \in Threads, pc'[u] = "hooks" PROVE lock'[target'[u][1]] = u
    <3>1. pc[u] = "hooks" /\ lock[target[u][1]] = u
      BY <1>1, <2>7 DEF LocksHeld
    <3>2. target[u][1] \in Emulators
      BY <3>1, Following DEF Closing
    <3> QED BY <1>1, <2>1, <2>3, <3>1, <3>2
  <2>8. \A u \in Threads : pc'[u] \in {"lock", "hooks"} => MayWait(u, target[u][1])'
    BY <1>1, <2>4 DEF LocksHeld, MayWait, InOrder
  <2>9. ASSUME NEW q \in Emulators, Stopping(q)' # {} PROVE lock'[q] = Worker(q)
    <3>1. CASE q # s
      <4>1. Stopping(q)' = Stopping(q)
        BY <1>6, <3>1 DEF Stopping
      <4> QED BY <2>3, <2>9, <3>1, <4>1 DEF LocksHeld
    <3>2. CASE q = s
      <4>1. PICK b \in DOMAIN attempts'[s] : attempts'[s][b].worker = "stop"
        BY <2>9, <3>2 DEF Stopping
      <4>2. b = a
        BY <1>1, <1>3, <1>7, <1>10, <4>1 DEF WorkerOwned
      <4>3. to = "stop"
        BY <1>4, <1>6, <4>1, <4>2
      <4> QED BY <3>2, <4>3 DEF TypeOK
    <3> QED BY <3>1, <3>2
  <2> QED BY <2>5, <2>6, <2>7, <2>8, <2>9 DEF LocksHeld, Worker
<1> QED BY <1>7, <1>9, <1>10, <1>11, <1>12, <1>13, <1>14

\* The result is published once, with the session's own.
LEMMA CommitStep ==
  ASSUME IInv, NEW s \in Emulators, NEW a \in DOMAIN attempts[s], Commit(s, a)
  PROVE  IInv' /\ Final
<1> DEFINE ok == attempts[s][a].worker = "stopped"
           r == [done |-> TRUE, stopped |-> ok, worker |-> "none"]
<1> USE DEF IInv
<1>1. /\ attempts[s][a].worker \in {"stopped", "failed"}
      /\ attempts' = [attempts EXCEPT ![s][a] = r]
      /\ stopped' = [stopped EXCEPT ![s] = @ \/ ok]
      /\ running' = [running EXCEPT ![s] = 0] /\ owner' = [owner EXCEPT ![s] = Free]
      /\ UNCHANGED <<pc, frames, want, open, target, lock, closed, current, returned>>
  BY DEF Commit
<1>2. a \in Nat \ {0}
  BY AttemptType
<1>3. /\ running[s] = a /\ current[s] = a /\ owner[s] = Free /\ ~attempts[s][a].done /\ ~stopped[s]
  BY <1>1, <1>2 DEF WorkerOwned
<1>4. ok \in BOOLEAN /\ r \in AttemptRecords /\ r.done /\ r.stopped = ok /\ r.worker = "none"
  BY DEF AttemptRecords
<1> HIDE DEF r, ok
<1>5. /\ attempts' \in [Emulators -> Seq(AttemptRecords)]
      /\ \A q \in Emulators : DOMAIN attempts'[q] = DOMAIN attempts[q]
      /\ attempts'[s][a] = r
      /\ \A q \in Emulators : \A b \in DOMAIN attempts[q] :
           (q # s \/ b # a) => attempts'[q][b] = attempts[q][b]
  BY <1>1, <1>4, Rewritten
<1>6. /\ stopped'[s] = ok /\ running'[s] = 0 /\ owner'[s] = Free
      /\ \A q \in Emulators \ {s} :
           stopped'[q] = stopped[q] /\ running'[q] = running[q] /\ owner'[q] = owner[q]
  BY <1>1, <1>3, <1>4 DEF TypeOK
<1>7. TypeOK'
  BY <1>1, <1>4, <1>5 DEF TypeOK
<1>8. Followed'
  BY <1>1, <1>5 DEF Followed
<1>9. LocksHeld'
  <2>1. \A q \in Emulators : Stopping(q)' # {} => Stopping(q) # {}
    BY <1>4, <1>5 DEF Stopping
  <2> QED BY <1>1, <2>1, LocksKept
<1>10. WorkerOwned'
  <2>1. \A b \in DOMAIN attempts[s] : b # a => attempts[s][b].worker = "none"
    BY <1>3 DEF WorkerOwned
  <2>2. \A b \in DOMAIN attempts'[s] : attempts'[s][b].worker = "none"
    BY <1>4, <1>5, <2>1
  <2>3. \A q \in Emulators \ {s} : \A b \in DOMAIN attempts'[q] :
          attempts'[q][b].worker # "none" => running'[q] = b
    BY <1>5, <1>6 DEF WorkerOwned
  <2>4. \A q \in Emulators \ {s} : running'[q] # 0 =>
          /\ running'[q] \in DOMAIN attempts'[q] /\ running'[q] = current'[q]
          /\ ~attempts'[q][running'[q]].done /\ owner'[q] = Free /\ ~stopped'[q]
    BY <1>1, <1>5, <1>6 DEF WorkerOwned
  <2> QED BY <1>6, <2>2, <2>3, <2>4 DEF WorkerOwned
<1>11. CloserOwned'
  <2>1. \A u \in Threads : pc'[u] \in {"lock", "hooks", "launch"} => owner'[target'[u][1]] = u
    <3> SUFFICES ASSUME NEW u \in Threads, pc'[u] \in {"lock", "hooks", "launch"}
                 PROVE  owner'[target'[u][1]] = u
      OBVIOUS
    <3>1. owner[target[u][1]] = u /\ target[u][1] \in Emulators
      BY <1>1, Following DEF CloserOwned, Closing
    <3> QED BY <1>1, <1>3, <1>6, <3>1, NamesAssumption
  <2>2. \A q \in Emulators : owner'[q] # Free => q # s
    BY <1>6
  <2>3. ASSUME NEW q \in Emulators, owner'[q] # Free
        PROVE  /\ pc'[owner'[q]] \in {"lock", "hooks", "launch", "defer"}
               /\ target'[owner'[q]] = <<q, current'[q]>>
               /\ running'[q] = 0 /\ current'[q] \in DOMAIN attempts'[q]
               /\ ~attempts'[q][current'[q]].done /\ ~stopped'[q]
    <3>1. q # s /\ owner'[q] = owner[q]
      BY <1>6, <2>2, <2>3
    <3>2. /\ pc[owner[q]] \in {"lock", "hooks", "launch", "defer"}
          /\ target[owner[q]] = <<q, current[q]>>
          /\ running[q] = 0 /\ current[q] \in DOMAIN attempts[q]
          /\ ~attempts[q][current[q]].done /\ ~stopped[q]
      BY <2>3, <3>1 DEF CloserOwned
    <3> QED BY <1>1, <1>5, <1>6, <3>1, <3>2
  <2>4. ASSUME NEW u \in Threads, pc'[u] = "await"
        PROVE  attempts'[target'[u][1]][target'[u][2]].done
               \/ running'[target'[u][1]] = target'[u][2]
    <3>1. attempts[target[u][1]][target[u][2]].done \/ running[target[u][1]] = target[u][2]
      BY <1>1, <2>4 DEF CloserOwned
    <3>2. target[u][1] \in Emulators /\ target[u][2] \in DOMAIN attempts[target[u][1]]
      BY <1>1, <2>4, Following DEF Closing
    <3> QED BY <1>1, <1>3, <1>4, <1>5, <1>6, <3>1, <3>2
  <2> QED BY <2>1, <2>3, <2>4 DEF CloserOwned
<1>12. Results'
  <2>1. \A q \in Emulators : current'[q] # 0 => current'[q] \in DOMAIN attempts'[q]
    BY <1>1, <1>5 DEF Results
  <2>2. \A b \in DOMAIN attempts[s] : ~attempts[s][b].stopped
    BY <1>3 DEF Results
  <2>3. \A b \in DOMAIN attempts'[s] : attempts'[s][b].stopped => b = a /\ stopped'[s] /\ attempts'[s][b].done
    BY <1>4, <1>5, <1>6, <2>2
  <2>4. \A q \in Emulators : \A b \in DOMAIN attempts'[q] : attempts'[q][b].stopped =>
          stopped'[q] /\ attempts'[q][b].done
    BY <1>5, <1>6, <2>3 DEF Results
  <2>5. \A q \in Emulators : \A b, c \in DOMAIN attempts'[q] :
          attempts'[q][b].stopped /\ attempts'[q][c].stopped => b = c
    BY <1>5, <2>3 DEF Results
  <2>6. ASSUME NEW u \in Threads, returned'[u] # <<>>
        PROVE  /\ returned'[u][2] # 0 => returned'[u][2] \in DOMAIN attempts'[returned'[u][1]]
               /\ returned'[u][3] => stopped'[returned'[u][1]]
               /\ returned'[u][2] # 0 /\ returned'[u][3] =>
                    attempts'[returned'[u][1]][returned'[u][2]].stopped
    <3>1. /\ returned[u][1] \in Emulators
          /\ returned[u][2] # 0 => returned[u][2] \in DOMAIN attempts[returned[u][1]]
          /\ returned[u][3] => stopped[returned[u][1]]
          /\ returned[u][2] # 0 /\ returned[u][3] =>
               attempts[returned[u][1]][returned[u][2]].stopped
      BY <1>1, <2>6 DEF Results, CloseTellsTheTruth, TypeOK
    <3>2. returned[u][3] => returned[u][1] # s
      BY <1>3, <3>1
    <3> QED BY <1>1, <1>5, <1>6, <3>1, <3>2
  <2> QED BY <2>1, <2>4, <2>5, <2>6 DEF Results, CloseTellsTheTruth
<1>13. Final
  BY <1>3, <1>5 DEF Final
<1> QED BY <1>7, <1>8, <1>9, <1>10, <1>11, <1>12, <1>13

\* Every step of a worker, of any attempt.
LEMMA WorkerSteps ==
  ASSUME IInv, NEW s \in Emulators, WorkerStep(s)
  PROVE  IInv' /\ Final
<1>1. PICK a \in DOMAIN attempts[s] :
        BeginStop(s, a) \/ Busy(s, a) \/ EndStop(s, a) \/ Commit(s, a)
  BY DEF WorkerStep
<1>2. CASE BeginStop(s, a) \/ Busy(s, a)
  BY <1>2, WorkerMoves DEF BeginStop, Busy
<1>3. CASE EndStop(s, a)
  BY <1>3, WorkerMoves DEF EndStop
<1>4. CASE Commit(s, a)
  BY <1>4, CommitStep
<1> QED BY <1>1, <1>2, <1>3, <1>4

-----------------------------------------------------------------------------
(* The theorems *)

\* The invariant holds at first.
LEMMA InitEstablishes == Init => IInv
<1> SUFFICES ASSUME Init PROVE IInv
  OBVIOUS
<1>1. TypeOK
  BY DEF Init, TypeOK
<1>2. \A t \in Threads : Held(t) = {}
  BY DEF Init, Held, In
<1>3. LocksHeld
  BY <1>2, NamesAssumption DEF Init, LocksHeld, Stopping
<1>4. Followed /\ WorkerOwned /\ CloserOwned /\ Results
  BY DEF Init, Followed, Closing, WorkerOwned, CloserOwned, Results, CloseTellsTheTruth
<1> QED BY <1>1, <1>3, <1>4 DEF IInv

\* A stuttering step keeps it.
LEMMA StutterKeeps ==
  ASSUME IInv, UNCHANGED vars
  PROVE  IInv' /\ Final
<1> USE DEF IInv, vars
<1>1. TypeOK' /\ Followed' /\ WorkerOwned' /\ CloserOwned' /\ Results' /\ Final
  BY DEF TypeOK, Followed, WorkerOwned, CloserOwned, Results, CloseTellsTheTruth, Final
<1>2. LocksHeld'
  BY DEF LocksHeld, Held, MayWait, InOrder, Stopping
<1> QED BY <1>1, <1>2

\* Every step keeps it, and no step changes a published result.
LEMMA StepKeeps ==
  ASSUME IInv, [Next]_vars
  PROVE  IInv' /\ Final
<1>1. CASE UNCHANGED vars
  BY <1>1, StutterKeeps
<1>2. ASSUME NEW t \in Threads, ScopeStep(t) \/ GiveUp(t) PROVE IInv' /\ Final
  BY <1>2, ScopeSteps
<1>3. ASSUME NEW t \in Threads, CloseStep(t) \/ CloseFails(t) \/ CloseTimesOut(t)
      PROVE  IInv' /\ Final
  BY <1>3, TakeLockStep, CloseHooksStep, LaunchStep, EndingSteps DEF CloseStep
<1>4. ASSUME NEW t \in Threads, NEW es \in (SUBSET Emulators) \ {{}}, NEW refusing \in BOOLEAN,
             Start(t, es, refusing)
      PROVE  IInv' /\ Final
  BY <1>4, StartStep
<1>5. ASSUME NEW t \in Threads, NEW s \in Emulators,
             CloseStopped(t, s) \/ Join(t, s) \/ Claim(t, s)
      PROVE  IInv' /\ Final
  BY <1>5, CloseStoppedStep, JoinStep, ClaimStep
<1>6. ASSUME NEW s \in Emulators, WorkerStep(s) PROVE IInv' /\ Final
  BY <1>6, WorkerSteps
<1> QED BY <1>1, <1>2, <1>3, <1>4, <1>5, <1>6 DEF Next

\* The locks follow the scopes and the closes, and each attempt is owned by
\* one closer or one worker, in every reachable state.
THEOREM OwnershipInvariant == Spec => []IInv
<1>1. IInv /\ [Next]_vars => IInv'
  BY StepKeeps
<1> QED BY InitEstablishes, <1>1, PTL DEF Spec

\* Threads that nest scopes of emulators in any way and close sessions from
\* inside them never wait for each other's locks in a ring.
THEOREM NoDeadlockOfLocks == Spec => []NoRing
<1>1. IInv => NoRing
  BY NoRingFollows DEF IInv
<1> QED BY OwnershipInvariant, <1>1, PTL

\* However many closes race, time out and retry, no two stops overlap, none
\* begins after one has worked, and no thread is inside while one runs.
THEOREM EmulatorIsStoppedOnce == Spec => []StopOnce
<1>1. IInv => StopOnce
  BY StopOnceFollows DEF IInv
<1> QED BY OwnershipInvariant, <1>1, PTL

\* What a close tells its caller is true of the session and of the attempt
\* the caller followed.
THEOREM CloseIsTruthful == Spec => []CloseTellsTheTruth
<1>1. IInv => CloseTellsTheTruth
  BY DEF IInv, Results
<1> QED BY OwnershipInvariant, <1>1, PTL

\* No step changes an attempt whose result is published.
THEOREM PublishedResultsStay == Spec => ResultsAreFinal
<1>1. IInv /\ [Next]_vars =>
        [\A s \in Emulators : \A a \in DOMAIN attempts[s] :
           attempts[s][a].done => attempts'[s][a] = attempts[s][a]]_vars
  BY StepKeeps DEF Final
<1> QED BY OwnershipInvariant, <1>1, PTL DEF Spec, ResultsAreFinal

=============================================================================
