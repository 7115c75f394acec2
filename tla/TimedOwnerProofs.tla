-------------------------- MODULE TimedOwnerProofs --------------------------
(***************************************************************************)
(* Proofs about TimedOwner for every capacity of the queue, every number   *)
(* of requests and epochs, whether the owner is closed or not.             *)
(***************************************************************************)
EXTENDS TimedOwner, SequenceTheorems, TLAPS

-----------------------------------------------------------------------------
(* The inductive invariant *)

Idle == {"loop", "woken", "teardown", "gone"}
Working == {"begin", "running", "connecting", "attaching"}
Ending == {"sealing", "closing", "reopening"}

(* What the owner is about, and which epoch it has a hand on there. *)
Where ==
  /\ pc \in Idle \cup Working \cup Ending \cup {"retire", "clean", "detaching", "forgetting"}
  /\ pc \in Idle <=> active = 0
  /\ pc \in Working => active \in Requests
  /\ pc \in Ending \cup {"clean", "detaching", "forgetting"} => active = Cleaning
  /\ pc = "retire" => outcome # "none"
  /\ pc = "running" => Current(active) /\ session = "open"
  /\ pc \in {"connecting", "attaching"} => IsSetup(active)
  /\ pc \in Ending \cup {"connecting"} => endpoint = 0
  /\ pc = "forgetting" => attached = 0
  /\ attached # 0 => attached = endpoint
  /\ stopped => pc \in {"loop", "gone"} \/ (pc = "retire" /\ active = Cleaning)
  /\ stopped => attached = 0

(* A request waits in the queue once and untouched, or is the active one,  *)
(* or has its outcome.                                                     *)
Waiting ==
  /\ \A i, j \in DOMAIN queue : queue[i] = queue[j] => i = j
  /\ \A r \in Requests : InQueue(r) =>
       /\ r # active /\ requests[r].outcome = "none"
       /\ requests[r].phase = "queued" /\ ~requests[r].cancelled
  /\ \A r \in Requests : ~InQueue(r) /\ r # active => requests[r].outcome # "none"

(* Of the setups one at most is waiting or active. *)
Live(r) == InQueue(r) \/ r = active

OneSetup ==
  /\ \A r \in Requests : IsSetup(r) /\ Live(r) => setupPending
  /\ \A r, q \in Requests : IsSetup(r) /\ Live(r) /\ IsSetup(q) /\ Live(q) => r = q
  /\ \A r \in Requests : IsSetup(r) /\ InQueue(r) => endpoint = 0

(* A call of the present generation that was admitted to an epoch finds it *)
(* in force, but while the owner ends the generation or when it closes.    *)
EpochsKept ==
  \A r \in Requests :
    /\ Current(r) /\ requests[r].epoch # 0
    /\ session = "open" /\ pc \notin Ending
    => requests[r].epoch = endpoint

IInv == TypeOK /\ Where /\ Waiting /\ OneSetup /\ EpochsKept

-----------------------------------------------------------------------------
(* Steps that leave the requests and the queue alone *)

\* The initial state.
LEMMA InitEstablishes == Init => IInv
<1> SUFFICES ASSUME Init PROVE IInv
  OBVIOUS
<1>1. /\ requests = <<>> /\ queue = <<>> /\ DOMAIN requests = {} /\ DOMAIN queue = {}
      /\ Len(requests) = 0 /\ Len(queue) = 0
      /\ requests \in Seq(Request) /\ queue \in Seq(Requests)
  BY EmptySeq DEF Init, Requests
<1>2. cleanup \in BOOLEAN /\ admitting \in BOOLEAN /\ setupPending \in BOOLEAN /\ failed \in BOOLEAN
  BY DEF Init
<1>6. ended \in BOOLEAN /\ closing \in BOOLEAN /\ stopped \in BOOLEAN
  BY DEF Init
<1>3. TypeOK
  BY <1>1, <1>2, <1>6, OwnerAssumption DEF Init, TypeOK, Requests
<1>4. Where
  BY DEF Init, Where, Idle, Working, Ending
<1>5. Waiting /\ OneSetup /\ EpochsKept
  BY <1>1 DEF Init, Waiting, OneSetup, EpochsKept, Requests
<1> QED BY <1>3, <1>4, <1>5 DEF IInv

\* The cleanup is no request.
LEMMA NoRequest == ASSUME TypeOK PROVE 0 \notin Requests /\ Cleaning \notin Requests /\ Cleaning # 0
<1>1. Requests = 1..Len(requests) /\ Len(requests) \in Nat /\ Len(requests) <= MaxRequests
  BY LenProperties DEF TypeOK, Requests
<1> QED BY <1>1, OwnerAssumption DEF Cleaning

\* Each request is a record with its fields.
LEMMA RequestTypes ==
  ASSUME TypeOK
  PROVE  /\ Requests = 1..Len(requests) /\ Len(requests) \in Nat
         /\ \A r \in Requests :
              /\ requests[r] \in Request
              /\ requests[r].generation \in Nat /\ requests[r].epoch \in Nat
              /\ requests[r].outcome \in {"none", "result", "error"}
<1>1. Requests = 1..Len(requests) /\ Len(requests) \in Nat
  BY LenProperties DEF TypeOK, Requests
<1>2. \A r \in Requests : requests[r] \in Request
  BY <1>1, ElementOfSeq DEF TypeOK
<1> QED BY <1>1, <1>2 DEF Request

\* As long as the active request is the same, or none is before and after,
\* and no epoch begins, what is said of the queue stays.
LEMMA Untouched ==
  ASSUME IInv, UNCHANGED <<requests, queue, setupPending>>,
         active' = active \/ {active, active'} \cap Requests = {},
         endpoint' = endpoint \/ endpoint' = 0
  PROVE  Waiting' /\ OneSetup'
<1>1. /\ Requests' = Requests /\ \A r : InQueue(r)' <=> InQueue(r)
      /\ \A r : IsSetup(r)' <=> IsSetup(r)
  BY DEF Requests, InQueue, IsSetup
<1>2. \A r \in Requests : r = active' <=> r = active
  OBVIOUS
<1>3. Waiting'
  BY <1>1, <1>2 DEF IInv, Waiting, Requests
<1>4. OneSetup'
  BY <1>1, <1>2 DEF IInv, OneSetup, Live, Requests
<1> QED BY <1>3, <1>4

\* Steps of other threads, or of the owner, that change none of what the
\* invariant says more of than its type.
LEMMA StutterKeeps ==
  ASSUME IInv, cleanup' \in BOOLEAN, admitting' \in BOOLEAN, failed' \in BOOLEAN, ended' \in BOOLEAN,
         closing' \in BOOLEAN,
         UNCHANGED <<requests, queue, setupPending, active, pc, outcome, generation,
                     endpoint, attached, stopped, session>>
  PROVE  IInv'
<1>1. TypeOK'
  BY DEF IInv, TypeOK, Requests
<1>2. Where'
  BY DEF IInv, Where, Current, IsSetup, Requests
<1>3. EpochsKept'
  BY DEF IInv, EpochsKept, Current, Requests
<1> QED BY <1>1, <1>2, <1>3, Untouched DEF IInv

\* A cleanup of the owner's own accord, its rest, its wait and its end.
LEMMA LoopSteps == ASSUME IInv, TakeCleanup \/ Wait \/ Wake \/ Stop PROVE IInv'
<1> USE NoRequest DEF IInv, Ended, Goto, requestVars, ownerVars, admissionVars, epochVars, closeVars
<1>1. TypeOK'
  <2>1. CASE TakeCleanup
    BY <2>1 DEF TypeOK, Requests, TakeCleanup
  <2>2. CASE Wait
    BY <2>2 DEF TypeOK, Requests, Wait
  <2>3. CASE Wake
    BY ZenonT(60), <2>3 DEF TypeOK, Requests, Wake
  <2>4. CASE Stop
    BY <2>4 DEF TypeOK, Requests, Stop
  <2> QED BY <2>1, <2>2, <2>3, <2>4
<1>2. Where'
  <2>1. CASE TakeCleanup
    BY <2>1 DEF Where, Current, IsSetup, Requests, Idle, Working, Ending, TakeCleanup
  <2>2. CASE Wait
    BY <2>2 DEF Where, Current, IsSetup, Requests, Idle, Working, Ending, Wait
  <2>3. CASE Wake
    BY <2>3 DEF Where, Current, IsSetup, Requests, Idle, Working, Ending, Wake
  <2>4. CASE Stop
    BY <2>4 DEF Where, Current, IsSetup, Requests, Idle, Working, Ending, Stop
  <2> QED BY <2>1, <2>2, <2>3, <2>4
<1>3. Waiting' /\ OneSetup'
  <2>1. active' = active \/ {active, active'} \cap Requests = {}
    BY DEF Where, Idle, TakeCleanup, Wait, Wake, Stop
  <2> QED BY <2>1, Untouched DEF TakeCleanup, Wait, Wake, Stop
<1>4. EpochsKept'
  BY DEF EpochsKept, Current, Requests, Ending, TakeCleanup, Wait, Wake, Stop
<1> QED BY <1>1, <1>2, <1>3, <1>4

\* The work of a request: it begins, runs, connects and attaches.
LEMMA WorkSteps == ASSUME IInv, Begin \/ Call \/ Connect \/ Attach \/ AttachFails PROVE IInv'
<1> USE DEF IInv, Ended, Goto, requestVars, ownerVars, admissionVars, epochVars, closeVars
<1>1. TypeOK'
  <2>1. attached' \in {0, attached, endpoint} /\ endpoint' \in {endpoint, generation + 1}
    BY DEF Begin, Call, Connect, Attach, AttachFails
  <2>2. ended' \in BOOLEAN /\ outcome' \in {"none", "result", "error"}
    BY DEF TypeOK, Begin, Call, Connect, Attach, AttachFails
  <2>3. UNCHANGED <<requests, queue, setupPending, active, cleanup, admitting, generation, failed,
                    closing, stopped, session>>
    BY DEF Begin, Call, Connect, Attach, AttachFails
  <2> QED BY <2>1, <2>2, <2>3 DEF TypeOK, Requests
<1>2. Where'
  <2>1. CASE Begin
    BY <2>1 DEF TypeOK, Where, Current, IsSetup, Requests, Idle, Working, Ending, Begin
  <2>2. CASE Call
    BY <2>2 DEF TypeOK, Where, Current, IsSetup, Requests, Idle, Working, Ending, Call
  <2>3. CASE Connect
    BY <2>3 DEF TypeOK, Where, Current, IsSetup, Requests, Idle, Working, Ending, Connect
  <2>4. CASE Attach
    BY <2>4 DEF TypeOK, Where, Current, IsSetup, Requests, Idle, Working, Ending, Attach
  <2>5. CASE AttachFails
    BY <2>5 DEF TypeOK, Where, Current, IsSetup, Requests, Idle, Working, Ending, AttachFails
  <2> QED BY <2>1, <2>2, <2>3, <2>4, <2>5
<1>3. Waiting' /\ OneSetup'
  <2>1. CASE Connect
    <3>1. IsSetup(active) /\ active \in Requests
      BY <2>1 DEF Connect, Where, Working
    <3>2. \A r \in Requests : ~(IsSetup(r) /\ InQueue(r))
      BY <3>1 DEF OneSetup, Waiting, Live
    <3>3. /\ Requests' = Requests /\ \A r : InQueue(r)' <=> InQueue(r)
          /\ \A r : IsSetup(r)' <=> IsSetup(r)
      BY <2>1 DEF Connect, Requests, InQueue, IsSetup
    <3>4. Waiting'
      BY <2>1, <3>3 DEF Connect, Waiting, Requests
    <3>5. OneSetup'
      BY <2>1, <3>2, <3>3 DEF Connect, OneSetup, Live
    <3> QED BY <3>4, <3>5
  <2>2. CASE Begin \/ Call \/ Attach \/ AttachFails
    BY <2>2, Untouched DEF Begin, Call, Attach, AttachFails
  <2> QED BY <2>1, <2>2
<1>4. EpochsKept'
  BY DEF EpochsKept, Where, Working, Current, Requests, Ending, Begin, Call, Connect, Attach, AttachFails
<1> QED BY <1>1, <1>2, <1>3, <1>4

\* The cleanup of an epoch, up to the one that reopens.
LEMMA CleanSteps == ASSUME IInv, Clean \/ Detach \/ Forget \/ Seal \/ CloseSession \/ Reopen PROVE IInv'
<1> USE DEF IInv, Ended, Goto, requestVars, ownerVars, admissionVars, epochVars, closeVars
<1>1. TypeOK'
  <2>1. CASE Clean
    BY <2>1 DEF TypeOK, Requests, Clean
  <2>2. CASE Detach
    <3>1. (attached' = 0 \/ attached' = attached) /\ ended' \in BOOLEAN
      BY <2>2 DEF Detach, TypeOK
    <3>2. outcome' \in {"none", "result", "error"}
      BY <2>2 DEF Detach, TypeOK
    <3>3. UNCHANGED <<requests, queue, setupPending, active, cleanup, admitting, generation, failed,
                      endpoint, closing, stopped, session>>
      BY <2>2 DEF Detach
    <3> QED BY <3>1, <3>2, <3>3 DEF TypeOK, Requests
  <2>3. CASE Forget
    <3>1. ended' \in BOOLEAN
      BY <2>3 DEF Forget
    <3> QED BY <2>3, <3>1 DEF TypeOK, Requests, Forget
  <2>4. CASE Seal
    BY <2>4 DEF TypeOK, Requests, Seal
  <2>5. CASE CloseSession
    BY <2>5 DEF TypeOK, Requests, CloseSession
  <2>6. CASE Reopen
    <3>1. admitting' \in BOOLEAN /\ failed' \in BOOLEAN /\ stopped' \in BOOLEAN
      BY <2>6 DEF Reopen, TypeOK
    <3>2. generation' = generation + 1 /\ UNCHANGED <<requests, endpoint, attached>>
      BY <2>6 DEF Reopen
    <3>3. \A r \in Requests :
            requests[r].generation <= generation' /\ requests[r].epoch <= generation' + 1
      BY <3>2, RequestTypes DEF TypeOK
    <3> QED BY <2>6, <3>1, <3>2, <3>3 DEF TypeOK, Requests, Reopen
  <2> QED BY <2>1, <2>2, <2>3, <2>4, <2>5, <2>6
<1>2. Where'
  <2>1. CASE Clean
    BY <2>1, NoRequest DEF TypeOK, Where, Current, IsSetup, Requests, Idle, Working, Ending, Clean
  <2>2. CASE Detach
    BY <2>2, NoRequest DEF TypeOK, Where, Current, IsSetup, Requests, Idle, Working, Ending, Detach
  <2>3. CASE Forget
    BY <2>3, NoRequest DEF TypeOK, Where, Current, IsSetup, Requests, Idle, Working, Ending, Forget
  <2>4. CASE Seal
    BY <2>4, NoRequest DEF TypeOK, Where, Current, IsSetup, Requests, Idle, Working, Ending, Seal
  <2>5. CASE CloseSession
    BY <2>5, NoRequest DEF TypeOK, Where, Current, IsSetup, Requests, Idle, Working, Ending, CloseSession
  <2>6. CASE Reopen
    BY <2>6, NoRequest DEF TypeOK, Where, Current, IsSetup, Requests, Idle, Working, Ending, Reopen
  <2> QED BY <2>1, <2>2, <2>3, <2>4, <2>5, <2>6
<1>3. Waiting' /\ OneSetup'
  BY Untouched DEF Clean, Detach, Forget, Seal, CloseSession, Reopen
<1>4. EpochsKept'
  <2>1. CASE Clean
    BY <2>1 DEF TypeOK, EpochsKept, Where, Current, Requests, Ending, Clean
  <2>2. CASE Detach
    BY <2>2 DEF TypeOK, EpochsKept, Where, Current, Requests, Ending, Detach
  <2>3. CASE Forget
    BY <2>3 DEF TypeOK, EpochsKept, Where, Current, Requests, Ending, Forget
  <2>4. CASE Seal
    BY <2>4 DEF TypeOK, EpochsKept, Where, Current, Requests, Ending, Seal
  <2>5. CASE CloseSession
    BY <2>5 DEF TypeOK, EpochsKept, Where, Current, Requests, Ending, CloseSession
  <2>6. CASE Reopen
    BY <2>6 DEF TypeOK, EpochsKept, Where, Current, Requests, Ending, Reopen
  <2> QED BY <2>1, <2>2, <2>3, <2>4, <2>5, <2>6
<1> QED BY <1>1, <1>2, <1>3, <1>4

\* The closer announces itself and returns, a peer goes, the cancellation
\* thread does its work.
LEMMA OtherSteps == ASSUME IInv, CloseAnnounces \/ CloseReturns \/ EpochEnds \/ Canceller PROVE IInv'
BY StutterKeeps DEF IInv, TypeOK, CloseAnnounces, CloseReturns, EpochEnds, Canceller, CancelTakes,
     CancelReturns, CancelStops, requestVars, ownerVars, admissionVars, epochVars, closeVars

-----------------------------------------------------------------------------
(* Steps that mark requests *)

\* A function on 1..n is a sequence.
LEMMA FunctionIsSeq ==
  ASSUME NEW S, NEW n \in Nat, NEW f \in [1..n -> S]
  PROVE  f \in Seq(S) /\ Len(f) = n /\ DOMAIN f = 1..n
<1>1. f \in Seq(S) /\ DOMAIN f = 1..n
  BY SeqDef
<1> QED BY <1>1, LenProperties

\* What marking leaves: which requests there are, of which kind and epoch.
Marked ==
  /\ requests' \in Seq(Request) /\ Len(requests') = Len(requests) /\ Requests' = Requests
  /\ \A r \in Requests :
       /\ requests'[r].kind = requests[r].kind
       /\ requests'[r].generation = requests[r].generation
       /\ requests'[r].epoch = requests[r].epoch

\* One request is replaced by another of the same kind and epoch.
LEMMA MarkOne ==
  ASSUME TypeOK, NEW r \in Requests, NEW now \in Request,
         requests' = [requests EXCEPT ![r] = now],
         now.kind = requests[r].kind, now.generation = requests[r].generation,
         now.epoch = requests[r].epoch
  PROVE  Marked /\ requests'[r] = now /\ \A q \in Requests \ {r} : requests'[q] = requests[q]
<1>1. Requests = 1..Len(requests) /\ requests \in Seq(Request) /\ r \in 1..Len(requests)
  BY RequestTypes DEF TypeOK
<1>2. requests' \in Seq(Request) /\ Len(requests') = Len(requests)
  BY <1>1, ExceptSeq
<1>3. \A q \in 1..Len(requests) : requests'[q] = IF q = r THEN now ELSE requests[q]
  BY <1>1, ExceptSeq
<1>4. Requests' = Requests
  BY <1>1, <1>2, LenProperties DEF Requests
<1> QED BY <1>1, <1>2, <1>3, <1>4 DEF Marked

\* Every request is replaced by another of the same kind and epoch.
LEMMA MarkAll ==
  ASSUME TypeOK, NEW f, DOMAIN f = Requests, requests' = [r \in Requests |-> f[r]],
         \A r \in Requests :
           /\ f[r] \in Request
           /\ f[r].kind = requests[r].kind /\ f[r].generation = requests[r].generation
           /\ f[r].epoch = requests[r].epoch
  PROVE  Marked /\ \A r \in Requests : requests'[r] = f[r]
<1>1. Requests = 1..Len(requests) /\ Len(requests) \in Nat
  BY RequestTypes
<1>2. requests' \in [1..Len(requests) -> Request]
  BY <1>1
<1>3. requests' \in Seq(Request) /\ Len(requests') = Len(requests) /\ Requests' = Requests
  BY <1>1, <1>2, FunctionIsSeq DEF Requests
<1> QED BY <1>3 DEF Marked

\* Settling keeps all but the outcome.
LEMMA Settling ==
  ASSUME NEW q \in Request, NEW result \in {"none", "result", "error"}
  PROVE  LET s == Settled(q, result)
         IN /\ s \in Request /\ s.kind = q.kind /\ s.generation = q.generation /\ s.epoch = q.epoch
            /\ s.phase = q.phase /\ s.cancelled = q.cancelled
            /\ s.outcome = IF q.outcome = "none" THEN result ELSE q.outcome
BY DEF Settled, Request

\* A step that marks requests and lets the owner go on keeps the shape of the
\* state and the epochs of calls.
LEMMA MarkedKeeps ==
  ASSUME IInv, Marked, queue' \in Seq(Requests), Len(queue') <= QueueCapacity,
         active' \in {0, Cleaning} \cup Requests, outcome' \in {"none", "result", "error"},
         cleanup' \in BOOLEAN, admitting' \in BOOLEAN, setupPending' \in BOOLEAN, failed' \in BOOLEAN,
         UNCHANGED <<generation, endpoint, attached, ended, closing, stopped, session>>
  PROVE  TypeOK' /\ (pc \notin Ending => EpochsKept') /\ (pc' = pc => EpochsKept')
<1>1. TypeOK'
  BY DEF IInv, TypeOK, Marked
<1>2. pc \notin Ending \/ pc' = pc => EpochsKept'
  BY DEF IInv, EpochsKept, Current, Marked
<1> QED BY <1>1, <1>2

\* The queue without one of its elements.
LEMMA QueueWithout ==
  ASSUME IInv, NEW i \in DOMAIN queue, NEW rest,
         rest = RemoveAt(queue, i) \/ (i = 1 /\ rest = Tail(queue))
  PROVE  /\ rest \in Seq(Requests) /\ Len(rest) <= QueueCapacity
         /\ \A j, k \in DOMAIN rest : rest[j] = rest[k] => j = k
         /\ \A r : (\E j \in DOMAIN rest : rest[j] = r) <=> InQueue(r) /\ r # queue[i]
<1> DEFINE n == Len(queue)
<1>1. /\ queue \in Seq(Requests) /\ n \in Nat /\ n <= QueueCapacity /\ DOMAIN queue = 1..n /\ i \in 1..n
      /\ \A j \in 1..n : queue[j] \in Requests
  BY LenProperties, ElementOfSeq DEF IInv, TypeOK
<1>10. n = Len(queue)
  OBVIOUS
<1> HIDE DEF n
<1>2. /\ rest \in Seq(Requests) /\ Len(rest) = n - 1
      /\ \A j \in 1..n - 1 : rest[j] = IF j < i THEN queue[j] ELSE queue[j + 1]
  <2>1. CASE rest = RemoveAt(queue, i)
    <3> DEFINE a == SubSeq(queue, 1, i - 1)
               b == SubSeq(queue, i + 1, n)
    <3>1. /\ a \in Seq(Requests) /\ Len(a) = i - 1
          /\ \A j \in 1..i - 1 : a[j] = queue[j]
      <4>1. /\ a \in Seq(Requests) /\ Len(a) = IF 1 <= i - 1 THEN (i - 1) - 1 + 1 ELSE 0
            /\ \A j \in 1..(i - 1) - 1 + 1 : a[j] = queue[1 + j - 1]
        BY <1>1, SubSeqProperties
      <4> QED BY <1>1, <4>1
    <3>2. /\ b \in Seq(Requests) /\ Len(b) = n - i
          /\ \A j \in 1..n - i : b[j] = queue[i + j]
      <4>1. /\ b \in Seq(Requests) /\ Len(b) = IF i + 1 <= n THEN n - (i + 1) + 1 ELSE 0
            /\ \A j \in 1..n - (i + 1) + 1 : b[j] = queue[i + 1 + j - 1]
        BY <1>1, SubSeqProperties
      <4> QED BY <1>1, <4>1
    <3> HIDE DEF a, b
    <3>3. /\ a \o b \in Seq(Requests) /\ Len(a \o b) = Len(a) + Len(b)
          /\ \A j \in 1..Len(a) + Len(b) :
               (a \o b)[j] = IF j <= Len(a) THEN a[j] ELSE b[j - Len(a)]
      BY <3>1, <3>2, ConcatProperties
    <3>4. rest = a \o b
      BY <2>1, <1>10 DEF RemoveAt, a, b
    <3>5. \A j \in 1..n - 1 : rest[j] = IF j < i THEN queue[j] ELSE queue[j + 1]
      <4> SUFFICES ASSUME NEW j \in 1..n - 1
                   PROVE  rest[j] = IF j < i THEN queue[j] ELSE queue[j + 1]
        OBVIOUS
      <4>1. CASE j < i
        <5>1. j \in 1..i - 1 /\ j \in 1..Len(a) + Len(b) /\ j <= Len(a)
          BY <4>1, <1>1, <3>1, <3>2
        <5> QED BY <4>1, <5>1, <3>1, <3>3, <3>4
      <4>2. CASE ~(j < i)
        <5>1. j - (i - 1) \in 1..n - i
          BY <4>2, <1>1
        <5>2. i + (j - (i - 1)) = j + 1
          BY <1>1
        <5>3. rest[j] = b[j - (i - 1)]
          <6>1. j \in 1..Len(a) + Len(b) /\ ~(j <= Len(a))
            BY <4>2, <1>1, <3>1, <3>2
          <6> QED BY <6>1, <3>1, <3>3, <3>4
        <5> QED BY <4>2, <5>1, <5>2, <5>3, <3>2
      <4> QED BY <4>1, <4>2
    <3>6. rest \in Seq(Requests) /\ Len(rest) = n - 1
      <4>1. Len(a \o b) = (i - 1) + (n - i)
        BY <3>1, <3>2, <3>3
      <4>2. (i - 1) + (n - i) = n - 1
        BY <1>1
      <4> QED BY <4>1, <4>2, <3>3, <3>4
    <3> QED BY <3>5, <3>6
  <2>2. CASE i = 1 /\ rest = Tail(queue)
    <3>1. queue # <<>>
      BY <1>1, <1>10, EmptySeq
    <3> QED BY <2>2, <3>1, <1>1, <1>10, HeadTailProperties
  <2> QED BY <2>1, <2>2
<1>3. DOMAIN rest = 1..n - 1
  BY <1>2, LenProperties
<1>4. \A j, k \in 1..n : queue[j] = queue[k] => j = k
  BY <1>1 DEF IInv, Waiting
<1>5. \A j \in DOMAIN rest : \E k \in 1..n : k # i /\ rest[j] = queue[k]
  BY SMTT(30), <1>1, <1>2, <1>3
<1>6. \A k \in 1..n : k # i => \E j \in DOMAIN rest : rest[j] = queue[k]
  <2> SUFFICES ASSUME NEW k \in 1..n, k # i PROVE \E j \in DOMAIN rest : rest[j] = queue[k]
    OBVIOUS
  <2>1. CASE k < i
    BY <2>1, <1>1, <1>2, <1>3
  <2>2. CASE k > i
    <3>1. k - 1 \in 1..n - 1 /\ ~(k - 1 < i) /\ (k - 1) + 1 = k
      BY <2>2, <1>1
    <3> QED BY <3>1, <1>2, <1>3
  <2> QED BY <2>1, <2>2, <1>1
<1>7. \A j, k \in DOMAIN rest : rest[j] = rest[k] => j = k
  BY <1>1, <1>2, <1>3, <1>4
<1>8. ASSUME NEW r PROVE (\E j \in DOMAIN rest : rest[j] = r) <=> InQueue(r) /\ r # queue[i]
  BY <1>1, <1>4, <1>5, <1>6 DEF InQueue
<1>9. Len(rest) <= QueueCapacity
  BY <1>1, <1>2, OwnerAssumption
<1> QED BY <1>2, <1>7, <1>8, <1>9

\* A submission.
LEMMA SubmitStep == ASSUME IInv, NEW kind \in {"call", "setup"}, Submit(kind) PROVE IInv'
<1> USE DEF IInv
<1> DEFINE n == Len(requests)
           new == [kind |-> kind, phase |-> "queued", cancelled |-> FALSE, outcome |-> "none",
                   generation |-> generation, epoch |-> endpoint]
<1>1. /\ requests' = Append(requests, new) /\ queue' = Append(queue, n + 1)
      /\ n < MaxRequests /\ Len(queue) < QueueCapacity
      /\ setupPending' = (setupPending \/ kind = "setup")
      /\ kind = "setup" => ~setupPending /\ endpoint = 0
      /\ ~stopped
      /\ UNCHANGED <<active, pc, outcome, cleanup, admitting, generation, failed, endpoint, ended,
                     attached, closing, stopped, session>>
  <2>1. Len(queue) < QueueCapacity
    <3>1. Len(queue) \in Nat
      BY LenProperties DEF TypeOK
    <3> QED BY <3>1, OwnerAssumption DEF Submit, Full
  <2> QED BY <2>1 DEF Submit, ownerVars, admissionVars, epochVars, closeVars
<1>2. /\ Requests = 1..n /\ n \in Nat /\ new \in Request
      /\ endpoint \in Nat /\ endpoint <= generation + 1
  BY RequestTypes DEF TypeOK, Request
<1>3. /\ requests' \in Seq(Request) /\ Len(requests') = n + 1
      /\ \A r \in 1..n : requests'[r] = requests[r]
      /\ requests'[n + 1] = new
  BY <1>1, <1>2, AppendProperties DEF TypeOK
<1> HIDE DEF new
<1>4. Requests' = Requests \cup {n + 1} /\ n + 1 \notin Requests
  <2>1. Requests' = 1..n + 1
    BY <1>3, LenProperties DEF Requests
  <2> QED BY <2>1, <1>2
<1>5. /\ queue \in Seq(Requests') /\ n + 1 \in Requests'
      /\ DOMAIN queue = 1..Len(queue) /\ Len(queue) \in Nat
      /\ \A i \in DOMAIN queue : queue[i] \in Requests
  BY <1>4, SeqMonotonic, LenProperties, ElementOfSeq DEF TypeOK
<1>6. /\ queue' \in Seq(Requests') /\ Len(queue') = Len(queue) + 1
      /\ DOMAIN queue' = DOMAIN queue \cup {Len(queue) + 1} /\ Len(queue) + 1 \notin DOMAIN queue
      /\ \A i \in DOMAIN queue : queue'[i] = queue[i]
      /\ queue'[Len(queue) + 1] = n + 1
  <2>1. /\ queue' \in Seq(Requests') /\ Len(queue') = Len(queue) + 1
        /\ \A i \in 1..Len(queue) : queue'[i] = queue[i]
        /\ queue'[Len(queue) + 1] = n + 1
    BY <1>1, <1>5, AppendProperties
  <2>2. DOMAIN queue' = 1..Len(queue) + 1
    BY <2>1, LenProperties
  <2> QED BY <2>1, <2>2, <1>5
<1>7. \A r : InQueue(r)' <=> InQueue(r) \/ r = n + 1
  BY <1>6 DEF InQueue
<1>8. \A r \in Requests : requests'[r] = requests[r]
  BY <1>2, <1>3
<1>9. /\ new.kind = kind /\ new.phase = "queued" /\ ~new.cancelled /\ new.outcome = "none"
      /\ new.epoch = endpoint /\ new.generation = generation
  BY DEF new
<1>10. TypeOK'
  <2>1. active \in {0, Cleaning} \cup Requests'
    BY <1>4 DEF TypeOK
  <2>2. \A r \in Requests' :
          requests'[r].generation <= generation /\ requests'[r].epoch <= generation + 1
    BY <1>2, <1>3, <1>4, <1>8, <1>9 DEF TypeOK
  <2>3. setupPending' \in BOOLEAN
    BY <1>1 DEF TypeOK
  <2>4. Len(requests') <= MaxRequests /\ Len(queue') <= QueueCapacity
    BY <1>1, <1>2, <1>3, <1>5, <1>6, OwnerAssumption
  <2> QED BY <1>1, <1>3, <1>6, <2>1, <2>2, <2>3, <2>4 DEF TypeOK
<1> HIDE DEF n
<1>11. active # n + 1 /\ (active \in Requests' <=> active \in Requests)
  BY <1>1, <1>2, <1>4, OwnerAssumption DEF TypeOK, Cleaning
<1>12. Where'
  BY <1>1, <1>4, <1>8, <1>11 DEF Where, Working, Current, IsSetup
<1>13. Waiting'
  <2>1. \A i, j \in DOMAIN queue' : queue'[i] = queue'[j] => i = j
    BY <1>4, <1>5, <1>6 DEF Waiting
  <2>2. \A r \in Requests' : InQueue(r)' =>
          /\ r # active /\ requests'[r].outcome = "none"
          /\ requests'[r].phase = "queued" /\ ~requests'[r].cancelled
    BY <1>3, <1>4, <1>7, <1>8, <1>9, <1>11 DEF Waiting
  <2>3. \A r \in Requests' : ~InQueue(r)' /\ r # active => requests'[r].outcome # "none"
    BY <1>4, <1>7, <1>8 DEF Waiting
  <2> QED BY <1>1, <2>1, <2>2, <2>3 DEF Waiting
<1>14. OneSetup'
  <2>1. \A r \in Requests : IsSetup(r)' <=> IsSetup(r)
    BY <1>4, <1>8 DEF IsSetup
  <2>2. \A r : r = n + 1 => (IsSetup(r)' <=> kind = "setup")
    BY <1>3, <1>4, <1>9 DEF IsSetup
  <2>3. \A r : Live(r)' <=> Live(r) \/ r = n + 1
    BY <1>1, <1>7 DEF Live
  <2>4. \A r \in Requests : IsSetup(r) /\ Live(r) => setupPending
    BY DEF OneSetup
  <2>5. \A r \in Requests' : IsSetup(r)' /\ Live(r)' => setupPending'
    BY <1>1, <1>4, <2>1, <2>2, <2>3, <2>4
  <2>6. \A r, q \in Requests' : IsSetup(r)' /\ Live(r)' /\ IsSetup(q)' /\ Live(q)' => r = q
    BY <1>1, <1>4, <2>1, <2>2, <2>3, <2>4 DEF OneSetup
  <2>7. \A r \in Requests' : IsSetup(r)' /\ InQueue(r)' => endpoint' = 0
    BY <1>1, <1>4, <1>7, <2>1, <2>2 DEF OneSetup
  <2> QED BY <2>5, <2>6, <2>7 DEF OneSetup
<1>15. EpochsKept'
  BY <1>1, <1>3, <1>4, <1>8, <1>9 DEF EpochsKept, Current
<1> QED BY <1>10, <1>12, <1>13, <1>14, <1>15

\* The active request is cancelled.
LEMMA CancelActiveStep == ASSUME IInv, NEW r \in Requests, CancelActive(r) PROVE IInv'
<1> USE DEF IInv
<1>1. PICK now \in {requests[r], Settled(requests[r], "error")} :
        requests' = [requests EXCEPT ![r] = [now EXCEPT !.cancelled = TRUE]]
  BY DEF CancelActive
<1> DEFINE new == [now EXCEPT !.cancelled = TRUE]
<1>2. r = active /\ admitting' = FALSE /\ failed' = FALSE
      /\ UNCHANGED <<queue, setupPending, active, pc, outcome, cleanup, generation, endpoint, ended,
                     attached, closing, stopped, session>>
  BY DEF CancelActive, ownerVars, epochVars, closeVars
<1>3. requests[r] \in Request
  BY RequestTypes
<1>4. /\ new \in Request /\ new.kind = requests[r].kind /\ new.generation = requests[r].generation
      /\ new.epoch = requests[r].epoch
  <2>1. /\ now \in Request /\ now.kind = requests[r].kind
        /\ now.generation = requests[r].generation /\ now.epoch = requests[r].epoch
    BY <1>3, Settling
  <2> QED BY <2>1 DEF Request
<1> HIDE DEF new
<1>5. Marked /\ \A q \in Requests \ {r} : requests'[q] = requests[q]
  BY <1>1, <1>4, MarkOne DEF new
<1>6. TypeOK' /\ EpochsKept'
  BY <1>2, <1>5, MarkedKeeps DEF TypeOK
<1>7. /\ Requests' = Requests /\ (\A q : InQueue(q)' <=> InQueue(q))
      /\ \A q \in Requests : IsSetup(q)' <=> IsSetup(q)
  BY <1>2, <1>5 DEF InQueue, Marked, IsSetup
<1>8. Where'
  <2>1. Current(active)' <=> Current(active)
    BY <1>2, <1>5 DEF Current, Marked
  <2>2. IsSetup(active)' <=> IsSetup(active)
    BY <1>2, <1>5 DEF IsSetup, Marked
  <2> QED BY <1>2, <1>7, <2>1, <2>2 DEF Where
<1>9. Waiting'
  BY <1>2, <1>5, <1>7 DEF Waiting
<1>10. OneSetup'
  BY <1>2, <1>7 DEF OneSetup, Live
<1> QED BY <1>6, <1>8, <1>9, <1>10

\* A request that waits is cancelled, and leaves the queue.
LEMMA CancelQueuedStep == ASSUME IInv, NEW r \in Requests, CancelQueued(r) PROVE IInv'
<1> USE DEF IInv
<1> DEFINE new == [Settled(requests[r], "error") EXCEPT !.cancelled = TRUE, !.phase = "done"]
<1>1. requests' = [requests EXCEPT ![r] = new]
  <2>1. r \in DOMAIN requests
    BY DEF Requests
  <2> QED BY <2>1 DEF CancelQueued
<1>2. /\ InQueue(r) /\ setupPending' = (setupPending /\ ~IsSetup(r))
      /\ UNCHANGED <<active, pc, outcome, cleanup, admitting, failed, generation, endpoint, ended,
                     attached, closing, stopped, session>>
  BY DEF CancelQueued, ownerVars, admissionVars, epochVars, closeVars
<1>3. requests[r] \in Request
  BY RequestTypes
<1>4. /\ new \in Request /\ new.kind = requests[r].kind /\ new.generation = requests[r].generation
      /\ new.epoch = requests[r].epoch /\ new.outcome # "none"
  <2> DEFINE s == Settled(requests[r], "error")
  <2>1. /\ s \in Request /\ s.kind = requests[r].kind
        /\ s.generation = requests[r].generation /\ s.epoch = requests[r].epoch
        /\ s.outcome # "none"
    BY <1>3, Settling
  <2> HIDE DEF s
  <2>2. [s EXCEPT !.cancelled = TRUE, !.phase = "done"].outcome # "none"
    BY <2>1 DEF Request
  <2>3. LET t == [s EXCEPT !.cancelled = TRUE, !.phase = "done"]
        IN t \in Request /\ t.kind = s.kind /\ t.generation = s.generation /\ t.epoch = s.epoch
    BY <2>1 DEF Request
  <2> QED BY <2>1, <2>2, <2>3 DEF s
<1> HIDE DEF new
<1>5. Marked /\ requests'[r] = new /\ \A q \in Requests \ {r} : requests'[q] = requests[q]
  BY <1>1, <1>4, MarkOne
<1>6. /\ queue' \in Seq(Requests) /\ Len(queue') <= QueueCapacity
      /\ \A j, k \in DOMAIN queue' : queue'[j] = queue'[k] => j = k
      /\ \A q : InQueue(q)' <=> InQueue(q) /\ q # r
  <2>1. PICK i \in DOMAIN queue : queue[i] = r /\ queue' = RemoveAt(queue, i)
    BY DEF CancelQueued
  <2> QED BY <2>1, QueueWithout DEF InQueue
<1>7. setupPending' \in BOOLEAN
  BY <1>2 DEF TypeOK
<1>8. TypeOK' /\ EpochsKept'
  BY <1>2, <1>5, <1>6, <1>7, MarkedKeeps DEF TypeOK
<1>9. Requests' = Requests /\ \A q \in Requests : IsSetup(q)' <=> IsSetup(q)
  BY <1>5 DEF Marked, IsSetup
<1>10. Where'
  BY <1>2, <1>5, <1>9 DEF Where, Current, Marked, Working
<1>11. Waiting'
  BY <1>2, <1>4, <1>5, <1>6, <1>9 DEF Waiting
<1>12. OneSetup'
  <2>1. \A q \in Requests : Live(q)' => Live(q) /\ q # r
    BY <1>2, <1>6 DEF Live, Waiting
  <2>2. Live(r)
    BY <1>2 DEF Live
  <2>3. \A q \in Requests : IsSetup(q)' /\ Live(q)' => setupPending'
    BY <1>2, <1>9, <2>1, <2>2 DEF OneSetup
  <2>4. \A p, q \in Requests : IsSetup(p)' /\ Live(p)' /\ IsSetup(q)' /\ Live(q)' => p = q
    BY <1>9, <2>1 DEF OneSetup
  <2>5. \A q \in Requests : IsSetup(q)' /\ InQueue(q)' => endpoint' = 0
    BY <1>2, <1>6, <1>9 DEF OneSetup
  <2> QED BY <1>9, <2>3, <2>4, <2>5 DEF OneSetup
<1> QED BY <1>8, <1>10, <1>11, <1>12

\* A request that a disconnect has settled is cancelled.
LEMMA CancelSettledStep == ASSUME IInv, NEW r \in Requests, CancelSettled(r) PROVE IInv'
<1> USE DEF IInv
<1> DEFINE new == [Settled(requests[r], "error") EXCEPT !.cancelled = TRUE]
<1>1. requests' = [requests EXCEPT ![r] = new]
  <2>1. r \in DOMAIN requests
    BY DEF Requests
  <2> QED BY <2>1 DEF CancelSettled
<1>2. /\ ~InQueue(r) /\ r # active
      /\ UNCHANGED <<queue, setupPending, active, pc, outcome, cleanup, admitting, failed, generation,
                     endpoint, ended, attached, closing, stopped, session>>
  BY DEF CancelSettled, ownerVars, admissionVars, epochVars, closeVars
<1>3. requests[r] \in Request
  BY RequestTypes
<1>4. /\ new \in Request /\ new.kind = requests[r].kind /\ new.generation = requests[r].generation
      /\ new.epoch = requests[r].epoch /\ new.outcome # "none"
  <2> DEFINE s == Settled(requests[r], "error")
  <2>1. /\ s \in Request /\ s.kind = requests[r].kind
        /\ s.generation = requests[r].generation /\ s.epoch = requests[r].epoch
        /\ s.outcome # "none"
    BY <1>3, Settling
  <2> HIDE DEF s
  <2>2. LET t == [s EXCEPT !.cancelled = TRUE]
        IN /\ t \in Request /\ t.kind = s.kind /\ t.generation = s.generation /\ t.epoch = s.epoch
           /\ t.outcome = s.outcome
    BY <2>1 DEF Request
  <2> QED BY <2>1, <2>2 DEF s
<1> HIDE DEF new
<1>5. Marked /\ requests'[r] = new /\ \A q \in Requests \ {r} : requests'[q] = requests[q]
  BY <1>1, <1>4, MarkOne
<1>6. TypeOK' /\ EpochsKept'
  BY <1>2, <1>5, MarkedKeeps DEF TypeOK
<1>7. /\ Requests' = Requests /\ (\A q : InQueue(q)' <=> InQueue(q))
      /\ \A q \in Requests : IsSetup(q)' <=> IsSetup(q)
  BY <1>2, <1>5 DEF InQueue, Marked, IsSetup
<1>8. Where'
  <2>1. active \in Requests => (Current(active)' <=> Current(active))
    BY <1>2, <1>5 DEF Current, Marked
  <2>2. IsSetup(active)' <=> IsSetup(active)
    BY <1>2, <1>5 DEF IsSetup, Marked
  <2> QED BY <1>2, <1>7, <2>1, <2>2 DEF Where, Working
<1>9. Waiting'
  BY <1>2, <1>4, <1>5, <1>7 DEF Waiting
<1>10. OneSetup'
  BY <1>2, <1>7 DEF OneSetup, Live
<1> QED BY <1>6, <1>8, <1>9, <1>10

\* The owner takes the request at the head of the queue.
LEMMA TakeRequestStep ==
  ASSUME IInv, TakeRequest
  PROVE  IInv' /\ active' \in Requests /\ requests[active'].outcome = "none"
<1> USE DEF IInv
<1> DEFINE r == Head(queue)
           new == [requests[r] EXCEPT !.phase = "running"]
<1>1. /\ pc = "loop" /\ ~stopped /\ queue # <<>>
      /\ active' = r /\ pc' = "begin" /\ queue' = Tail(queue)
      /\ requests' = [requests EXCEPT ![r] = new]
      /\ UNCHANGED <<outcome, setupPending, cleanup, admitting, failed, generation, endpoint, ended,
                     attached, closing, stopped, session>>
  BY DEF TakeRequest, admissionVars, epochVars, closeVars
<1>2. 1 \in DOMAIN queue /\ queue[1] = r /\ r \in Requests /\ InQueue(r)
  <2>1. Len(queue) \in Nat \ {0} /\ DOMAIN queue = 1..Len(queue)
    BY <1>1, EmptySeq, LenProperties DEF TypeOK
  <2>2. 1 \in DOMAIN queue
    BY <2>1
  <2>3. queue[1] = r /\ queue[1] \in Requests
    BY <1>1, <2>1, <2>2, ElementOfSeq DEF TypeOK
  <2> QED BY <2>2, <2>3 DEF InQueue
<1>3. requests[r] \in Request
  BY <1>2, RequestTypes
<1>4. /\ new \in Request /\ new.kind = requests[r].kind /\ new.generation = requests[r].generation
      /\ new.epoch = requests[r].epoch /\ new.outcome = requests[r].outcome
  BY <1>3 DEF Request
<1>5. /\ queue' \in Seq(Requests) /\ Len(queue') <= QueueCapacity
      /\ \A j, k \in DOMAIN queue' : queue'[j] = queue'[k] => j = k
      /\ \A q : InQueue(q)' <=> InQueue(q) /\ q # r
  <2>1. /\ Tail(queue) \in Seq(Requests) /\ Len(Tail(queue)) <= QueueCapacity
        /\ \A j, k \in DOMAIN Tail(queue) : Tail(queue)[j] = Tail(queue)[k] => j = k
        /\ \A q : (\E j \in DOMAIN Tail(queue) : Tail(queue)[j] = q) <=> InQueue(q) /\ q # queue[1]
    BY <1>2, QueueWithout
  <2> QED BY <1>1, <1>2, <2>1 DEF InQueue
<1> HIDE DEF new, r
<1>6. Marked /\ requests'[r] = new /\ \A q \in Requests \ {r} : requests'[q] = requests[q]
  BY <1>1, <1>2, <1>4, MarkOne
<1>7. TypeOK' /\ EpochsKept'
  BY <1>1, <1>2, <1>5, <1>6, MarkedKeeps DEF TypeOK, Ending
<1>8. Requests' = Requests /\ \A q \in Requests : IsSetup(q)' <=> IsSetup(q)
  BY <1>6 DEF Marked, IsSetup
<1>9. active = 0 /\ active \notin Requests
  BY <1>1, NoRequest DEF Where, Idle
<1>10. Where'
  BY <1>1, <1>2, <1>8, <1>9, NoRequest DEF Where, Idle, Working, Ending
<1>11. Waiting'
  BY <1>1, <1>2, <1>5, <1>6, <1>8, <1>9 DEF Waiting
<1>12. OneSetup'
  <2>1. \A q \in Requests : Live(q)' <=> Live(q)
    BY <1>1, <1>2, <1>5, <1>9 DEF Live
  <2> QED BY <1>1, <1>5, <1>8, <2>1 DEF OneSetup
<1>13. requests[r].outcome = "none"
  BY <1>2 DEF Waiting
<1> QED BY <1>1, <1>2, <1>7, <1>10, <1>11, <1>12, <1>13

\* The owner retires its work, and the request with it.
LEMMA RetireStep == ASSUME IInv, Retire PROVE IInv'
<1> USE DEF IInv
<1> DEFINE f == [r \in Requests |->
                   IF r = active THEN [Settled(requests[r], outcome) EXCEPT !.phase = "done"]
                   ELSE requests[r]]
<1>1. /\ pc = "retire" /\ active' = 0 /\ outcome' = "none" /\ pc' \in {"teardown", "loop"}
      /\ stopped => pc' = "loop" 
      /\ setupPending' = (setupPending /\ ~IsSetup(active))
      /\ requests' = [r \in Requests |-> f[r]]
      /\ UNCHANGED <<queue, cleanup, generation, endpoint, ended, attached, closing, stopped, session>>
  BY DEF Retire, Terminal, Where, epochVars, closeVars
<1>2. \A r \in Requests :
        /\ f[r] \in Request
        /\ f[r].kind = requests[r].kind /\ f[r].generation = requests[r].generation
        /\ f[r].epoch = requests[r].epoch
        /\ r # active => f[r] = requests[r]
        /\ r = active => f[r].outcome # "none"
  <2> SUFFICES ASSUME NEW r \in Requests
               PROVE  /\ f[r] \in Request
                      /\ f[r].kind = requests[r].kind /\ f[r].generation = requests[r].generation
                      /\ f[r].epoch = requests[r].epoch
                      /\ r # active => f[r] = requests[r]
                      /\ r = active => f[r].outcome # "none"
    OBVIOUS
  <2>1. requests[r] \in Request /\ outcome \in {"none", "result", "error"} /\ outcome # "none"
    BY <1>1, RequestTypes DEF TypeOK, Where
  <2> DEFINE s == Settled(requests[r], outcome)
             t == [s EXCEPT !.phase = "done"]
  <2>2. /\ s \in Request /\ s.kind = requests[r].kind
        /\ s.generation = requests[r].generation /\ s.epoch = requests[r].epoch
        /\ s.outcome # "none"
    BY <2>1, Settling
  <2>3. f[r] = IF r = active THEN t ELSE requests[r]
    OBVIOUS
  <2> HIDE DEF s, f
  <2>4. /\ t \in Request /\ t.kind = s.kind /\ t.generation = s.generation /\ t.epoch = s.epoch
        /\ t.outcome = s.outcome
    BY <2>2 DEF Request
  <2> HIDE DEF t
  <2> QED BY <2>1, <2>2, <2>3, <2>4
<1>3. DOMAIN f = Requests
  OBVIOUS
<1> HIDE DEF f
<1>4. Marked /\ \A r \in Requests : requests'[r] = f[r]
  BY <1>1, <1>2, <1>3, MarkAll
<1>5. /\ Requests' = Requests /\ (\A q : InQueue(q)' <=> InQueue(q))
      /\ \A q \in Requests : IsSetup(q)' <=> IsSetup(q)
  BY <1>1, <1>4 DEF InQueue, Marked, IsSetup
<1>6. TypeOK' /\ EpochsKept'
  <2>1. admitting' \in BOOLEAN /\ failed' \in BOOLEAN /\ setupPending' \in BOOLEAN
    BY DEF Retire, TypeOK
  <2> QED BY <1>1, <1>4, <2>1, MarkedKeeps DEF TypeOK, Ending
<1>7. Where'
  BY <1>1, <1>5, NoRequest DEF Where, Idle, Working, Ending
<1>8. Waiting'
  BY <1>1, <1>2, <1>4, <1>5, NoRequest DEF Waiting
<1>9. OneSetup'
  <2>1. \A q \in Requests : Live(q)' <=> InQueue(q)
    BY <1>1, <1>5, NoRequest DEF Live
  <2>2. \A q \in Requests : IsSetup(q) /\ InQueue(q) => ~IsSetup(active)
    BY DEF OneSetup, Live, Waiting, IsSetup
  <2>3. \A q \in Requests : IsSetup(q) /\ InQueue(q) => setupPending'
    BY <1>1, <2>2 DEF OneSetup, Live
  <2> QED BY <1>1, <1>5, <2>1, <2>3 DEF OneSetup, Live
<1> QED BY <1>6, <1>7, <1>8, <1>9

\* A disconnect empties the queue and cancels what the owner is about.
LEMMA DisconnectingStep ==
  ASSUME IInv, Disconnecting,
         UNCHANGED <<endpoint, ended, attached, closing, stopped, session, active, outcome>>,
         pc' = pc \/ (pc = "teardown" /\ pc' = "loop")
  PROVE  IInv'
<1> USE DEF IInv
<1>1. CASE stopped
  <2>1. /\ UNCHANGED <<requests, queue, setupPending, cleanup, admitting, generation, failed>>
        /\ pc' = pc
    BY <1>1 DEF Disconnecting, requestVars, admissionVars, Where
  <2> QED BY <2>1, StutterKeeps DEF TypeOK
<1>2. CASE ~stopped
  <2>1. /\ queue' = <<>> /\ setupPending' = IsSetup(active) /\ cleanup' = (active # Cleaning)
        /\ admitting' = FALSE /\ failed' = FALSE /\ UNCHANGED generation
    BY <1>2 DEF Disconnecting
  <2>2. PICK mine \in {"none", "error"} :
          requests' = [r \in Requests |->
            IF InQueue(r) THEN Settled(requests[r], "error")
            ELSE IF r = active
            THEN [Settled(requests[r], mine) EXCEPT !.cancelled = TRUE]
            ELSE requests[r]]
    BY <1>2 DEF Disconnecting
  <2> DEFINE f == [r \in Requests |->
                     IF InQueue(r) THEN Settled(requests[r], "error")
                     ELSE IF r = active
                     THEN [Settled(requests[r], mine) EXCEPT !.cancelled = TRUE]
                     ELSE requests[r]]
  <2>3. requests' = [r \in Requests |-> f[r]] /\ DOMAIN f = Requests
    BY <2>2
  <2>4. \A r \in Requests :
          /\ f[r] \in Request
          /\ f[r].kind = requests[r].kind /\ f[r].generation = requests[r].generation
          /\ f[r].epoch = requests[r].epoch
          /\ r # active => f[r].outcome # "none"
    <3> SUFFICES ASSUME NEW r \in Requests
                 PROVE  /\ f[r] \in Request
                        /\ f[r].kind = requests[r].kind /\ f[r].generation = requests[r].generation
                        /\ f[r].epoch = requests[r].epoch
                        /\ r # active => f[r].outcome # "none"
      OBVIOUS
    <3> DEFINE s == Settled(requests[r], mine)
               t == [s EXCEPT !.cancelled = TRUE]
               u == Settled(requests[r], "error")
    <3>1. requests[r] \in Request
      BY RequestTypes
    <3>2. /\ s \in Request /\ s.kind = requests[r].kind
          /\ s.generation = requests[r].generation /\ s.epoch = requests[r].epoch
          /\ u \in Request /\ u.kind = requests[r].kind
          /\ u.generation = requests[r].generation /\ u.epoch = requests[r].epoch
          /\ u.outcome # "none"
      BY <3>1, Settling
    <3>3. f[r] = IF InQueue(r) THEN u ELSE IF r = active THEN t ELSE requests[r]
      OBVIOUS
    <3> HIDE DEF s, u, f
    <3>4. t \in Request /\ t.kind = s.kind /\ t.generation = s.generation /\ t.epoch = s.epoch
      BY <3>2 DEF Request
    <3> HIDE DEF t
    <3>5. ~InQueue(r) /\ r # active => requests[r].outcome # "none"
      BY DEF Waiting
    <3> QED BY <3>1, <3>2, <3>3, <3>4, <3>5
  <2> HIDE DEF f
  <2>5. Marked /\ \A r \in Requests : requests'[r] = f[r]
    BY <2>3, <2>4, MarkAll
  <2>6. /\ queue' \in Seq(Requests) /\ Len(queue') = 0 /\ DOMAIN queue' = {}
    BY <2>1, EmptySeq
  <2>7. /\ Requests' = Requests /\ (\A q : ~InQueue(q)')
        /\ \A q \in Requests : IsSetup(q)' <=> IsSetup(q)
    BY <2>5, <2>6 DEF InQueue, Marked, IsSetup
  <2>8. TypeOK' /\ EpochsKept'
    <3>1. cleanup' \in BOOLEAN /\ setupPending' \in BOOLEAN /\ admitting' \in BOOLEAN /\ failed' \in BOOLEAN
      BY <2>1 DEF IsSetup
    <3>2. Len(queue') <= QueueCapacity
      BY <2>6, OwnerAssumption
    <3> QED BY <2>1, <2>5, <2>6, <3>1, <3>2, MarkedKeeps DEF TypeOK, Ending
  <2>9. Where'
    <3>1. active \in Requests => (Current(active)' <=> Current(active))
      BY <2>1, <2>5 DEF Current, Marked
    <3>2. IsSetup(active)' <=> IsSetup(active)
      BY <2>5, <2>7 DEF IsSetup, Marked
    <3> QED BY <1>2, <2>7, <3>1, <3>2 DEF Where, Idle, Working, Ending
  <2>10. Waiting'
    BY <2>4, <2>5, <2>6, <2>7 DEF Waiting
  <2>11. OneSetup'
    BY <2>1, <2>7 DEF OneSetup, Live
  <2> QED BY <2>8, <2>9, <2>10, <2>11
<1> QED BY <1>1, <1>2

-----------------------------------------------------------------------------
(* The theorems *)

\* What the owner may take up in a step.
Taken == active' # active /\ active' \in Requests => requests[active'].outcome = "none"

\* A step that takes up no request.
LEMMA NothingTaken ==
  ASSUME IInv, active' = active \/ active' \in {0, Cleaning}
  PROVE  Taken
BY NoRequest DEF IInv, Taken

\* Every step keeps the invariant, and takes up no request that is settled.
LEMMA StepKeeps ==
  ASSUME IInv, [Next]_vars
  PROVE  IInv' /\ Taken
<1>1. CASE UNCHANGED vars
  BY <1>1, StutterKeeps, NothingTaken
  DEF vars, IInv, TypeOK, requestVars, ownerVars, admissionVars, epochVars, closeVars
<1>2. ASSUME NEW kind \in {"call", "setup"}, Submit(kind) PROVE IInv' /\ Taken
  BY <1>2, SubmitStep, NothingTaken DEF Submit, ownerVars
<1>3. ASSUME NEW r \in Requests, CancelRequest(r) PROVE IInv' /\ Taken
  <2>1. active' = active
    BY <1>3 DEF CancelRequest, CancelActive, CancelQueued, CancelSettled, ownerVars
  <2> QED BY <1>3, <2>1, CancelActiveStep, CancelQueuedStep, CancelSettledStep, NothingTaken
          DEF CancelRequest
<1>4. CASE Disconnect \/ CloseDisconnects
  BY <1>4, DisconnectingStep, NothingTaken
  DEF Disconnect, CloseDisconnects, ownerVars, epochVars, closeVars
<1>5. CASE CloseAnnounces \/ CloseReturns \/ EpochEnds \/ Canceller
  <2>1. active' = active
    BY <1>5 DEF CloseAnnounces, CloseReturns, EpochEnds, Canceller, ownerVars
  <2> QED BY <1>5, <2>1, OtherSteps, NothingTaken
<1>6. CASE Owner
  <2>1. CASE TakeCleanup \/ Wait \/ Wake \/ Stop
    <3>1. active' = active \/ active' = Cleaning
      BY <2>1 DEF TakeCleanup, Wait, Wake, Stop, Goto
    <3> QED BY <2>1, <3>1, LoopSteps, NothingTaken
  <2>2. CASE TakeRequest
    BY <2>2, TakeRequestStep DEF Taken
  <2>3. CASE Begin \/ Call \/ Connect \/ Attach \/ AttachFails
    <3>1. active' = active
      BY <2>3 DEF Begin, Call, Connect, Attach, AttachFails, Goto, Ended
    <3> QED BY <2>3, <3>1, WorkSteps, NothingTaken
  <2>4. CASE Clean \/ Detach \/ Forget \/ Seal \/ CloseSession \/ Reopen
    <3>1. active' = active
      BY <2>4 DEF Clean, Detach, Forget, Seal, CloseSession, Reopen, Goto, Ended
    <3> QED BY <2>4, <3>1, CleanSteps, NothingTaken
  <2>5. CASE Retire
    BY <2>5, RetireStep, NothingTaken DEF Retire
  <2>6. CASE Teardown
    BY <2>6, DisconnectingStep, NothingTaken DEF Teardown, Goto, epochVars, closeVars
  <2> QED BY <1>6, <2>1, <2>2, <2>3, <2>4, <2>5, <2>6 DEF Owner
<1> QED BY <1>1, <1>2, <1>3, <1>4, <1>5, <1>6 DEF Next, Closer

\* The requests, the queue, the owner and the epoch fit together in every
\* reachable state.
THEOREM OwnerInvariant == Spec => []IInv
<1>1. IInv /\ [Next]_vars => IInv'
  BY StepKeeps
<1> QED BY InitEstablishes, <1>1, PTL DEF Spec

\* A call runs in the epoch it was admitted to or not at all.
THEOREM CallsKeepTheirEpoch == Spec => []CallsStayInTheirEpoch
<1>1. IInv => CallsStayInTheirEpoch
  <2> SUFFICES ASSUME IInv, pc = "running" PROVE requests[active].epoch \in {0, endpoint}
    BY DEF CallsStayInTheirEpoch
  <2>1. active \in Requests /\ Current(active) /\ session = "open" /\ pc \notin Ending
    BY DEF IInv, Where, Working, Ending
  <2> QED BY <2>1 DEF IInv, EpochsKept
<1> QED BY OwnerInvariant, <1>1, PTL

\* One epoch at most is being set up or in force, and the owner keeps the
\* handle of an endpoint that may be attached.
THEOREM OneEpochAtMost == Spec => []OneEpoch
<1>1. IInv => OneEpoch
  <2> SUFFICES ASSUME IInv PROVE OneEpoch
    OBVIOUS
  <2>1. attached # 0 => attached = endpoint /\ ~stopped
    BY DEF IInv, Where
  <2>2. ASSUME NEW r \in Requests, IsSetup(r), InQueue(r)
        PROVE  /\ setupPending /\ endpoint = 0
               /\ \A q \in Requests \ {r} : IsSetup(q) /\ requests[q].phase # "done" =>
                    requests[q].outcome # "none" /\ ~InQueue(q)
    <3>1. setupPending /\ endpoint = 0
      BY <2>2 DEF IInv, OneSetup, Live
    <3>2. \A q \in Requests \ {r} : IsSetup(q) => ~InQueue(q) /\ q # active
      BY <2>2 DEF IInv, OneSetup, Live
    <3> QED BY <3>1, <3>2 DEF IInv, Waiting
  <2> QED BY <2>1, <2>2 DEF OneEpoch, IInv
<1> QED BY OwnerInvariant, <1>1, PTL

\* What was settled while it waited is never taken up.
THEOREM SettledStaysSettled == Spec => SettledNeverTaken
<1>1. IInv /\ [Next]_vars =>
        [active' # active /\ active' \in Requests => requests[active'].outcome = "none"]_vars
  BY StepKeeps DEF Taken
<1> QED BY OwnerInvariant, <1>1, PTL DEF Spec, SettledNeverTaken
=============================================================================
