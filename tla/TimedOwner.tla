----------------------------- MODULE TimedOwner -----------------------------
(***************************************************************************)
(* TimedOwner (mcp_timed_owner.py): one thread owns an emulator and does   *)
(* for everybody what touches it.                                          *)
(*                                                                         *)
(* Any thread submits, cancels, disconnects and closes; the native owner   *)
(* takes requests off the queue and cleans up after an epoch (a timed      *)
(* endpoint and its attachment to the emulator); a cancellation thread     *)
(* makes the endpoint's possibly blocking cancel() call.  The state is     *)
(* under one Condition, and each step below is one critical section or     *)
(* the native work between two of them.                                    *)
(*                                                                         *)
(* Abstractions.  Deadlines are clocks of the supervisor and of callers:   *)
(* CancelRequest stands for both, as for cancel() and a cancelled future.  *)
(* Futures are settled right after the lock is released; that step is      *)
(* merged with the one before, except on the owner, which may be first.    *)
(* Native work, a lock of the Session or a socket may fail at any time.    *)
(* A call's result and the published snapshot are left out, save its       *)
(* state "cleanup_failed" (failed), which the owner reads.                 *)
(* Each definition whose comment begins "A variant" is a wrong version of  *)
(* the one after it, which no action uses.                                 *)
(***************************************************************************)
EXTENDS Integers, Sequences, FiniteSets, SequencesExt

CONSTANTS
  QueueCapacity,   \* queue_capacity
  MaxRequests,     \* bound: requests submitted
  MaxGeneration,   \* bound: no disconnect() is called in a later generation
  Closable         \* whether close() is called

ASSUME OwnerAssumption ==
  /\ {QueueCapacity, MaxRequests} \subseteq Nat \ {0}
  /\ MaxGeneration \in Nat /\ Closable \in BOOLEAN

VARIABLES
  requests,    \* every OwnerRequest so far, but cleanups
  queue,       \* _queue
  active,      \* _active: 0, a request or Cleaning
  pc,          \* where the owner thread is
  outcome,     \* how the work it has done ended
  cleanup,     \* _cleanup is set
  admitting, setupPending, generation,
  failed,      \* the published state is "cleanup_failed"
  endpoint,    \* _endpoint, 0 for none
  ended,       \* its channel is closed or its session terminal
  attached,    \* the endpoint whose governor is attached to the emulator
  cancelling,  \* the cancellation thread and its slots
  closing, stopped,
  session,     \* the Session: open, refusing operations or stopped
  closer       \* the caller of close()

requestVars == <<requests, queue, setupPending>>
ownerVars == <<active, pc, outcome>>
admissionVars == <<cleanup, admitting, generation, failed>>
epochVars == <<endpoint, ended, attached>>
closeVars == <<closing, stopped, session>>
vars == <<requestVars, ownerVars, admissionVars, epochVars, cancelling, closeVars, closer>>

-----------------------------------------------------------------------------
Requests == DOMAIN requests

Cleaning == MaxRequests + 1

InQueue(r) == \E i \in DOMAIN queue : queue[i] = r

IsSetup(r) == r \in Requests /\ requests[r].kind = "setup"

Settled(request, result) == [request EXCEPT !.outcome = IF @ = "none" THEN result ELSE @]

\* _schedule_cancel, also for the endpoint of a request that is out of date.
Scheduled(e) ==
  IF /\ e # 0 /\ e = endpoint
     /\ e \notin {cancelling.active, cancelling.completed} \cup cancelling.pending
  THEN [cancelling EXCEPT !.pending = @ \cup {e}, !.idle = FALSE]
  ELSE cancelling

Init ==
  /\ requests = <<>> /\ queue = <<>> /\ setupPending = FALSE
  /\ active = 0 /\ pc = "loop" /\ outcome = "none"
  /\ cleanup = FALSE /\ admitting = TRUE /\ generation = 0 /\ failed = FALSE
  /\ endpoint = 0 /\ ended = FALSE /\ attached = 0
  /\ cancelling = [pc |-> "wait", pending |-> {}, active |-> 0, completed |-> 0, idle |-> TRUE]
  /\ closing = FALSE /\ stopped = FALSE /\ session = "open"
  /\ closer = "none"

-----------------------------------------------------------------------------
(***************************************************************************)
(* Any thread.                                                             *)
(***************************************************************************)
Full == Len(queue) >= QueueCapacity

\* A refused submission changes nothing.
Submit(kind) ==
  /\ Len(requests) < MaxRequests /\ admitting /\ ~stopped /\ ~Full
  /\ kind = "setup" => ~setupPending /\ endpoint = 0
  /\ requests' = Append(requests, [kind |-> kind, phase |-> "queued", cancelled |-> FALSE,
                                   outcome |-> "none", generation |-> generation,
                                   epoch |-> endpoint])
  /\ queue' = Append(queue, Len(requests) + 1)
  /\ setupPending' = (setupPending \/ kind = "setup")
  /\ UNCHANGED <<ownerVars, admissionVars, epochVars, cancelling, closeVars, closer>>

Cancellable(r) == requests[r].phase # "done" /\ ~requests[r].cancelled

\* The owner may settle an active request with its own outcome first.
CancelActive(r) ==
  /\ Cancellable(r) /\ r = active
  /\ \E now \in {requests[r], Settled(requests[r], "error")} :
        requests' = [requests EXCEPT ![r] = [now EXCEPT !.cancelled = TRUE]]
  /\ admitting' = FALSE /\ failed' = FALSE
  /\ cancelling' = Scheduled(endpoint)
  /\ UNCHANGED <<queue, setupPending, ownerVars, cleanup, generation, epochVars, closeVars, closer>>

\* A variant that settles the request and leaves it in the queue.
CancelQueuedInPlace(r) ==
  /\ Cancellable(r) /\ InQueue(r)
  /\ requests' = [requests EXCEPT
       ![r] = [Settled(@, "error") EXCEPT !.cancelled = TRUE, !.phase = "done"]]
  /\ setupPending' = (setupPending /\ ~IsSetup(r))
  /\ UNCHANGED <<queue, ownerVars, admissionVars, epochVars, cancelling, closeVars, closer>>

CancelQueued(r) ==
  /\ Cancellable(r) /\ InQueue(r)
  /\ requests' = [requests EXCEPT
       ![r] = [Settled(@, "error") EXCEPT !.cancelled = TRUE, !.phase = "done"]]
  /\ \E i \in DOMAIN queue : queue[i] = r /\ queue' = RemoveAt(queue, i)
  /\ setupPending' = (setupPending /\ ~IsSetup(r))
  /\ UNCHANGED <<ownerVars, admissionVars, epochVars, cancelling, closeVars, closer>>

\* Neither active nor queued: a disconnect has settled it already.
CancelSettled(r) ==
  /\ Cancellable(r) /\ r # active /\ ~InQueue(r)
  /\ requests' = [requests EXCEPT ![r] = [Settled(@, "error") EXCEPT !.cancelled = TRUE]]
  /\ UNCHANGED <<queue, setupPending, ownerVars, admissionVars, epochVars, cancelling,
                 closeVars, closer>>

CancelRequest(r) == CancelActive(r) \/ CancelQueued(r) \/ CancelSettled(r)

\* disconnect(), which is also cancel().
Disconnecting ==
  IF stopped THEN UNCHANGED <<requestVars, admissionVars, cancelling>>
  ELSE
    /\ admitting' = FALSE /\ failed' = FALSE
    /\ queue' = <<>>
    /\ \E mine \in {"none", "error"} :
         requests' = [r \in Requests |->
           IF InQueue(r) THEN Settled(requests[r], "error")
           ELSE IF r = active
           THEN [Settled(requests[r], mine) EXCEPT !.cancelled = TRUE]
           ELSE requests[r]]
    /\ setupPending' = IsSetup(active)
    /\ cancelling' = Scheduled(endpoint)
    /\ cleanup' = (active # Cleaning)
    /\ UNCHANGED generation

Disconnect ==
  /\ generation < MaxGeneration
  /\ Disconnecting
  /\ UNCHANGED <<ownerVars, epochVars, closeVars, closer>>

\* close() announces itself, disconnects and joins the threads; who gets False
\* has to call it again.
CloseAnnounces ==
  /\ Closable /\ closer \in {"none", "refused"}
  /\ closing' = TRUE
  /\ closer' = "announced"
  /\ UNCHANGED <<requestVars, ownerVars, admissionVars, epochVars, cancelling, stopped,
                 session>>

CloseDisconnects ==
  /\ closer = "announced"
  /\ Disconnecting
  /\ closer' = "joining"
  /\ UNCHANGED <<ownerVars, epochVars, closeVars>>

Joined == pc = "gone" /\ cancelling.pc = "gone"

CloseReturns ==
  /\ closer = "joining"
  /\ closer' = IF Joined THEN "done" ELSE "refused"
  /\ UNCHANGED <<requestVars, ownerVars, admissionVars, epochVars, cancelling, closeVars>>

\* The peer goes, or the wire fails.
EpochEnds ==
  /\ endpoint # 0 /\ ~ended
  /\ ended' = TRUE
  /\ UNCHANGED <<requestVars, ownerVars, admissionVars, endpoint, attached, cancelling,
                 closeVars, closer>>

-----------------------------------------------------------------------------
(***************************************************************************)
(* The native owner: its loop, _execute, _open and _clean.                 *)
(***************************************************************************)
Ended(where, result) == pc' = where /\ outcome' = result /\ UNCHANGED active

Goto(where) == pc' = where /\ UNCHANGED <<active, outcome>>

TakeCleanup ==
  /\ pc = "loop" /\ ~stopped /\ cleanup
  /\ cleanup' = FALSE
  /\ active' = Cleaning /\ pc' = "clean" /\ UNCHANGED outcome
  /\ UNCHANGED <<requestVars, admitting, generation, failed, epochVars, cancelling, closeVars>>

TakeRequest ==
  /\ pc = "loop" /\ ~stopped /\ ~cleanup /\ queue # <<>>
  /\ active' = Head(queue) /\ pc' = "begin" /\ UNCHANGED outcome
  /\ queue' = Tail(queue)
  /\ requests' = [requests EXCEPT ![Head(queue)].phase = "running"]
  /\ UNCHANGED <<setupPending, admissionVars, epochVars, cancelling, closeVars>>

Wait ==
  /\ pc = "loop" /\ ~stopped /\ ~cleanup /\ queue = <<>>
  /\ Goto("woken")
  /\ UNCHANGED <<requestVars, admissionVars, epochVars, cancelling, closeVars>>

\* A variant that leaves it to callers to find out that the peer is gone.
NoticeNever == FALSE

Notice == ~cleanup /\ endpoint # 0 /\ ended /\ ~failed

Wake ==
  /\ pc = "woken"
  /\ IF Notice THEN cleanup' = TRUE /\ admitting' = FALSE ELSE UNCHANGED <<cleanup, admitting>>
  /\ Goto("loop")
  /\ UNCHANGED <<requestVars, generation, failed, epochVars, cancelling, closeVars>>

Stop ==
  /\ pc = "loop" /\ stopped
  /\ Goto("gone")
  /\ UNCHANGED <<requestVars, admissionVars, epochVars, cancelling, closeVars>>

\* A variant that relies on disconnect() to empty the queue.
CurrentAlways(r) == TRUE

Current(r) == requests[r].generation = generation

Begin ==
  /\ pc = "begin"
  /\ \/ Ended("retire", "error")
     \/ /\ Current(active) /\ ~requests[active].cancelled
        /\ IF IsSetup(active) THEN endpoint = 0 /\ Goto("connecting")
           ELSE session = "open" /\ Goto("running")
  /\ UNCHANGED <<requestVars, admissionVars, epochVars, cancelling, closeVars>>

\* The operation itself, with the check that follows it.
Call ==
  /\ pc = "running"
  /\ \/ /\ ~requests[active].cancelled /\ Ended("retire", "result")
        /\ UNCHANGED ended
     \/ Ended("retire", "error") /\ ended' \in {ended, endpoint # 0}
  /\ UNCHANGED <<requestVars, admissionVars, endpoint, attached, cancelling, closeVars>>

Connect ==
  /\ pc = "connecting"
  /\ \/ Ended("retire", "error") /\ UNCHANGED <<endpoint, ended>>
     \/ Goto("attaching") /\ endpoint' = generation + 1 /\ ended' = FALSE
  /\ UNCHANGED <<requestVars, admissionVars, attached, cancelling, closeVars>>

Attach ==
  /\ pc = "attaching"
  /\ ~requests[active].cancelled /\ session = "open"
  /\ attached' = endpoint
  /\ Ended("retire", "result")
  /\ UNCHANGED <<requestVars, admissionVars, endpoint, ended, cancelling, closeVars>>

\* A variant that keeps no handle of an endpoint it could not attach.
AttachFailsForgetting ==
  /\ pc = "attaching"
  /\ attached' \in {0, endpoint} /\ ended' \in {ended, TRUE} /\ endpoint' = 0
  /\ Ended("retire", "error")
  /\ UNCHANGED <<requestVars, admissionVars, cancelling, closeVars>>

\* Also when the governor is attached and the rest fails.
AttachFails ==
  /\ pc = "attaching"
  /\ attached' \in {0, endpoint} /\ ended' \in {ended, TRUE}
  /\ Ended("retire", "error")
  /\ UNCHANGED <<requestVars, admissionVars, endpoint, cancelling, closeVars>>

\* Native detach does not start while the cancellation thread has work.
Clean ==
  /\ pc = "clean"
  /\ IF endpoint = 0 THEN Goto("sealing")
     ELSE IF cancelling.idle THEN Goto("detaching")
     ELSE Ended("retire", "error")
  /\ UNCHANGED <<requestVars, admissionVars, epochVars, cancelling, closeVars>>

Detach ==
  /\ pc = "detaching"
  /\ \/ attached' = 0 /\ ended' = TRUE /\ Goto("forgetting")
     \/ attached' \in {0, attached} /\ ended' \in {ended, TRUE} /\ Ended("retire", "error")
  /\ UNCHANGED <<requestVars, admissionVars, endpoint, cancelling, closeVars>>

Forget ==
  /\ pc = "forgetting"
  /\ endpoint' = 0 /\ ended' = FALSE
  /\ cancelling' = [cancelling EXCEPT !.completed = 0]
  /\ Goto("sealing")
  /\ UNCHANGED <<requestVars, admissionVars, attached, closeVars>>

\* close() may set its flag after this test and before Reopen reads it again.
Seal ==
  /\ pc = "sealing"
  /\ Goto(IF closing THEN "closing" ELSE "reopening")
  /\ UNCHANGED <<requestVars, admissionVars, epochVars, cancelling, closeVars>>

CloseSession ==
  /\ pc = "closing"
  /\ \/ session' = "stopped" /\ Goto("reopening")
     \/ session' = "shut" /\ Ended("retire", "error")
  /\ UNCHANGED <<requestVars, admissionVars, epochVars, cancelling, closing, stopped>>

Reopen ==
  /\ pc = "reopening"
  /\ generation' = generation + 1
  /\ admitting' = ~closing /\ stopped' = closing /\ failed' = FALSE
  /\ Ended("retire", "result")
  /\ UNCHANGED <<requestVars, cleanup, epochVars, cancelling, closing, session>>

\* The epoch is over: the owner cleans up without being told to.
Terminal ==
  /\ active # Cleaning
  /\ requests[active].cancelled \/ (outcome = "error" /\ (ended \/ IsSetup(active)))

Retire ==
  /\ pc = "retire"
  /\ requests' = [r \in Requests |->
       IF r = active THEN [Settled(requests[r], outcome) EXCEPT !.phase = "done"]
       ELSE requests[r]]
  /\ setupPending' = (setupPending /\ ~IsSetup(active))
  /\ active' = 0 /\ outcome' = "none" /\ pc' = IF Terminal THEN "teardown" ELSE "loop"
  /\ LET uncleaned == active = Cleaning /\ outcome = "error" IN
     /\ admitting' = (admitting /\ ~Terminal /\ ~uncleaned)
     /\ failed' = ((failed /\ ~Terminal) \/ uncleaned)
  /\ UNCHANGED <<queue, cleanup, generation, epochVars, cancelling, closeVars>>

Teardown ==
  /\ pc = "teardown"
  /\ Disconnecting
  /\ Goto("loop")
  /\ UNCHANGED <<epochVars, closeVars>>

Owner ==
  /\ \/ TakeCleanup \/ TakeRequest \/ Wait \/ Wake \/ Stop
     \/ Begin \/ Call \/ Connect \/ Attach \/ AttachFails
     \/ Clean \/ Detach \/ Forget \/ Seal \/ CloseSession \/ Reopen
     \/ Retire \/ Teardown
  /\ UNCHANGED closer

-----------------------------------------------------------------------------
(***************************************************************************)
(* The cancellation thread.                                                *)
(***************************************************************************)
CancelTakes ==
  /\ cancelling.pc = "wait" /\ ~stopped
  /\ \E e \in cancelling.pending :
       cancelling' = [cancelling EXCEPT !.pc = "busy", !.active = e, !.pending = @ \ {e}]
  /\ UNCHANGED ended

\* endpoint.cancel() returns, whatever came of it.
CancelReturns ==
  /\ cancelling.pc = "busy"
  /\ ended' = (ended \/ cancelling.active = endpoint)
  /\ cancelling' = [cancelling EXCEPT !.pc = "wait", !.active = 0,
                                      !.completed = cancelling.active, !.idle = TRUE]

CancelStops ==
  /\ cancelling.pc = "wait" /\ stopped
  /\ cancelling' = [cancelling EXCEPT !.pc = "gone"]
  /\ UNCHANGED ended

Canceller ==
  /\ CancelTakes \/ CancelReturns \/ CancelStops
  /\ UNCHANGED <<requestVars, ownerVars, admissionVars, endpoint, attached, closeVars, closer>>

-----------------------------------------------------------------------------
Closer == CloseAnnounces \/ CloseDisconnects \/ CloseReturns

Next ==
  \/ \E kind \in {"call", "setup"} : Submit(kind)
  \/ \E r \in Requests : CancelRequest(r)
  \/ Disconnect
  \/ Closer
  \/ EpochEnds
  \/ Owner
  \/ Canceller

Spec == Init /\ [][Next]_vars

\* The threads run, operations and native calls return, and who began to close
\* retries, as close() demands of its caller.  Nothing is assumed of deadlines.
Fairness ==
  /\ WF_vars(Owner)
  /\ WF_vars(Canceller)
  /\ WF_vars(CloseDisconnects \/ CloseReturns)
  /\ WF_vars(closer = "refused" /\ CloseAnnounces)

FairSpec == Spec /\ Fairness

-----------------------------------------------------------------------------
(***************************************************************************)
(* Properties.                                                             *)
(***************************************************************************)
Request ==
  [kind : {"call", "setup"}, phase : {"queued", "running", "done"}, cancelled : BOOLEAN,
   outcome : {"none", "result", "error"}, generation : Nat, epoch : Nat]

\* The shape of the state; the queue within its capacity, no epoch or request
\* of a generation to come.
TypeOK ==
  /\ requests \in Seq(Request) /\ Len(requests) <= MaxRequests
  /\ generation \in Nat
  /\ \A r \in Requests :
       requests[r].generation <= generation /\ requests[r].epoch <= generation + 1
  /\ queue \in Seq(Requests) /\ Len(queue) <= QueueCapacity
  /\ active \in {0, Cleaning} \cup Requests
  /\ endpoint \in 0..(generation + 1) /\ attached \in 0..(generation + 1)
  /\ outcome \in {"none", "result", "error"} /\ session \in {"open", "shut", "stopped"}
  /\ cleanup \in BOOLEAN /\ admitting \in BOOLEAN /\ setupPending \in BOOLEAN /\ failed \in BOOLEAN
  /\ ended \in BOOLEAN /\ closing \in BOOLEAN /\ stopped \in BOOLEAN

\* A request that has been cancelled, has expired or was swept away by a
\* disconnect while it waited is never taken up afterwards, whatever happens to
\* the epoch in between.  Code: _cancel_request, disconnect, the queue in _work.
SettledNeverTaken ==
  [][active' # active /\ active' \in Requests => requests[active'].outcome = "none"]_vars

\* A call admitted to an epoch runs in that epoch or not at all: it never finds
\* another endpoint attached, nor an emulator that meanwhile runs alone.
\* Code: admission stops, disconnect empties the queue, the generation check.
CallsStayInTheirEpoch ==
  pc = "running" => requests[active].epoch \in {0, endpoint}

\* Of one emulator at most one epoch is in the making or in force, and as long
\* as its governor may be attached the owner keeps the handle to detach it with,
\* runs on, and admits no other.  Code: _setup_pending, _open, _clean.
OneEpoch ==
  /\ TypeOK
  /\ attached # 0 => attached = endpoint /\ ~stopped
  /\ \A r \in Requests : IsSetup(r) /\ requests[r].phase = "queued" /\ InQueue(r) =>
       /\ setupPending /\ endpoint = 0
       /\ \A q \in Requests \ {r} : IsSetup(q) /\ requests[q].phase # "done" =>
            requests[q].outcome # "none" /\ ~InQueue(q)

\* What was begun comes to its end: each request gets its outcome, each epoch
\* that has ended is cleaned up and a close, once asked, stops the owner; unless
\* a cleanup fails and is left for a retry, or the owner has stopped.
EverythingEnds ==
  /\ \A r \in 1..MaxRequests :
       (r \in Requests) ~> (stopped \/ (r \in Requests /\ requests[r].outcome # "none"))
  /\ ended ~> (failed \/ endpoint = 0)
  /\ closing ~> (failed \/ stopped)

\* What the class promises of a cleanup that has succeeded.  "``disconnect`` stops
\* admission until successful owner cleanup, then permits ordinary requests and a
\* new epoch": with no cleanup asked for, running or failed, and no close, the
\* owner admits.  "``close`` additionally closes the Session on the owner and stops
\* all three threads": when it has returned, the Session is closed.
ContractKept ==
  /\ closer = "done" => session = "stopped"
  /\ pc \in {"loop", "woken"} /\ ~cleanup /\ ~failed /\ ~closing /\ endpoint = 0 => admitting
=============================================================================
