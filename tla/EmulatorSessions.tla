-------------------------- MODULE EmulatorSessions --------------------------
(***************************************************************************)
(* Several threads use several emulators (ownership.py) and close their    *)
(* sessions (Session.close).  Every emulator has one re-entrant lock; a    *)
(* thread enters scopes of one emulator (access, locked, a public          *)
(* operation) or of several (owner_group, locked_sessions), nested.  close *)
(* publishes an attempt, waits for the lock, launches a worker that stops  *)
(* the emulator, and waits for the attempt with a deadline.                *)
(*                                                                         *)
(* An emulator is its lock order (EmulatorOwner.order).                    *)
(*                                                                         *)
(* Each definition whose comment begins "A variant" is a wrong version of  *)
(* the one after it, which no action uses.                                 *)
(***************************************************************************)
EXTENDS Naturals, Sequences, FiniteSets

CONSTANTS Threads,
          Emulators,    \* their orders
          MaxOrder,     \* no order is above it
          Free,         \* no thread
          MaxNest,      \* bound: scopes a thread nests
          MaxAttempts   \* bound: stop attempts of a session

ASSUME EmulatorsAssumption == MaxOrder \in Nat /\ Emulators \subseteq 0..MaxOrder
ASSUME BoundsAssumption == MaxNest \in Nat /\ MaxAttempts \in Nat
ASSUME NamesAssumption == Threads \cap Emulators = {} /\ Free \notin Threads \cup Emulators

VARIABLES
  pc,        \* where a thread is
  frames,    \* the scopes a thread has entered, each the emulators it took
  want,      \* the emulators it still takes for its innermost scope
  open,      \* whether that scope refuses closed sessions
  target,    \* the session a thread closes, and the attempt it follows
  lock,      \* EmulatorOwner.lock: its holder, a thread or the stop worker
  closed,    \* _closed
  stopped,   \* _stopped
  owner,     \* _close_owner
  current,   \* _stop_attempt, 0 for None
  running,   \* _stop_thread: the attempt whose worker it is, 0 for None
  attempts,  \* every _StopAttempt of a session, with its worker
  returned   \* history: how a thread's last close ended

vars == <<pc, frames, want, open, target, lock, closed, stopped, owner, current,
          running, attempts, returned>>

(* The stop worker of a session holds its lock under the session's name.   *)
Worker(s) == s

NewAttempt == [done |-> FALSE, stopped |-> FALSE, worker |-> "none"]

Init ==
  /\ pc = [t \in Threads |-> "run"]
  /\ frames = [t \in Threads |-> <<>>]
  /\ want = [t \in Threads |-> {}]
  /\ open = [t \in Threads |-> TRUE]
  /\ target = [t \in Threads |-> <<>>]
  /\ lock = [s \in Emulators |-> Free]
  /\ closed = [s \in Emulators |-> FALSE]
  /\ stopped = [s \in Emulators |-> FALSE]
  /\ owner = [s \in Emulators |-> Free]
  /\ current = [s \in Emulators |-> 0]
  /\ running = [s \in Emulators |-> 0]
  /\ attempts = [s \in Emulators |-> <<>>]
  /\ returned = [t \in Threads |-> <<>>]

sessionVars == <<closed, stopped, owner, current, running, attempts>>

-----------------------------------------------------------------------------
(* Ownership scopes *)

(* The emulators a thread is in, with these scopes: _thread_owners.held. *)
In(f) == UNION {f[k] : k \in DOMAIN f}
Held(t) == In(frames[t])

(* A variant: locks may be taken in any order. *)
InAnyOrder(t, e) == TRUE

(* assert_lock_order: re-entry is always in order. *)
InOrder(t, e) == e \in Held(t) \/ \A h \in Held(t) : h < e

(* The canonical order in which owner_group takes its emulators. *)
First(es) == CHOOSE e \in es : \A f \in es : e <= f

(* A public operation looks at the closed flag before it waits; a group    *)
(* does not.                                                               *)
Start(t, es, refusing) ==
  /\ pc[t] = "run" /\ Len(frames[t]) < MaxNest
  /\ refusing => Cardinality(es) > 1 \/ \A e \in es : ~closed[e]
  /\ pc' = [pc EXCEPT ![t] = "enter"]
  /\ want' = [want EXCEPT ![t] = es]
  /\ open' = [open EXCEPT ![t] = refusing]
  /\ frames' = [frames EXCEPT ![t] = Append(@, {})]
  /\ returned' = [returned EXCEPT ![t] = <<>>]
  /\ UNCHANGED <<target, lock, sessionVars>>

(* The innermost scope ends: its emulators are released unless an outer    *)
(* scope holds them too.                                                   *)
Outer(t) == SubSeq(frames[t], 1, Len(frames[t]) - 1)
Leave(t) ==
  /\ frames' = [frames EXCEPT ![t] = Outer(t)]
  /\ lock' = [s \in Emulators |->
               IF lock[s] = t /\ s \notin In(Outer(t)) THEN Free ELSE lock[s]]
  /\ want' = [want EXCEPT ![t] = {}]
  /\ open' = [open EXCEPT ![t] = TRUE]
  /\ pc' = [pc EXCEPT ![t] = "run"]

(* access takes the next lock of the scope ... *)
Acquire(t) ==
  LET e == First(want[t])
  IN /\ pc[t] = "enter" /\ want[t] # {}
     /\ InOrder(t, e) /\ lock[e] \in {Free, t}
     /\ lock' = [lock EXCEPT ![e] = t]
     /\ frames' = [frames EXCEPT ![t][Len(frames[t])] = @ \cup {e}]
     /\ want' = [want EXCEPT ![t] = @ \ {e}]
     /\ UNCHANGED <<pc, open, target, sessionVars, returned>>

(* ... and with all of them the scope is entered, or refused because a     *)
(* session has been closed meanwhile.                                      *)
Entered(t) ==
  /\ pc[t] = "enter" /\ want[t] = {}
  /\ IF open[t] /\ \E e \in frames[t][Len(frames[t])] : closed[e]
     THEN Leave(t)
     ELSE /\ pc' = [pc EXCEPT ![t] = "run"]
          /\ open' = [open EXCEPT ![t] = TRUE]
          /\ UNCHANGED <<frames, lock, want>>
  /\ UNCHANGED <<target, sessionVars, returned>>

(* The order is wrong, or a bounded wait ends: the scope is given up. *)
Refused(t) ==
  /\ pc[t] = "enter" /\ want[t] # {} /\ ~InOrder(t, First(want[t]))
  /\ Leave(t)
  /\ UNCHANGED <<target, sessionVars, returned>>
GiveUp(t) ==
  /\ pc[t] = "enter" /\ want[t] # {} /\ InOrder(t, First(want[t]))
  /\ lock[First(want[t])] \notin {Free, t}
  /\ Leave(t)
  /\ UNCHANGED <<target, sessionVars, returned>>

Exit(t) ==
  /\ pc[t] = "run" /\ frames[t] # <<>>
  /\ Leave(t)
  /\ UNCHANGED <<target, sessionVars, returned>>

-----------------------------------------------------------------------------
(* Session.close *)

(* A variant: the result is read from the session's newest attempt. *)
NewestAttempt(t) == LET s == target[t][1] IN attempts[s][Len(attempts[s])]

Attempt(t) == attempts[target[t][1]][target[t][2]]
Ends(t, ok) ==
  /\ pc' = [pc EXCEPT ![t] = "run"]
  /\ returned' = [returned EXCEPT ![t] = <<target[t][1], target[t][2], ok>>]
  /\ target' = [target EXCEPT ![t] = <<>>]

Fail(s, a) == attempts' = [attempts EXCEPT ![s][a].done = TRUE]

(* A variant: an attempt counts as under way only while a caller owns it. *)
LiveWhileOwned(s) == IF owner[s] # Free THEN current[s] ELSE 0

(* A current attempt that has completed is dropped from the session. *)
Live(s) == IF current[s] # 0 /\ ~attempts[s][current[s]].done THEN current[s] ELSE 0

(* The lifecycle section close begins with: the session is stopped         *)
(* already, another close is under way, or this caller claims it.          *)
CloseStopped(t, s) ==
  /\ pc[t] = "run" /\ stopped[s]
  /\ returned' = [returned EXCEPT ![t] = <<s, 0, TRUE>>]
  /\ UNCHANGED <<pc, frames, want, open, target, lock, sessionVars>>

(* Inside a scope of this emulator, or out of order with the scopes it is  *)
(* in, the caller is not allowed to wait.                                  *)
MayWait(t, s) == s \notin Held(t) /\ InOrder(t, s)

Join(t, s) ==
  /\ pc[t] = "run" /\ ~stopped[s] /\ Live(s) # 0
  /\ pc' = [pc EXCEPT ![t] = IF MayWait(t, s) THEN "wait" ELSE "defer"]
  /\ target' = [target EXCEPT ![t] = <<s, Live(s)>>]
  /\ returned' = [returned EXCEPT ![t] = <<>>]
  /\ UNCHANGED <<frames, want, open, lock, sessionVars>>

Claim(t, s) ==
  /\ pc[t] = "run" /\ ~stopped[s] /\ Live(s) = 0
  /\ Len(attempts[s]) < MaxAttempts
  /\ attempts' = [attempts EXCEPT ![s] = Append(@, NewAttempt)]
  /\ current' = [current EXCEPT ![s] = Len(attempts[s]) + 1]
  /\ target' = [target EXCEPT ![t] = <<s, Len(attempts[s]) + 1>>]
  /\ IF owner[s] # Free
     THEN /\ UNCHANGED <<closed, owner>>
          /\ pc' = [pc EXCEPT ![t] = IF MayWait(t, s) THEN "wait" ELSE "defer"]
     ELSE /\ closed' = [closed EXCEPT ![s] = TRUE]
          /\ owner' = [owner EXCEPT ![s] = t]
          /\ pc' = [pc EXCEPT ![t] = IF MayWait(t, s) THEN "lock" ELSE "defer"]
  /\ returned' = [returned EXCEPT ![t] = <<>>]
  /\ UNCHANGED <<frames, want, open, lock, stopped, running>>

(* Cleanup is deferred: an attempt of this caller ends in failure. *)
Defer(t) ==
  LET s == target[t][1]
      mine == owner[s] = t /\ running[s] = 0
  IN /\ pc[t] = "defer"
     /\ IF mine /\ ~Attempt(t).done THEN Fail(s, target[t][2]) ELSE UNCHANGED attempts
     /\ owner' = IF mine THEN [owner EXCEPT ![s] = Free] ELSE owner
     /\ Ends(t, FALSE)
     /\ UNCHANGED <<frames, want, open, lock, closed, stopped, current, running>>

(* The lock phase: an operation that began before the close ends first.    *)
TakeLock(t) ==
  LET s == target[t][1]
  IN /\ pc[t] = "lock" /\ lock[s] = Free
     /\ lock' = [lock EXCEPT ![s] = t]
     /\ pc' = [pc EXCEPT ![t] = "hooks"]
     /\ UNCHANGED <<frames, want, open, target, sessionVars, returned>>

(* The event hooks are closed and the lock is released again. *)
CloseHooks(t) ==
  LET s == target[t][1]
  IN /\ pc[t] = "hooks"
     /\ lock' = [lock EXCEPT ![s] = Free]
     /\ pc' = [pc EXCEPT ![t] = "launch"]
     /\ UNCHANGED <<frames, want, open, target, sessionVars, returned>>

Launch(t) ==
  LET s == target[t][1]
      a == target[t][2]
  IN /\ pc[t] = "launch"
     /\ current' = [current EXCEPT ![s] = a]
     /\ running' = [running EXCEPT ![s] = a]
     /\ owner' = [owner EXCEPT ![s] = Free]
     /\ attempts' = [attempts EXCEPT ![s][a].worker = "start"]
     /\ pc' = [pc EXCEPT ![t] = "await"]
     /\ UNCHANGED <<frames, want, open, target, lock, closed, stopped, returned>>

(* A variant: a failing close ends its attempt although the worker has it. *)
AbandonAlways(t) ==
  LET s == target[t][1]
  IN /\ Fail(s, target[t][2])
     /\ owner' = IF owner[s] = t THEN [owner EXCEPT ![s] = Free] ELSE owner
     /\ UNCHANGED <<closed, stopped, current, running>>

(* A variant: a failing close leaves its attempt as it is. *)
AbandonNothing(t) ==
  LET s == target[t][1]
  IN /\ owner' = IF owner[s] = t THEN [owner EXCEPT ![s] = Free] ELSE owner
     /\ UNCHANGED <<closed, stopped, current, running, attempts>>

(* The finally clause of a close that fails: its unfinished attempt ends   *)
(* too, unless a worker has it.                                            *)
Abandon(t) ==
  LET s == target[t][1]
      a == target[t][2]
  IN /\ IF running[s] = 0 /\ current[s] = a /\ ~attempts[s][a].done
        THEN Fail(s, a) ELSE UNCHANGED attempts
     /\ owner' = IF owner[s] = t THEN [owner EXCEPT ![s] = Free] ELSE owner
     /\ UNCHANGED <<closed, stopped, current, running>>

(* The lock stays busy until the deadline, or the worker does not start. *)
CloseFails(t) ==
  /\ \/ pc[t] = "lock" /\ lock[target[t][1]] # Free
     \/ pc[t] = "launch"
  /\ Abandon(t) /\ Ends(t, FALSE)
  /\ UNCHANGED <<frames, want, open, lock>>

(* The deadline passes with the worker still at it; the attempt goes on.   *)
CloseTimesOut(t) ==
  /\ pc[t] \in {"await", "wait"} /\ ~Attempt(t).done
  /\ IF pc[t] = "await" THEN Abandon(t) ELSE UNCHANGED sessionVars
  /\ Ends(t, FALSE)
  /\ UNCHANGED <<frames, want, open, lock>>

(* A caller reads the result of its own attempt. *)
CloseReturns(t) ==
  /\ pc[t] \in {"await", "wait"} /\ Attempt(t).done
  /\ Ends(t, Attempt(t).stopped)
  /\ UNCHANGED <<frames, want, open, lock, sessionVars>>

-----------------------------------------------------------------------------
(* The stop worker *)

Step(s, a, from, to) ==
  /\ attempts[s][a].worker = from
  /\ attempts' = [attempts EXCEPT ![s][a].worker = to]
  /\ UNCHANGED <<pc, frames, want, open, target, closed, stopped, owner, current, running, returned>>

(* It takes the lock and stops the emulator, which works or raises; or the *)
(* lock is busy for a tenth of a second.                                   *)
BeginStop(s, a) ==
  /\ lock[s] = Free /\ Step(s, a, "start", "stop")
  /\ lock' = [lock EXCEPT ![s] = Worker(s)]
Busy(s, a) == lock[s] # Free /\ Step(s, a, "start", "failed") /\ UNCHANGED lock
EndStop(s, a) ==
  /\ \E to \in {"stopped", "failed"} : Step(s, a, "stop", to)
  /\ lock' = [lock EXCEPT ![s] = Free]

(* The result is committed in one lifecycle section. *)
Commit(s, a) ==
  /\ attempts[s][a].worker \in {"stopped", "failed"}
  /\ LET ok == attempts[s][a].worker = "stopped"
     IN /\ attempts' = [attempts EXCEPT ![s][a] = [done |-> TRUE, stopped |-> ok, worker |-> "none"]]
        /\ stopped' = [stopped EXCEPT ![s] = @ \/ ok]
  /\ running' = [running EXCEPT ![s] = 0]
  /\ owner' = [owner EXCEPT ![s] = Free]
  /\ UNCHANGED <<pc, frames, want, open, target, lock, closed, current, returned>>

-----------------------------------------------------------------------------
ScopeStep(t) == Acquire(t) \/ Entered(t) \/ Refused(t) \/ Exit(t)
CloseStep(t) == Defer(t) \/ TakeLock(t) \/ CloseHooks(t) \/ Launch(t) \/ CloseReturns(t)
WorkerStep(s) == \E a \in DOMAIN attempts[s] :
  BeginStop(s, a) \/ Busy(s, a) \/ EndStop(s, a) \/ Commit(s, a)

Next ==
  \/ \E t \in Threads :
       \/ ScopeStep(t) \/ CloseStep(t) \/ GiveUp(t) \/ CloseFails(t) \/ CloseTimesOut(t)
       \/ \E es \in (SUBSET Emulators) \ {{}}, refusing \in BOOLEAN : Start(t, es, refusing)
       \/ \E s \in Emulators : CloseStopped(t, s) \/ Join(t, s) \/ Claim(t, s)
  \/ \E s \in Emulators : WorkerStep(s)

(* A close goes on, or its deadline ends the lock phase; the worker gets   *)
(* the lock or finds it busy, and PyBoy.stop returns or raises.  Nothing   *)
(* makes an operation end, and no deadline ends a wait for the worker.     *)
Fairness == /\ \A t \in Threads : WF_vars(CloseStep(t) \/ CloseFails(t))
            /\ \A s \in Emulators : WF_vars(WorkerStep(s))
Spec == Init /\ [][Next]_vars /\ Fairness

-----------------------------------------------------------------------------
(* Properties *)

AttemptRecords == [done : BOOLEAN, stopped : BOOLEAN,
                   worker : {"none", "start", "stop", "stopped", "failed"}]

TypeOK ==
  /\ pc \in [Threads -> {"run", "enter", "defer", "lock", "hooks", "launch", "await", "wait"}]
  /\ frames \in [Threads -> Seq(SUBSET Emulators)]
  /\ want \in [Threads -> SUBSET Emulators] /\ open \in [Threads -> BOOLEAN]
  /\ target \in [Threads -> {<<>>} \cup (Emulators \X Nat)]
  /\ lock \in [Emulators -> Threads \cup Emulators \cup {Free}]
  /\ closed \in [Emulators -> BOOLEAN] /\ stopped \in [Emulators -> BOOLEAN]
  /\ owner \in [Emulators -> Threads \cup {Free}]
  /\ current \in [Emulators -> Nat] /\ running \in [Emulators -> Nat]
  /\ attempts \in [Emulators -> Seq(AttemptRecords)]
  /\ returned \in [Threads -> {<<>>} \cup (Emulators \X Nat \X BOOLEAN)]

(* The threads never wait for each other in a ring: no set of threads      *)
(* each waits, entering a scope, for a lock another of them holds.         *)
Awaits(t) == IF pc[t] = "enter" /\ want[t] # {} /\ InOrder(t, First(want[t]))
             THEN {First(want[t])}
             ELSE IF pc[t] = "lock" THEN {target[t][1]} ELSE {}
NoRing == \A C \in (SUBSET Threads) \ {{}} :
  ~ \A t \in C : \E e \in Awaits(t) : lock[e] \in C \ {t}

(* The emulator is stopped once: no two stops overlap, none begins after   *)
(* one has worked, and no thread is in the emulator while it is stopped.   *)
Stopping(s) == {a \in DOMAIN attempts[s] : attempts[s][a].worker = "stop"}
Worked(s) == {a \in DOMAIN attempts[s] : attempts[s][a].worker = "stopped" \/ attempts[s][a].stopped}
StopOnce == TypeOK /\ \A s \in Emulators :
  /\ \A a, b \in Stopping(s) \cup Worked(s) : a = b
  /\ Stopping(s) # {} => \A t \in Threads : s \notin Held(t)

(* A close that returns normally leaves a stopped emulator, and a failed   *)
(* one the result of the attempt it followed.                              *)
CloseTellsTheTruth == \A t \in Threads : returned[t] # <<>> =>
  LET s == returned[t][1]
      a == returned[t][2]
  IN /\ returned[t][3] => stopped[s]
     /\ a # 0 /\ returned[t][3] => attempts[s][a].stopped

(* A result, once published, is never changed: a retry has its own. *)
ResultsAreFinal ==
  [][\A s \in Emulators : \A a \in DOMAIN attempts[s] :
       attempts[s][a].done => attempts'[s][a] = attempts[s][a]]_vars

(* Every attempt ends, whoever made it and whatever it met, without help   *)
(* from a deadline: a close that joined it is never left waiting.          *)
EveryAttemptEnds == \A s \in Emulators :
  (current[s] # 0 /\ Live(s) # 0) ~> (current[s] # 0 /\ Live(s) = 0)

=============================================================================
