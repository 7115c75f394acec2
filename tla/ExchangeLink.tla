---------------------------- MODULE ExchangeLink ----------------------------
(***************************************************************************)
(* Two processes trade payloads over one TCP connection (TcpSerialLink)    *)
(* and agents meet on it (AgentSync.rendezvous is an exchange of a kind of *)
(* its own).  exchange writes a payload of some kind and waits for the     *)
(* peer's payload of that kind.  A frame carries no request number: what   *)
(* pairs the two payloads is the order of the stream, one call in flight   *)
(* per kind, and the rule that a call that gives up after writing ends the *)
(* connection.                                                             *)
(*                                                                         *)
(* A payload is its number among those its end has written in that kind.   *)
(*                                                                         *)
(* Each definition whose comment begins "A variant" is a wrong version of  *)
(* the one after it, which no action uses.                                 *)
(***************************************************************************)
EXTENDS Naturals, Sequences, FiniteSets

CONSTANTS Ends,
          Callers,      \* threads that call exchange, each <<its end, its name>>
          Kinds,
          Nobody,       \* no caller
          QueueLimit,   \* _MAX_INBOUND_FRAMES_PER_KIND
          FrameLimit,   \* _MAX_INBOUND_FRAMES
          MayClose,     \* the ends whose owner may call close
          MaxSent       \* bound: exchanges at one end, per kind

ASSUME EndsAssumption == \E a, b \in Ends : a # b /\ Ends = {a, b}
ASSUME CallersAssumption == Nobody \notin Callers /\ \A c \in Callers : c[1] \in Ends
(* 32 and 256: enough for 128 kinds in use between two processes. *)
ASSUME LimitsAssumption ==
  /\ IsFiniteSet(Kinds) /\ MaxSent \in [Kinds -> Nat]
  /\ QueueLimit \in Nat /\ QueueLimit >= 2
  /\ FrameLimit \in Nat /\ FrameLimit >= 2 * Cardinality(Kinds)
ASSUME CloseAssumption == MayClose \subseteq Ends

At(c) == c[1]

VARIABLES
  pc,       \* where a caller is
  call,     \* the kind it asks for, and the number of what it wrote
  slot,     \* _exchange_locks: the caller in flight, per kind
  sent,     \* how many payloads an end has written, per kind
  wire,     \* the frames on the way to an end
  hand,     \* the frame its reader has read and not dispatched
  hello,    \* whether the peer's HELLO arrived
  inbound,  \* _inbound: the payloads that wait, per kind
  frames,   \* _inbound_frame_count
  link,     \* "open"; "closing": _closed is set; "closed": drained as well
  bye,      \* close has written BYE and still holds the write lock
  cause     \* history: why an end closed

callVars == <<pc, call, slot>>
linkVars == <<link, cause>>
queueVars == <<inbound, frames>>
wireVars == <<sent, wire, hand, hello, bye>>
vars == <<callVars, linkVars, queueVars, wireVars>>

Peer(e) == CHOOSE f \in Ends : f # e

Hello == [op |-> "hello"]
Bye == [op |-> "bye"]
Exchange(k, n) == [op |-> "exchange", kind |-> k, payload |-> n]

Idle == [kind |-> "none", own |-> 0]

(* Both constructors have returned: each end has written its HELLO. *)
Init ==
  /\ pc = [c \in Callers |-> "idle"]
  /\ call = [c \in Callers |-> Idle]
  /\ slot = [e \in Ends |-> [k \in Kinds |-> Nobody]]
  /\ sent = [e \in Ends |-> [k \in Kinds |-> 0]]
  /\ wire = [e \in Ends |-> <<Hello>>]
  /\ hand = [e \in Ends |-> <<>>]
  /\ hello = [e \in Ends |-> FALSE]
  /\ inbound = [e \in Ends |-> [k \in Kinds |-> <<>>]]
  /\ frames = [e \in Ends |-> 0]
  /\ link = [e \in Ends |-> "open"]
  /\ bye = [e \in Ends |-> FALSE]
  /\ cause = [e \in Ends |-> "none"]

-----------------------------------------------------------------------------
(* The terminal transition *)

(* _mark_closed sets the flags first; only the first caller's reason counts. *)
MarkClosed(e, why) ==
  IF link[e] = "open"
    THEN /\ link' = [link EXCEPT ![e] = "closing"]
         /\ cause' = [cause EXCEPT ![e] = why]
    ELSE UNCHANGED linkVars

(* It then empties the queues under their lock, zeroes the counters and    *)
(* shuts the socket.                                                       *)
Drain(e) ==
  /\ link[e] = "closing"
  /\ link' = [link EXCEPT ![e] = "closed"]
  /\ inbound' = [inbound EXCEPT ![e] = [k \in Kinds |-> <<>>]]
  /\ frames' = [frames EXCEPT ![e] = 0]
  /\ UNCHANGED <<cause, callVars, wireVars>>

(* close: BYE goes out under the write lock, which is kept until the end   *)
(* is marked closed.                                                       *)
SendBye(e) ==
  /\ e \in MayClose
  /\ link[e] = "open"
  /\ ~bye[e]
  /\ bye' = [bye EXCEPT ![e] = TRUE]
  /\ wire' = [wire EXCEPT ![Peer(e)] = Append(@, Bye)]
  /\ UNCHANGED <<sent, hand, hello, callVars, linkVars, queueVars>>

CloseAfterBye(e) ==
  /\ bye[e]
  /\ bye' = [bye EXCEPT ![e] = FALSE]
  /\ MarkClosed(e, "own")
  /\ UNCHANGED <<sent, wire, hand, hello, callVars, queueVars>>

-----------------------------------------------------------------------------
(* exchange *)

Finish(c) ==
  /\ pc' = [pc EXCEPT ![c] = "idle"]
  /\ call' = [call EXCEPT ![c] = Idle]

Release(c) == slot' = [slot EXCEPT ![At(c)][call[c].kind] = Nobody]

(* A call gets the slot of its kind.  Waiting for it changes nothing, and  *)
(* a call that gives up there has done nothing: neither is a step.         *)
Call(c, k) ==
  /\ pc[c] = "idle"
  /\ link[At(c)] = "open"
  /\ sent[At(c)][k] < MaxSent[k]
  /\ slot[At(c)][k] = Nobody
  /\ pc' = [pc EXCEPT ![c] = "send"]
  /\ call' = [call EXCEPT ![c] = [kind |-> k, own |-> 0]]
  /\ slot' = [slot EXCEPT ![At(c)][k] = c]
  /\ UNCHANGED <<linkVars, queueVars, wireVars>>

(* Cancelled before the first byte was written. *)
GiveUpSend(c) ==
  /\ pc[c] = "send"
  /\ Finish(c)
  /\ Release(c)
  /\ UNCHANGED <<linkVars, queueVars, wireVars>>

(* The HELLO is there, the write lock free: the frame goes out whole. *)
Send(c) ==
  LET e == At(c)
      k == call[c].kind
      n == sent[e][k] + 1
  IN
  /\ pc[c] = "send"
  /\ hello[e]
  /\ link[e] = "open"
  /\ ~bye[e]
  /\ pc' = [pc EXCEPT ![c] = "wait"]
  /\ call' = [call EXCEPT ![c].own = n]
  /\ sent' = [sent EXCEPT ![e][k] = n]
  /\ wire' = [wire EXCEPT ![Peer(e)] = Append(@, Exchange(k, n))]
  /\ UNCHANGED <<slot, hand, hello, bye, linkVars, queueVars>>

(* The waiter looks at the closed flag and, later, under the queue's lock, *)
(* takes the oldest payload of its kind: it may still win against Drain.   *)
Take(c) ==
  LET e == At(c)
      k == call[c].kind
  IN
  /\ pc[c] = "wait"
  /\ inbound[e][k] # <<>>
  /\ inbound' = [inbound EXCEPT ![e][k] = Tail(@)]
  /\ frames' = [frames EXCEPT ![e] = @ - 1]
  /\ Finish(c)
  /\ Release(c)
  /\ UNCHANGED <<linkVars, wireVars>>

(* A variant: a call that waits does not look at the closed flag. *)
RefusedUnsent(c) ==
  /\ pc[c] = "send"
  /\ link[At(c)] # "open"
  /\ Finish(c)
  /\ Release(c)
  /\ UNCHANGED <<linkVars, queueVars, wireVars>>

(* The link is closed: before the frame was written, or while its answer   *)
(* was awaited.                                                            *)
Refused(c) ==
  /\ pc[c] \in {"send", "wait"}
  /\ link[At(c)] # "open"
  /\ Finish(c)
  /\ Release(c)
  /\ UNCHANGED <<linkVars, queueVars, wireVars>>

(* A variant: a timeout leaves the connection usable. *)
FailsAlone(c) ==
  /\ pc[c] \in {"send", "wait"}
  /\ Finish(c)
  /\ Release(c)
  /\ UNCHANGED <<linkVars, queueVars, wireVars>>

(* No HELLO, no room to write or no answer before the deadline, a          *)
(* cancellation after the frame was written, or the peer's socket gone: a  *)
(* late answer could not be told from a later one, so the end closes       *)
(* itself.                                                                 *)
Fails(c) ==
  /\ pc[c] \in {"send", "wait"}
  /\ Finish(c)
  /\ Release(c)
  /\ MarkClosed(At(c), "failed")
  /\ UNCHANGED <<queueVars, wireVars>>

-----------------------------------------------------------------------------
(* The reader thread *)

Read(e) ==
  /\ link[e] = "open"
  /\ hand[e] = <<>>
  /\ wire[e] # <<>>
  /\ hand' = [hand EXCEPT ![e] = <<Head(wire[e])>>]
  /\ wire' = [wire EXCEPT ![e] = Tail(@)]
  /\ UNCHANGED <<sent, hello, bye, callVars, linkVars, queueVars>>

Handing(e, op) == hand[e] # <<>> /\ Head(hand[e]).op = op

Handed(e) ==
  /\ hand' = [hand EXCEPT ![e] = <<>>]
  /\ UNCHANGED <<sent, wire, bye, callVars>>

ReadHello(e) ==
  /\ Handing(e, "hello")
  /\ Handed(e)
  /\ IF hello[e] THEN MarkClosed(e, "protocol") ELSE UNCHANGED linkVars
  /\ hello' = [hello EXCEPT ![e] = TRUE]
  /\ UNCHANGED queueVars

Over(e, k) == frames[e] >= FrameLimit \/ Len(inbound[e][k]) >= QueueLimit

(* A variant: the payload is queued whatever became of the link. *)
ReadExchangeAnyhow(e) ==
  LET f == Head(hand[e]) IN
  /\ Handing(e, "exchange")
  /\ Handed(e)
  /\ inbound' = [inbound EXCEPT ![e][f.kind] = Append(@, f.payload)]
  /\ frames' = [frames EXCEPT ![e] = @ + 1]
  /\ UNCHANGED <<hello, linkVars>>

(* A payload is queued under the queues' lock, unless the link closed      *)
(* since it was read, no HELLO came first, or there are too many.          *)
ReadExchange(e) ==
  LET f == Head(hand[e]) IN
  /\ Handing(e, "exchange")
  /\ Handed(e)
  /\ UNCHANGED hello
  /\ IF link[e] = "open" /\ hello[e] /\ ~Over(e, f.kind)
       THEN /\ inbound' = [inbound EXCEPT ![e][f.kind] = Append(@, f.payload)]
            /\ frames' = [frames EXCEPT ![e] = @ + 1]
            /\ UNCHANGED linkVars
       ELSE /\ MarkClosed(e, "protocol")
            /\ UNCHANGED queueVars

ReadBye(e) ==
  /\ Handing(e, "bye")
  /\ Handed(e)
  /\ MarkClosed(e, IF hello[e] THEN "bye" ELSE "protocol")
  /\ UNCHANGED <<hello, queueVars>>

(* The peer shut its socket: the reader sees the end of the stream, or a   *)
(* reset that drops what it had not read.                                  *)
ReadEof(e) ==
  /\ link[e] = "open"
  /\ hand[e] = <<>>
  /\ link[Peer(e)] = "closed"
  /\ wire' = [wire EXCEPT ![e] = <<>>]
  /\ MarkClosed(e, "eof")
  /\ UNCHANGED <<sent, hand, hello, bye, callVars, queueVars>>

-----------------------------------------------------------------------------

Caller(c) == Send(c) \/ Take(c) \/ Refused(c)

GivesUp(c) == GiveUpSend(c) \/ Fails(c)

Reader(e) == Read(e) \/ ReadHello(e) \/ ReadExchange(e) \/ ReadBye(e) \/ ReadEof(e)

(* Every call has ended and none can begin. *)
Ended ==
  /\ \A c \in Callers : pc[c] = "idle"
  /\ \A e \in Ends : link[e] = "closed" \/ \A k \in Kinds : sent[e][k] = MaxSent[k]
  /\ UNCHANGED vars

Next ==
  \/ \E c \in Callers : (\E k \in Kinds : Call(c, k)) \/ Caller(c) \/ GivesUp(c)
  \/ \E e \in Ends : SendBye(e) \/ CloseAfterBye(e) \/ Drain(e) \/ Reader(e)
  \/ Ended

(* Threads run: a caller's poll, the reader and whoever closes.  No        *)
(* deadline and no cancellation is fair: what is promised does not lean on *)
(* them.                                                                   *)
Fairness ==
  /\ \A c \in Callers : WF_vars(Caller(c))
  /\ \A e \in Ends : WF_vars(Reader(e)) /\ WF_vars(Drain(e)) /\ WF_vars(CloseAfterBye(e))

Spec == Init /\ [][Next]_vars /\ Fairness

-----------------------------------------------------------------------------
(* Properties *)

Frame == {Hello, Bye} \cup [op : {"exchange"}, kind : Kinds, payload : Nat]

TypeOK ==
  /\ pc \in [Callers -> {"idle", "send", "wait"}]
  /\ call \in [Callers -> [kind : Kinds \cup {"none"}, own : Nat]]
  /\ slot \in [Ends -> [Kinds -> Callers \cup {Nobody}]]
  /\ sent \in [Ends -> [Kinds -> Nat]]
  /\ wire \in [Ends -> Seq(Frame)]
  /\ hand \in [Ends -> Seq(Frame)] /\ \A e \in Ends : Len(hand[e]) <= 1
  /\ hello \in [Ends -> BOOLEAN]
  /\ inbound \in [Ends -> [Kinds -> Seq(Nat)]]
  /\ frames \in [Ends -> Nat]
  /\ link \in [Ends -> {"open", "closing", "closed"}]
  /\ bye \in [Ends -> BOOLEAN]
  /\ cause \in [Ends -> {"none", "own", "failed", "protocol", "bye", "eof"}]

(* What a call in flight finds in its queue is what its peer wrote with    *)
(* the matching call, the n-th of that kind for the n-th of that kind: no  *)
(* answer to an earlier call that gave up, none owed to another thread.    *)
PairedInOrder ==
  \A c \in Callers :
    LET waiting == inbound[At(c)][call[c].kind] IN
    pc[c] = "wait" /\ waiting # <<>> => Head(waiting) = call[c].own

Queued(e) == UNION {{<<k, i>> : i \in DOMAIN inbound[e][k]} : k \in Kinds}

(* The counter always says how many payloads wait; once an end is closed   *)
(* nothing waits there any more, for a frame in the reader's hand when the *)
(* link closes is not queued after the drain; and two conforming ends      *)
(* never run so far ahead of each other that a limit or the order of       *)
(* frames closes the link.                                                 *)
QueuesAccounted ==
  /\ TypeOK
  /\ \A e \in Ends :
       /\ frames[e] = Cardinality(Queued(e))
       /\ link[e] = "closed" => \A k \in Kinds : inbound[e][k] = <<>>
       /\ cause[e] # "protocol"

(* A call whose match the peer has written ends, with no deadline and no   *)
(* cancellation: with its answer, or because the link closed.              *)
MatchedCallsEnd ==
  \A c \in Callers :
    (pc[c] = "wait" /\ sent[Peer(At(c))][call[c].kind] >= call[c].own) ~> pc[c] # "wait"
=============================================================================
