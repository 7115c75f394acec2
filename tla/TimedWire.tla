----------------------------- MODULE TimedWire -----------------------------
(***************************************************************************)
(* TimedWireChannel (link/timed_wire.py): two ends of one stream socket.   *)
(*                                                                         *)
(* At each end run an owner that sends and polls, a reader thread that     *)
(* takes one frame after the other and validates it, and whoever closes    *)
(* the channel.  A send is admitted first (the protocol state of the       *)
(* sending direction moves) and written afterwards, so that the reader     *)
(* may meet the answer to a frame whose send has not returned.             *)
(*                                                                         *)
(* Abstractions.  A frame is written and read whole: a part of one is a    *)
(* frame that never arrives before the end of the stream, or one that      *)
(* arrives broken ("Broken", all that decode_frame and _header reject).    *)
(* Epoch and revision agree; another epoch or revision is a broken frame.  *)
(* Bits, observed times and Sync, which no rule looks at, are left out.    *)
(* A call that fails before admission changes nothing and is no action.    *)
(* Each definition whose comment begins "A variant" is a wrong version of  *)
(* the one after it, which no action uses.                                 *)
(***************************************************************************)
EXTENDS Integers, Sequences, FiniteSets

CONSTANTS
  Ends,       \* the two ends
  Rogue,      \* ends that are not TimedWireChannels and write what they like
  Capacity,   \* inbound_capacity
  Window,     \* frames the two socket buffers hold in one direction
  MaxFrames,  \* bound: frames an end sends
  MaxTime,    \* bound: half-cycle times in messages
  MaxId,      \* bound: edge and fence IDs in messages
  Impatient,  \* ends whose deadlines may expire or whose sends may be cancelled
  Closers     \* ends whose owner may close the channel

ASSUME WireAssumption ==
  /\ \E e, f \in Ends : e # f /\ Ends = {e, f}
  /\ Rogue \subseteq Ends /\ Impatient \subseteq Ends /\ Closers \subseteq Ends
  /\ {Capacity, Window, MaxFrames} \subseteq Nat \ {0}
  /\ {MaxTime, MaxId} \subseteq Nat

VARIABLES
  out,       \* _outgoing
  inc,       \* _incoming
  helloSent, \* _hello_sent
  queue,     \* _queue
  error,     \* _error: "none" while open
  sender,    \* what the thread that holds _send_lock is sending
  reading,   \* the reader holds a complete frame it has not accepted
  log,       \* history: every frame the end has admitted
  written,   \* how many of them are written to the socket
  polled     \* history: messages the owner has taken, and the latest

vars == <<out, inc, helloSent, queue, error, sender, reading, log, written, polled>>

-----------------------------------------------------------------------------
Other(e) == CHOOSE f \in Ends : f # e

Hello == [type |-> "Hello"]
Progress(at) == [type |-> "Progress", at |-> at]
EdgeRequest(id, at) == [type |-> "EdgeRequest", id |-> id, at |-> at]
EmissionComplete(at, id) == [type |-> "EmissionComplete", at |-> at, id |-> id]
EdgeResponse(id) == [type |-> "EdgeResponse", id |-> id]
Fence(id, through) == [type |-> "Fence", id |-> id, through |-> through]
FenceAck(id, through) == [type |-> "FenceAck", id |-> id, through |-> through]
Broken == [type |-> "Broken"]

Times == 0..MaxTime
Ids == 1..MaxId

Messages ==
  {Progress(at) : at \in Times}
    \cup {EdgeRequest(id, at) : id \in Ids, at \in Times}
    \cup {EmissionComplete(at, id) : at \in Times, id \in Ids \cup {0}}
    \cup {EdgeResponse(id) : id \in Ids}
    \cup {Fence(id, through) : id \in Ids, through \in Ids \cup {0}}
    \cup {FenceAck(id, through) : id \in Ids, through \in Ids \cup {0}}

Frame(n, message) == [seq |-> n, message |-> message]

Direction ==
  [sequence |-> 0, hello |-> FALSE, edge |-> 0, pending |-> {}, fence |-> 0, fences |-> {},
   settled |-> 0, mark |-> -1]

Init ==
  /\ out = [e \in Ends |-> Direction] /\ inc = [e \in Ends |-> Direction]
  /\ helloSent = [e \in Ends |-> FALSE]
  /\ queue = [e \in Ends |-> <<>>]
  /\ error = [e \in Ends |-> "none"]
  /\ sender = [e \in Ends |-> "idle"]
  /\ reading = [e \in Ends |-> FALSE]
  /\ log = [e \in Ends |-> <<>>] /\ written = [e \in Ends |-> 0]
  /\ polled = [e \in Ends |-> [count |-> 0, last |-> Hello]]

-----------------------------------------------------------------------------
(***************************************************************************)
(* _accept: the rules of one direction d, o being the opposite one.  The   *)
(* same rules admit what is sent and accept what is received.              *)
(***************************************************************************)
Mutual(e, d, o) == d.hello /\ o.hello /\ helloSent[e]

Legal(e, m, d, o) ==
  CASE m.type = "Hello" -> ~d.hello /\ d.sequence = 0
    [] m.type = "Progress" -> Mutual(e, d, o) /\ m.at >= d.settled
    [] m.type = "EdgeRequest" ->
         /\ Mutual(e, d, o)
         /\ m.id = d.edge + 1 /\ Cardinality(d.pending) < Capacity /\ m.at > d.mark
    [] m.type = "EmissionComplete" -> Mutual(e, d, o) /\ m.id = d.edge /\ m.at >= d.mark
    [] m.type = "EdgeResponse" -> Mutual(e, d, o) /\ m.id \in o.pending
    [] m.type = "Fence" ->
         /\ Mutual(e, d, o)
         /\ m.id = d.fence + 1 /\ m.through = d.edge /\ Cardinality(d.fences) < Capacity
    [] m.type = "FenceAck" -> Mutual(e, d, o) /\ <<m.id, m.through>> \in o.fences
    [] OTHER -> FALSE

Acceptable(e, frame, d, o) == frame.seq = d.sequence + 1 /\ Legal(e, frame.message, d, o)

\* The direction after one of its messages.
Moved(d, m) ==
  LET next == [d EXCEPT !.sequence = @ + 1] IN
  CASE m.type = "Hello" -> [next EXCEPT !.hello = TRUE]
    [] m.type = "Progress" -> [next EXCEPT !.settled = m.at]
    [] m.type = "EdgeRequest" -> [next EXCEPT !.edge = m.id, !.pending = @ \cup {m.id}]
    [] m.type = "EmissionComplete" -> [next EXCEPT !.mark = m.at]
    [] m.type = "Fence" ->
         [next EXCEPT !.fence = m.id, !.fences = @ \cup {<<m.id, m.through>>}]
    [] OTHER -> next

\* The live state after a pair of frames that is sent as one.
\* A variant that publishes only the second frame's effect.
PublishedProgressOnly(d, complete, at) ==
  [Moved(d, Progress(at)) EXCEPT !.sequence = @ + 1]

Published(d, complete, at) == Moved(Moved(d, complete), Progress(at))

\* The opposite direction, whose request an answer settles.
\* A variant that leaves an acknowledged fence outstanding.
AnsweredKeepingFences(o, m) ==
  IF m.type = "EdgeResponse" THEN [o EXCEPT !.pending = @ \ {m.id}] ELSE o

Answered(o, m) ==
  CASE m.type = "EdgeResponse" -> [o EXCEPT !.pending = @ \ {m.id}]
    [] m.type = "FenceAck" -> [o EXCEPT !.fences = @ \ {<<m.id, m.through>>}]
    [] OTHER -> o

-----------------------------------------------------------------------------
\* _terminate: the first error is kept; queue and outstanding sets are cleared.
Cleared(d) == [d EXCEPT !.pending = {}, !.fences = {}]

Terminate(e, why) ==
  /\ error' = [error EXCEPT ![e] = IF @ = "none" THEN why ELSE @]
  /\ queue' = [queue EXCEPT ![e] = <<>>]
  /\ out' = [out EXCEPT ![e] = Cleared(@)]
  /\ inc' = [inc EXCEPT ![e] = Cleared(@)]

Open(e) == e \notin Rogue /\ error[e] = "none"

-----------------------------------------------------------------------------
(***************************************************************************)
(* Sending.                                                                *)
(***************************************************************************)
Room(e, n) == Len(log[e]) + n <= MaxFrames

Enlog(e, messages) ==
  log' = [log EXCEPT ![e] = @ \o [i \in DOMAIN messages |->
                                    Frame(out[e].sequence + i, messages[i])]]

\* _send up to admission; handshake sends Hello once.
Admit(e, m) ==
  /\ Open(e) /\ sender[e] = "idle" /\ Room(e, 1)
  /\ Acceptable(e, Frame(out[e].sequence + 1, m), out[e], inc[e])
  /\ out' = [out EXCEPT ![e] = Moved(@, m)]
  /\ inc' = [inc EXCEPT ![e] = Answered(@, m)]
  /\ Enlog(e, <<m>>)
  /\ sender' = [sender EXCEPT ![e] = IF m = Hello THEN "hello" ELSE "data"]
  /\ UNCHANGED <<helloSent, queue, error, reading, written, polled>>

\* send_complete_progress: both frames or none.
AdmitPair(e, at) ==
  LET complete == EmissionComplete(at, out[e].edge) IN
  /\ Open(e) /\ sender[e] = "idle" /\ Room(e, 2)
  /\ Legal(e, complete, out[e], inc[e])
  /\ Legal(e, Progress(at), Moved(out[e], complete), inc[e])
  /\ out' = [out EXCEPT ![e] = Published(@, complete, at)]
  /\ Enlog(e, <<complete, Progress(at)>>)
  /\ sender' = [sender EXCEPT ![e] = "data"]
  /\ UNCHANGED <<inc, helloSent, queue, error, reading, written, polled>>

Unread(e) == written[e] - inc[Other(e)].sequence

WriteFrame(e) ==
  /\ Open(e) /\ sender[e] # "idle" /\ written[e] < Len(log[e])
  /\ Other(e) \in Rogue \/ Unread(e) < Window
  /\ written' = [written EXCEPT ![e] = @ + 1]
  /\ UNCHANGED <<out, inc, helloSent, queue, error, sender, reading, log, polled>>

SendReturns(e) ==
  /\ Open(e) /\ sender[e] # "idle" /\ written[e] = Len(log[e])
  /\ helloSent' = [helloSent EXCEPT ![e] = @ \/ sender[e] = "hello"]
  /\ sender' = [sender EXCEPT ![e] = "idle"]
  /\ UNCHANGED <<out, inc, queue, error, reading, log, written, polled>>

\* An admitted send that fails ends the channel: its delivery is uncertain.
SendFails(e, why) ==
  /\ Open(e) /\ sender[e] # "idle"
  /\ Terminate(e, why)
  /\ sender' = [sender EXCEPT ![e] = "idle"]
  /\ UNCHANGED <<helloSent, reading, log, written, polled>>

\* Another thread has ended the channel and closed the socket under the sender.
SendAborted(e) ==
  /\ error[e] # "none" /\ sender[e] # "idle"
  /\ Terminate(e, "closed")
  /\ sender' = [sender EXCEPT ![e] = "idle"]
  /\ UNCHANGED <<helloSent, reading, log, written, polled>>

-----------------------------------------------------------------------------
(***************************************************************************)
(* The reader thread, and the owner that takes from the queue.             *)
(***************************************************************************)
ReceiveFrame(e) ==
  /\ Open(e) /\ ~reading[e]
  /\ inc[e].sequence < written[Other(e)]
  /\ reading' = [reading EXCEPT ![e] = TRUE]
  /\ UNCHANGED <<out, inc, helloSent, queue, error, sender, log, written, polled>>

\* The answer of a peer that has our whole Hello waits until the send of that
\* Hello has returned.
\* A variant that accepts it at once.
MayAcceptAtOnce(e, m) == TRUE

\* A variant that also waits for room in the queue.
MayAcceptWithRoom(e, m) ==
  (m \in {Hello, Broken} \/ ~out[e].hello \/ helloSent[e]) /\ Len(queue[e]) < Capacity

MayAccept(e, m) == m \in {Hello, Broken} \/ ~out[e].hello \/ helloSent[e]

\* The queue is full.
Full(e, m) == m \notin {Hello, Broken} /\ Len(queue[e]) >= Capacity

\* What the owner may take; handshake is the one to see a Hello.
\* A variant that lets the owner take it.
DeliveredWithHello(e, m) == Append(queue[e], m)

Delivered(e, m) == IF m = Hello THEN queue[e] ELSE Append(queue[e], m)

AcceptFrame(e) ==
  LET frame == log[Other(e)][inc[e].sequence + 1]  m == frame.message IN
  /\ Open(e) /\ reading[e] /\ MayAccept(e, m)
  /\ reading' = [reading EXCEPT ![e] = FALSE]
  /\ IF Full(e, m) THEN Terminate(e, "overflow")
     ELSE IF ~Acceptable(e, frame, inc[e], out[e]) THEN Terminate(e, "protocol")
     ELSE /\ inc' = [inc EXCEPT ![e] = Moved(@, m)]
          /\ out' = [out EXCEPT ![e] = Answered(@, m)]
          /\ queue' = [queue EXCEPT ![e] = Delivered(e, m)]
          /\ UNCHANGED error
  /\ UNCHANGED <<helloSent, sender, log, written, polled>>

\* PARTIAL_READ_TIMEOUT, from the first byte of a frame, also while the whole
\* frame waits for our Hello.
ReadExpires(e) ==
  /\ Open(e) /\ (reading[e] \/ written[Other(e)] < Len(log[Other(e)]))
  /\ Terminate(e, "deadline")
  /\ reading' = [reading EXCEPT ![e] = FALSE]
  /\ UNCHANGED <<helloSent, sender, log, written, polled>>

\* The stream ends, possibly before all that was written has been read, because
\* either end has closed its socket.
ReadEnds(e) ==
  /\ e \notin Rogue /\ \E f \in Ends : error[f] # "none"
  /\ Terminate(e, "closed")
  /\ reading' = [reading EXCEPT ![e] = FALSE]
  /\ UNCHANGED <<helloSent, sender, log, written, polled>>

\* poll and receive.
Poll(e) ==
  /\ Open(e) /\ queue[e] # <<>>
  /\ queue' = [queue EXCEPT ![e] = Tail(@)]
  /\ polled' = [polled EXCEPT ![e] = [count |-> @.count + 1, last |-> Head(queue[e])]]
  /\ UNCHANGED <<out, inc, helloSent, error, sender, reading, log, written>>

\* close, from any thread.
Close(e) ==
  /\ e \notin Rogue
  /\ Terminate(e, "closed")
  /\ UNCHANGED <<helloSent, sender, reading, log, written, polled>>

-----------------------------------------------------------------------------
(***************************************************************************)
(* Something else at the other end of the socket.                          *)
(***************************************************************************)
RogueWrites(e, n, m) ==
  /\ e \in Rogue /\ error[e] = "none" /\ Room(e, 1) /\ Unread(e) < Window
  /\ log' = [log EXCEPT ![e] = Append(@, Frame(n, m))]
  /\ written' = [written EXCEPT ![e] = @ + 1]
  /\ UNCHANGED <<out, inc, helloSent, queue, error, sender, reading, polled>>

RogueEnds(e) ==
  /\ e \in Rogue /\ error[e] = "none"
  /\ error' = [error EXCEPT ![e] = "closed"]
  /\ UNCHANGED <<out, inc, helloSent, queue, sender, reading, log, written, polled>>

-----------------------------------------------------------------------------
Reader(e) == ReceiveFrame(e) \/ AcceptFrame(e) \/ ReadEnds(e)

Writer(e) == WriteFrame(e) \/ SendReturns(e) \/ SendAborted(e)

Owner(e) ==
  \/ \E m \in Messages \cup {Hello} : Admit(e, m)
  \/ \E at \in Times : AdmitPair(e, at)
  \/ Poll(e)

Next ==
  \/ \E e \in Ends : Reader(e) \/ Writer(e) \/ Owner(e)
  \/ \E e \in Impatient : ReadExpires(e) \/ \E why \in {"deadline", "cancelled"} : SendFails(e, why)
  \/ \E e \in Closers : Close(e)
  \/ \E e \in Rogue : RogueEnds(e) \/ \E n \in 1..MaxFrames, m \in Messages \cup {Hello, Broken} :
                                         RogueWrites(e, n, m)

Spec == Init /\ [][Next]_vars

\* Threads run: the reader, and a sender that has been admitted.  Nothing is
\* assumed of the owners, of deadlines or of closing.
Fairness == \A e \in Ends \ Rogue : WF_vars(Reader(e)) /\ WF_vars(Writer(e))

FairSpec == Spec /\ Fairness

-----------------------------------------------------------------------------
(***************************************************************************)
(* Properties.                                                             *)
(***************************************************************************)
\* The shape of the state, and the limits that keep an end small: its queue and
\* both directions' outstanding requests stay within the capacity.
TypeOK ==
  /\ \A e \in Ends : \A d \in {out[e], inc[e]} :
       /\ d.sequence \in 0..MaxFrames /\ d.hello \in BOOLEAN /\ d.edge \in 0..MaxId
       /\ d.settled \in Times /\ d.mark \in Times \cup {-1}
       /\ Cardinality(d.pending) <= Capacity /\ Cardinality(d.fences) <= Capacity
  /\ \A e \in Ends : Len(queue[e]) <= Capacity
  /\ error \in [Ends -> {"none", "protocol", "overflow", "closed", "deadline", "cancelled"}]
  /\ sender \in [Ends -> {"idle", "hello", "data"}]
  /\ helloSent \in [Ends -> BOOLEAN] /\ reading \in [Ends -> BOOLEAN]
  /\ \A e \in Ends : written[e] \in 0..Len(log[e])

\* Two channels never accuse each other of a protocol violation, whichever of
\* admission, writing, reading and the return of a send comes first.
\* Code: admission before the first byte, the wait for _hello_sent, _accept.
NoFalseAccusation == \A e \in Ends : error[e] # "protocol"

\* What one end knows of a direction and what the other knows of it converge:
\* the receiver never runs ahead, it holds no request open that the sender has
\* seen settled, and once it has caught up both agree.
ViewsConverge ==
  TypeOK /\ \A e \in Ends :
     LET mine == out[e]  theirs == inc[Other(e)] IN
     /\ theirs.sequence <= written[e]
     /\ Open(e) /\ Open(Other(e)) =>
          /\ theirs.pending \subseteq mine.pending /\ theirs.fences \subseteq mine.fences
          /\ theirs.sequence = mine.sequence =>
               Cleared(theirs) = Cleared(mine)

Accepted(e) == SubSeq(log[Other(e)], 1, inc[e].sequence)

Earlier(s, i, type) == {j \in 1..(i - 1) : s[j].message.type = type}

Requested(e, type, m) ==
  \E i \in DOMAIN log[e] : /\ log[e][i].message.type = type /\ log[e][i].message.id = m.id
                           /\ type = "Fence" => log[e][i].message.through = m.through

Ordered(s, i) ==
  LET m == s[i].message
      edges == Cardinality(Earlier(s, i, "EdgeRequest"))
      after(type) == \A j \in Earlier(s, i, type) : m.at >= s[j].message.at
  IN
  /\ s[i].seq = i /\ (m.type = "Hello" <=> i = 1) /\ m.type # "Broken"
  /\ m.type = "Progress" => after("Progress")
  /\ m.type = "EmissionComplete" => after("EmissionComplete") /\ m.id = edges
  /\ m.type = "EdgeRequest" =>
       /\ m.id = edges + 1
       /\ \A j \in Earlier(s, i, "EmissionComplete") : m.at > s[j].message.at
  /\ m.type = "Fence" =>
       m.id = Cardinality(Earlier(s, i, "Fence")) + 1 /\ m.through = edges

\* Whatever is at the other end, the frames an end has accepted are a legal
\* conversation: Hello first and once; edges, fences numbered from one; no edge
\* at or before a completed time; completions and fences that name the exact
\* prefix; times that never go back; one answer to each request that was made.
AcceptedIsLegal ==
  \A e \in Ends \ Rogue :
     LET s == Accepted(e) IN
     \A i \in DOMAIN s :
        LET m == s[i].message
            new(type) == \A j \in Earlier(s, i, type) : m.id # s[j].message.id
        IN
        /\ Ordered(s, i)
        /\ m.type = "EdgeResponse" => Requested(e, "EdgeRequest", m) /\ new("EdgeResponse")
        /\ m.type = "FenceAck" => Requested(e, "Fence", m) /\ new("FenceAck")

\* What was admitted is read by the other end, in particular both Hellos however
\* they cross, though that end's own sender may be blocked on a full socket and
\* its owner may take nothing; unless an end is closed, as one is whose queue
\* overflows.  Code: the reader thread sends nothing and waits for no owner.
EverythingArrives ==
  \A e \in Ends, n \in 1..MaxFrames :
     Len(log[e]) >= n ~> inc[Other(e)].sequence >= n \/ (\E f \in Ends : error[f] # "none")

Fifo == INSTANCE FifoLink WITH
  Nothing <- Hello,
  sent <- [e \in Ends |-> [i \in 1..(Len(log[e]) - 1) |-> log[e][i + 1].message]],
  got <- [e \in Ends |-> polled[e].count],
  last <- [e \in Ends |-> polled[e].last],
  down <- {e \in Ends : error[e] # "none"}

\* The wire is a FIFO link: each owner takes exactly what the other's owner sent,
\* in order, and nothing once it has been told that the link is down.
ImplementsFifo == Fifo!Spec
=============================================================================
