--------------------------- MODULE McuLinkProofs ---------------------------
(***************************************************************************)
(* Proofs about McuLink.  A handler is a composition of operators from      *)
(* state to state, so each operator gets one lemma: from a Good state it    *)
(* leads to a Good state (a Weak one where the code breaks the invariant    *)
(* for a moment, between clearing the queue and telling the state machine). *)
(***************************************************************************)
EXTENDS McuLink, TLAPS, SequenceTheorems

FaultSafe(m) == m.secret /\ m.fsm = "FAULT" => ~m.driven

\* What holds at every point inside a handler.
Weak(m) ==
    /\ m \in McuState
    /\ m.free + Len(m.queue) = MaxPendingTx
    /\ FaultSafe(m)

\* The inductive invariant, and what almost every operator preserves.
Good(m) == Weak(m) /\ AwaitingFrame(m)

\* n differs from m only in what the invariant does not mention.
SameLink(m, n) ==
    /\ n.fsm = m.fsm
    /\ n.queue = m.queue
    /\ n.free = m.free
    /\ n.last = m.last
    /\ n.retry = m.retry
    /\ n.limit = m.limit
    /\ n.ackTimer = m.ackTimer
    /\ n.secret = m.secret
    /\ n.driven = m.driven

\* The invariant depends on nothing but the fields SameLink compares.
LEMMA SameGood ==
    ASSUME NEW m, NEW n \in McuState, SameLink(m, n)
    PROVE  (Good(m) => Good(n)) /\ (Weak(m) => Weak(n))
  BY DEF SameLink, Good, Weak, FaultSafe, AwaitingFrame, isAwaitingAck

\* Updates of two members keep the type.
LEMMA SetFsm ==
    ASSUME NEW m \in McuState, NEW s \in Fsm, NEW d \in BOOLEAN
    PROVE  [m EXCEPT !.fsm = s, !.driven = d] \in McuState
<1> DEFINE a == [m EXCEPT !.fsm = s]
<1>1. a \in McuState
  BY DEF McuState
<1>2. [m EXCEPT !.fsm = s, !.driven = d] = [a EXCEPT !.driven = d]
  BY DEF McuState
<1> HIDE DEF a
<1>3. [a EXCEPT !.driven = d] \in McuState
  BY <1>1 DEF McuState
<1> QED BY <1>2, <1>3

\* Replacing the queue and the count of free buffers by values of their types keeps the
\* record's type.
LEMMA SetQueue ==
    ASSUME NEW m \in McuState, NEW q \in Seq(PendingTxFrame), NEW n \in 0 .. MaxPendingTx
    PROVE  [m EXCEPT !.queue = q, !.free = n] \in McuState
<1> DEFINE a == [m EXCEPT !.queue = q]
<1>1. a \in McuState
  BY DEF McuState
<1>2. [m EXCEPT !.queue = q, !.free = n] = [a EXCEPT !.free = n]
  BY DEF McuState
<1> HIDE DEF a
<1>3. [a EXCEPT !.free = n] \in McuState
  BY <1>1 DEF McuState
<1> QED BY <1>2, <1>3

\* The same for _last_command_id and the retry counter, set together when a frame is flushed.
LEMMA SetLast ==
    ASSUME NEW m \in McuState, NEW c \in Command, NEW n \in 0 .. 255
    PROVE  [m EXCEPT !.last = c, !.retry = n] \in McuState
<1> DEFINE a == [m EXCEPT !.last = c]
<1>1. a \in McuState
  BY DEF McuState
<1>2. [m EXCEPT !.last = c, !.retry = n] = [a EXCEPT !.retry = n]
  BY DEF McuState
<1> HIDE DEF a
<1>3. [a EXCEPT !.retry = n] \in McuState
  BY <1>1 DEF McuState
<1> QED BY <1>2, <1>3

\* The same for the members that entering the safe state sets.
LEMMA SetSafe ==
    ASSUME NEW m \in McuState, NEW d \in BOOLEAN, NEW e \in BOOLEAN
    PROVE  [m EXCEPT !.driven = d, !.txEnabled = e] \in McuState
<1> DEFINE a == [m EXCEPT !.driven = d]
<1>1. a \in McuState
  BY DEF McuState
<1>2. [m EXCEPT !.driven = d, !.txEnabled = e] = [a EXCEPT !.txEnabled = e]
  BY DEF McuState
<1> HIDE DEF a
<1>3. [a EXCEPT !.txEnabled = e] \in McuState
  BY <1>1 DEF McuState
<1> QED BY <1>2, <1>3

\* The queue is a sequence of frames; its head, when there is one, is a frame.
LEMMA QueueType ==
    ASSUME NEW m \in McuState
    PROVE  /\ m.queue \in Seq(PendingTxFrame)
           /\ Len(m.queue) \in Nat
           /\ m.queue # << >> => Head(m.queue) \in PendingTxFrame /\ Len(m.queue) > 0
  BY DEF McuState
----------------------------------------------------------------------------
(* Writing to the UART. *)

\* Frames the firmware builds are frames.
LEMMA NoDataType == NoData \in Payload
  BY McuConstants DEF NoData

\* The envelope that sendSinglePass fills in is a frame.
LEMMA PlainType ==
    ASSUME NEW c \in Command, NEW s \in Sequence
    PROVE  Plain(c, s) \in Frame
<1>1. "STATUS_OK" \in Command /\ 0 \in 0 .. CounterRange - 1
  BY McuConstants DEF Command, StatusCode
<1> QED BY <1>1, NoDataType DEF Plain, Frame

\* Writing a frame to the UART changes nothing but what has been written.
LEMMA WriteSame ==
    ASSUME NEW m \in McuState, NEW f \in Frame
    PROVE  write(m, f) \in McuState /\ SameLink(m, write(m, f))
<1>1. Append(m.tx, f) \in Seq(Frame)
  BY DEF McuState
<1>2. write(m, f) \in McuState
  BY <1>1 DEF write, McuState
<1>3. SameLink(m, write(m, f))
  BY DEF write, McuState, SameLink
<1> QED BY <1>2, <1>3

\* _transmit changes only the transmit nonce counter and what has been written.
LEMMA TransmitSame ==
    ASSUME NEW m \in McuState, NEW c \in Command, NEW s \in Sequence, NEW d \in Payload
    PROVE  transmit(m, c, s, d) \in McuState /\ SameLink(m, transmit(m, c, s, d))
<1> DEFINE f == [Plain(c, s) EXCEPT !.data = d]
           n == (m.txCtr + 1) % CounterRange
           k == [m EXCEPT !.txCtr = n]
           g == [f EXCEPT !.key = m.key, !.ctr = n]
<1>1. n \in 0 .. CounterRange - 1
  BY McuConstants DEF McuState
<1>2. f \in Frame
  BY PlainType DEF Frame
<1>3. g \in Frame
  BY <1>1, <1>2 DEF Frame, McuState
<1>4. k \in McuState /\ SameLink(m, k)
  BY <1>1 DEF McuState, SameLink
<1>5. write(k, g) \in McuState /\ SameLink(k, write(k, g))
  BY <1>3, <1>4, WriteSame
<1>6. write(m, f) \in McuState /\ SameLink(m, write(m, f))
  BY <1>2, WriteSame
<1>7. SameLink(m, write(k, g))
  BY <1>4, <1>5 DEF SameLink
<1>8. transmit(m, c, s, d) = write(k, g) \/ transmit(m, c, s, d) = write(m, f)
  BY DEF transmit
<1> QED BY <1>5, <1>6, <1>7, <1>8

\* emitStatus only writes: it never has to enter the safe state.
LEMMA EmitStatusSame ==
    ASSUME NEW m \in McuState, NEW c \in StatusCode, NEW s \in Sequence
    PROVE  emitStatus(m, c, s) \in McuState /\ SameLink(m, emitStatus(m, c, s))
  BY TransmitSame, NoDataType DEF emitStatus, Command

\* sendSinglePass only writes, or refuses.
LEMMA SinglePassSame ==
    ASSUME NEW m \in McuState, NEW f \in Frame
    PROVE  sendSinglePass(m, f) \in McuState /\ SameLink(m, sendSinglePass(m, f))
  BY WriteSame DEF sendSinglePass, SameLink

\* Acknowledging a received frame only writes.
LEMMA ProcessAckSame ==
    ASSUME NEW m \in McuState, NEW c \in Command, NEW s \in Sequence
    PROVE  processAck(m, c, s) \in McuState /\ SameLink(m, processAck(m, c, s))
<1>1. Plain("STATUS_ACK", s) \in Frame
  BY PlainType DEF Command, StatusCode
<1>2. [Plain("STATUS_ACK", s) EXCEPT !.ack = c] \in Frame
  BY <1>1 DEF Frame
<1> QED BY <1>2, SinglePassSame DEF processAck
----------------------------------------------------------------------------
(* The state machine. *)

\* Only EvSendCritical enters AWAITING_ACK; four events always leave it.
LEMMA FsmStep ==
    ASSUME NEW s \in Fsm, NEW ev \in Event
    PROVE  /\ FsmNext(s, ev) \in Fsm
           /\ FsmNext(s, ev) = "AWAITING_ACK" /\ s # "AWAITING_ACK" => ev = "EvSendCritical"
           /\ ev \in {"EvReset", "EvHandshakeFailed", "EvTimeout", "EvAckReceived"}
                => FsmNext(s, ev) # "AWAITING_ACK"
  BY DEF FsmNext, Fsm, Event

\* An event moves the state machine, may make the pins safe, and leaves the other members.
LEMMA FsmReceiveFields ==
    ASSUME NEW m, Weak(m), NEW ev \in Event
    PROVE  LET n == fsmReceive(m, ev) IN
           /\ Weak(n)
           /\ n.fsm = FsmNext(m.fsm, ev)
           /\ n.queue = m.queue /\ n.free = m.free /\ n.last = m.last
           /\ n.retry = m.retry /\ n.limit = m.limit /\ n.ackTimer = m.ackTimer
<1> DEFINE n == fsmReceive(m, ev)
           s == FsmNext(m.fsm, ev)
           d == m.driven /\ ~(s = "FAULT" /\ m.fsm # "FAULT")
<1>1. m \in McuState /\ m.fsm \in Fsm /\ m.driven \in BOOLEAN
  BY DEF Weak, McuState
<1>2. s \in Fsm /\ d \in BOOLEAN
  BY <1>1, FsmStep
<1>3. n = [m EXCEPT !.fsm = s, !.driven = d]
  BY DEF fsmReceive
<1> HIDE DEF s, d
<1>4. n \in McuState
  <2>1. [m EXCEPT !.fsm = s, !.driven = d] \in McuState
    BY <1>1, <1>2, SetFsm
  <2> QED BY <2>1, <1>3
<1>5. /\ n.fsm = s /\ n.driven = d /\ n.secret = m.secret
      /\ n.queue = m.queue /\ n.free = m.free /\ n.last = m.last
      /\ n.retry = m.retry /\ n.limit = m.limit /\ n.ackTimer = m.ackTimer
  BY <1>1, <1>3 DEF McuState
<1>6. FaultSafe(n)
  BY <1>5 DEF Weak, FaultSafe, d
<1> QED BY <1>4, <1>5, <1>6 DEF Weak, s

\* After one of the four events the invariant holds even if it did not before.
LEMMA FsmLeaves ==
    ASSUME NEW m, Weak(m),
           NEW ev \in {"EvReset", "EvHandshakeFailed", "EvTimeout", "EvAckReceived"}
    PROVE  Good(fsmReceive(m, ev))
<1>1. ev \in Event /\ m.fsm \in Fsm
  BY DEF Event, Weak, McuState
<1> QED BY <1>1, FsmReceiveFields, FsmStep DEF Good, AwaitingFrame, isAwaitingAck

\* An event that does not start a wait preserves the invariant.
LEMMA FsmGood ==
    ASSUME NEW m, Good(m), NEW ev \in Event, ev # "EvSendCritical"
    PROVE  Good(fsmReceive(m, ev))
<1>1. m.fsm \in Fsm /\ Weak(m)
  BY DEF Good, Weak, McuState
<1> QED BY <1>1, FsmReceiveFields, FsmStep DEF Good, AwaitingFrame, isAwaitingAck
----------------------------------------------------------------------------
(* The queue. *)

\* Clearing the queue gives every buffer back.
LEMMA ClearWeak ==
    ASSUME NEW m, Weak(m)
    PROVE  LET n == clearPendingTxQueue(m) IN
           Weak(n) /\ n.queue = << >> /\ n.fsm = m.fsm /\ n.ackTimer = m.ackTimer
<1> DEFINE n == clearPendingTxQueue(m)
           e == m.free + Len(m.queue)
<1>1. m \in McuState /\ e = MaxPendingTx
  BY DEF Weak
<1>2. << >> \in Seq(PendingTxFrame) /\ Len(<< >>) = 0 /\ MaxPendingTx \in 0 .. MaxPendingTx
  BY McuConstants
<1>3. n = [m EXCEPT !.queue = << >>, !.free = e]
  BY DEF clearPendingTxQueue
<1> HIDE DEF e, n
<1>4. n \in McuState
  BY <1>1, <1>2, <1>3, SetQueue
<1>5. /\ n.queue = << >> /\ n.free = MaxPendingTx /\ n.fsm = m.fsm
      /\ n.ackTimer = m.ackTimer /\ n.secret = m.secret /\ n.driven = m.driven
  BY <1>1, <1>3 DEF McuState
<1>6. Weak(n)
  BY <1>2, <1>4, <1>5, McuConstants DEF Weak, FaultSafe
<1> QED BY <1>5, <1>6 DEF n

\* A head frame put in flight satisfies the invariant, whatever the state before.
LEMMA FlushGood ==
    ASSUME NEW m, Good(m)
    PROVE  Good(flushPendingTxQueue(m))
<1>1. CASE m.queue = << >> \/ ~m.txEnabled
  BY <1>1 DEF flushPendingTxQueue
<1>2. CASE m.queue # << >> /\ m.txEnabled
  <2> DEFINE f == Head(m.queue)
             b == [m EXCEPT !.last = f.cmd, !.retry = 0]
             a == fsmReceive(b, "EvSendCritical")
             x == transmit(a, f.cmd, f.seq, f.data)
             n == [x EXCEPT !.ackTimer = TRUE]
  <2>1. f \in PendingTxFrame /\ f.cmd \in Command /\ m \in McuState
    BY <1>2, QueueType DEF Good, Weak, PendingTxFrame, Command
  <2>2. b \in McuState
    <3> DEFINE c == f.cmd
    <3>1. c \in Command /\ 0 \in 0 .. 255
      BY <2>1
    <3> HIDE DEF c
    <3>2. [m EXCEPT !.last = c, !.retry = 0] \in McuState
      BY <2>1, <3>1, SetLast
    <3> QED BY <3>2 DEF c
  <2>3. b.last = f.cmd /\ b.retry = 0 /\ b.queue = m.queue /\ b.free = m.free
           /\ b.fsm = m.fsm /\ b.secret = m.secret /\ b.driven = m.driven
    BY <2>1 DEF McuState
  <2>4. Weak(b)
    BY <2>2, <2>3 DEF Good, Weak, FaultSafe
  <2>5. Weak(a) /\ a.queue = m.queue /\ a.last = f.cmd /\ a.retry = 0
    BY <2>3, <2>4, FsmReceiveFields DEF Event
  <2>6. x \in McuState /\ SameLink(a, x)
    BY <2>1, <2>5, TransmitSame DEF Weak, PendingTxFrame
  <2>7. Weak(x) /\ x.queue = m.queue /\ x.last = f.cmd /\ x.retry = 0
    BY <2>5, <2>6, SameGood DEF SameLink
  <2>8. n \in McuState
    BY <2>6 DEF McuState
  <2>9. n.fsm = x.fsm /\ n.queue = x.queue /\ n.free = x.free /\ n.last = x.last
           /\ n.retry = x.retry /\ n.ackTimer /\ n.secret = x.secret /\ n.driven = x.driven
    BY <2>6 DEF McuState
  <2>10. Good(n)
    BY <1>2, <2>7, <2>8, <2>9 DEF Good, Weak, FaultSafe, AwaitingFrame
  <2>11. flushPendingTxQueue(m) = n
    BY <1>2 DEF flushPendingTxQueue
  <2> QED BY <2>10, <2>11
<1> QED BY <1>1, <1>2 DEF Good, Weak, McuState

\* _retransmitLastFrame preserves the invariant: the front frame stays, its timer runs.
LEMMA RetransmitGood ==
    ASSUME NEW m, Good(m)
    PROVE  Good(retransmitLastFrame(m))
<1>1. CASE m.queue = << >>
  BY <1>1 DEF retransmitLastFrame
<1>2. CASE m.queue # << >>
  <2> DEFINE f == Head(m.queue)
             x == transmit(m, f.cmd, f.seq, f.data)
             n == [x EXCEPT !.ackTimer = TRUE]
  <2>1. f \in PendingTxFrame /\ f.cmd \in Command /\ m \in McuState
    BY <1>2, QueueType DEF Good, Weak, PendingTxFrame, Command
  <2>2. x \in McuState /\ SameLink(m, x)
    BY <2>1, TransmitSame DEF PendingTxFrame
  <2>3. Good(x)
    BY <2>2, SameGood
  <2>4. n \in McuState
    BY <2>2 DEF McuState
  <2>5. n.fsm = x.fsm /\ n.queue = x.queue /\ n.free = x.free /\ n.last = x.last
           /\ n.retry = x.retry /\ n.limit = x.limit /\ n.ackTimer
           /\ n.secret = x.secret /\ n.driven = x.driven
    BY <2>2 DEF McuState
  <2>6. Good(n)
    BY <2>3, <2>4, <2>5 DEF Good, Weak, FaultSafe, AwaitingFrame, isAwaitingAck
  <2>7. retransmitLastFrame(m) = n
    BY <1>2 DEF retransmitLastFrame
  <2> QED BY <2>6, <2>7
<1> QED BY <1>1, <1>2

\* Queueing a reliable frame where there is room preserves the invariant, whether it is
\* flushed at once or waits behind the frame in flight.
LEMMA EnqueueGood ==
    ASSUME NEW m, Good(m), hasRoom(m),
           NEW c \in Reliable, NEW s \in Sequence, NEW d \in Payload
    PROVE  Good(enqueue(m, c, s, d))
<1> DEFINE e == [cmd |-> c, seq |-> s, data |-> d]
           q == [m EXCEPT !.queue = Append(m.queue, e), !.free  = m.free - 1]
<1>1. m \in McuState /\ e \in PendingTxFrame
  BY DEF Good, Weak, PendingTxFrame
<1>2. m.queue \in Seq(PendingTxFrame) /\ Len(m.queue) \in Nat
  BY <1>1, QueueType
<1> HIDE DEF e
<1>3. /\ Append(m.queue, e) \in Seq(PendingTxFrame)
      /\ Append(m.queue, e) # << >>
      /\ Len(Append(m.queue, e)) = Len(m.queue) + 1
      /\ m.queue # << >> => Head(Append(m.queue, e)) = Head(m.queue)
  BY <1>1, <1>2, AppendProperties
<1>4. m.free \in 0 .. MaxPendingTx /\ m.free > 0
  BY <1>1 DEF McuState, hasRoom
<1>5. q \in McuState
  <2> DEFINE a == Append(m.queue, e)
             k == m.free - 1
  <2>1. a \in Seq(PendingTxFrame) /\ k \in 0 .. MaxPendingTx
    BY <1>3, <1>4, McuConstants
  <2> HIDE DEF a, k
  <2>2. [m EXCEPT !.queue = a, !.free = k] \in McuState
    BY <1>1, <2>1, SetQueue
  <2> QED BY <2>2 DEF a, k
<1>6. /\ q.queue = Append(m.queue, e) /\ q.free = m.free - 1 /\ q.fsm = m.fsm
      /\ q.last = m.last /\ q.retry = m.retry /\ q.limit = m.limit
      /\ q.ackTimer = m.ackTimer /\ q.secret = m.secret /\ q.driven = m.driven
  BY <1>1 DEF McuState
<1>7. Good(q)
  BY <1>2, <1>3, <1>4, <1>5, <1>6, McuConstants, SMTT(30)
     DEF Good, Weak, FaultSafe, AwaitingFrame, isAwaitingAck
<1>8. Good(flushPendingTxQueue(q))
  BY <1>7, FlushGood
<1>9. enqueue(m, c, s, d) = IF isAwaitingAck(m) THEN q ELSE flushPendingTxQueue(q)
  BY DEF enqueue, e
<1> QED BY <1>7, <1>8, <1>9
----------------------------------------------------------------------------
(* Sending. *)

\* The firmware's reliable commands are commands.
LEMMA ReliableCommand == Reliable \subseteq Command
  BY DEF Command

\* sendFrame preserves the invariant.
LEMMA SendFrameGood ==
    ASSUME NEW m, Good(m), NEW c \in Command, NEW s \in Sequence, NEW d \in Payload
    PROVE  Good(sendFrame(m, c, s, d))
<1>1. m \in McuState
  BY DEF Good, Weak
<1>2. CASE ~sendFrameOk(m, c)
  BY <1>2 DEF sendFrame
<1>3. CASE sendFrameOk(m, c) /\ c \in Reliable
  <2>1. hasRoom(m)
    BY <1>3 DEF sendFrameOk
  <2>2. sendFrame(m, c, s, d) = enqueue(m, c, s, d)
    BY <1>3 DEF sendFrame
  <2> QED BY <1>3, <2>1, <2>2, EnqueueGood
<1>4. CASE sendFrameOk(m, c) /\ c \notin Reliable
  <2>1. sendFrame(m, c, s, d) = transmit(m, c, s, d)
    BY <1>4 DEF sendFrame
  <2> QED BY <1>1, <2>1, TransmitSame, SameGood
<1> QED BY <1>2, <1>3, <1>4

\* send preserves the invariant.
LEMMA SendGood ==
    ASSUME NEW m, Good(m), NEW c \in Command, NEW s \in Sequence, NEW d \in Payload
    PROVE  Good(send(m, c, s, d))
<1>1. m \in McuState
  BY DEF Good, Weak
<1>2. CASE ~sendOk(m, c)
  BY <1>2 DEF send
<1>3. CASE sendOk(m, c) /\ sendEncrypted(m, c) /\ c \in Reliable
  <2>1. hasRoom(m)
    BY <1>3 DEF sendOk
  <2>2. send(m, c, s, d) = enqueue(m, c, s, d)
    BY <1>3 DEF send
  <2> QED BY <1>3, <2>1, <2>2, EnqueueGood
<1>4. CASE sendOk(m, c) /\ sendEncrypted(m, c) /\ c \notin Reliable
  <2>1. send(m, c, s, d) = transmit(m, c, s, d)
    BY <1>4 DEF send
  <2> QED BY <1>1, <2>1, TransmitSame, SameGood
<1>5. CASE sendOk(m, c) /\ ~sendEncrypted(m, c)
  <2> DEFINE f == [Plain(c, s) EXCEPT !.data = d]
  <2>1. f \in Frame
    BY PlainType DEF Frame
  <2>2. send(m, c, s, d) = sendSinglePass(m, f)
    BY <1>5 DEF send
  <2> QED BY <1>1, <2>1, <2>2, SinglePassSame, SameGood
<1> QED BY <1>2, <1>3, <1>4, <1>5
----------------------------------------------------------------------------
(* Safe state and timers. *)

\* enterSafeState re-establishes the invariant: no wait is left.
LEMMA EnterSafeStateGood ==
    ASSUME NEW m, Weak(m)
    PROVE  Good(enterSafeState(m))
<1> DEFINE a == [m EXCEPT !.driven = FALSE, !.txEnabled = FALSE]
<1>1. m \in McuState
  BY DEF Weak
<1>2. a \in McuState
  BY <1>1, SetSafe
<1>3. a.queue = m.queue /\ a.free = m.free /\ a.driven = FALSE
  BY <1>1 DEF McuState
<1>4. Weak(a)
  BY <1>2, <1>3 DEF Weak, FaultSafe
<1>5. Weak(clearPendingTxQueue(a))
  BY <1>4, ClearWeak
<1> QED BY <1>5, FsmLeaves DEF enterSafeState

\* A member the invariant does not mention may take any value.
LEMMA SetTxEnabled ==
    ASSUME NEW m \in McuState, NEW b \in BOOLEAN
    PROVE  [m EXCEPT !.txEnabled = b] \in McuState /\ SameLink(m, [m EXCEPT !.txEnabled = b])
  BY ZenonT(30) DEF McuState, SameLink

\* Starting or stopping the handshake timer preserves the invariant.
LEMMA SetHsTimer ==
    ASSUME NEW m \in McuState, NEW b \in BOOLEAN
    PROVE  [m EXCEPT !.hsTimer = b] \in McuState /\ SameLink(m, [m EXCEPT !.hsTimer = b])
  BY ZenonT(30) DEF McuState, SameLink

\* _onAckTimeout preserves the invariant: it counts and resends, or gives up in FAULT
\* with safe pins and an empty queue.
LEMMA OnAckTimeoutGood ==
    ASSUME NEW m, Good(m)
    PROVE  Good(onAckTimeout(m))
<1> DEFINE k == (m.retry + 1) % 256
           r == [m EXCEPT !.retry = k]
           a == [r EXCEPT !.ackTimer = FALSE]
           b == fsmReceive(a, "EvTimeout")
           c == [b EXCEPT !.txEnabled = FALSE]
<1>1. m \in McuState /\ m.retry \in 0 .. 255 /\ m.limit \in 0 .. 255
  BY DEF Good, Weak, McuState
<1>2. k \in 0 .. 255
  BY <1>1
<1> HIDE DEF k
<1>3. r \in McuState
  BY <1>1, <1>2 DEF McuState
<1>4. /\ r.retry = k /\ r.fsm = m.fsm /\ r.queue = m.queue /\ r.free = m.free
      /\ r.last = m.last /\ r.limit = m.limit /\ r.ackTimer = m.ackTimer
      /\ r.secret = m.secret /\ r.driven = m.driven
  BY <1>1 DEF McuState
<1>5. Weak(r)
  BY <1>3, <1>4 DEF Good, Weak, FaultSafe
<1> HIDE DEF r
<1>6. CASE ~isAwaitingAck(m)
  BY <1>6 DEF onAckTimeout
<1>7. CASE isAwaitingAck(m) /\ r.retry >= m.limit
  <2>1. a \in McuState
    BY <1>3 DEF McuState
  <2>2. /\ a.fsm = r.fsm /\ a.queue = r.queue /\ a.free = r.free
        /\ a.secret = r.secret /\ a.driven = r.driven
    BY <1>3 DEF McuState
  <2>3. Weak(a)
    BY <1>5, <2>1, <2>2 DEF Weak, FaultSafe
  <2>4. Weak(b) /\ b.fsm = "FAULT"
    <3>1. a.fsm = "AWAITING_ACK"
      BY <1>4, <1>7, <2>2 DEF isAwaitingAck
    <3>2. FsmNext("AWAITING_ACK", "EvTimeout") = "FAULT" /\ "EvTimeout" \in Event
      BY DEF FsmNext, Event
    <3> QED BY <2>3, <3>1, <3>2, FsmReceiveFields
  <2> HIDE DEF a, b
  <2>5. c \in McuState /\ SameLink(b, c)
    BY <2>4, SetTxEnabled DEF Weak
  <2>6. Weak(c) /\ c.fsm = "FAULT"
    BY <2>4, <2>5, SameGood DEF SameLink
  <2> HIDE DEF c
  <2>7. Good(clearPendingTxQueue(c))
    BY <2>6, ClearWeak DEF Good, AwaitingFrame, isAwaitingAck
  <2>8. onAckTimeout(m) = clearPendingTxQueue(c)
    BY <1>7 DEF onAckTimeout, a, b, c, k, r
  <2> QED BY <2>7, <2>8
<1>8. CASE isAwaitingAck(m) /\ ~(r.retry >= m.limit)
  <2>1. r.retry < m.limit
    BY <1>1, <1>2, <1>4, <1>8
  <2>2. Good(r)
    BY <1>4, <1>5, <1>8, <2>1 DEF Good, AwaitingFrame, isAwaitingAck
  <2>3. onAckTimeout(m) = retransmitLastFrame(r)
    BY <1>8 DEF onAckTimeout, r, k
  <2> QED BY <2>2, <2>3, RetransmitGood
<1> QED BY <1>6, <1>7, <1>8

\* _onHandshakeTimeout preserves the invariant.
LEMMA OnHandshakeTimeoutGood ==
    ASSUME NEW m, Good(m)
    PROVE  Good(onHandshakeTimeout(m))
<1> DEFINE t == [m EXCEPT !.hsTimer = FALSE]
           b == fsmReceive(t, "EvTimeout")
           c == [b EXCEPT !.txEnabled = FALSE]
<1>1. m \in McuState
  BY DEF Good, Weak
<1>2. t \in McuState /\ SameLink(m, t)
  BY <1>1, SetHsTimer
<1>3. Good(t)
  BY <1>2, SameGood
<1> HIDE DEF t
<1>4. Good(b)
  BY <1>3, FsmGood DEF Event
<1>5. c \in McuState /\ SameLink(b, c)
  BY <1>4, SetTxEnabled DEF Good, Weak
<1>6. Good(c)
  BY <1>4, <1>5, SameGood
<1>7. onHandshakeTimeout(m) = t \/ onHandshakeTimeout(m) = c
  BY DEF onHandshakeTimeout, t
<1> QED BY <1>3, <1>6, <1>7
----------------------------------------------------------------------------
(* Handlers of received frames. *)

\* _handleAck preserves the invariant: the wait ends and the queue is empty.
LEMMA HandleAckGood ==
    ASSUME NEW m, Good(m), NEW c
    PROVE  Good(handleAck(m, c))
<1> DEFINE a == [m EXCEPT !.ackTimer = FALSE]
<1>1. m \in McuState
  BY DEF Good, Weak
<1>2. a \in McuState
  BY <1>1 DEF McuState
<1>3. /\ a.fsm = m.fsm /\ a.queue = m.queue /\ a.free = m.free
      /\ a.secret = m.secret /\ a.driven = m.driven
  BY <1>1 DEF McuState
<1>4. Weak(a)
  BY <1>2, <1>3 DEF Good, Weak, FaultSafe
<1> HIDE DEF a
<1>5. Good(fsmReceive(clearPendingTxQueue(a), "EvAckReceived"))
  BY <1>4, ClearWeak, FsmLeaves
<1>6. Good(flushPendingTxQueue(fsmReceive(clearPendingTxQueue(a), "EvAckReceived")))
  BY <1>5, FlushGood
<1>7. \/ handleAck(m, c) = m
      \/ handleAck(m, c) = flushPendingTxQueue(fsmReceive(clearPendingTxQueue(a), "EvAckReceived"))
  BY DEF handleAck, a
<1> QED BY <1>6, <1>7

\* _handleLinkReset preserves the invariant, although the queue keeps its frames.
LEMMA HandleLinkResetGood ==
    ASSUME NEW m, Good(m), NEW f \in Frame
    PROVE  Good(handleLinkReset(m, f))
<1> DEFINE l == f.limit % 256
           t == IF f.decodes THEN [m EXCEPT !.limit = l] ELSE m
           r == fsmReceive(t, "EvReset")
           h == [r EXCEPT !.hsTimer = TRUE]
<1>1. m \in McuState /\ f.seq \in Sequence /\ f.limit \in Nat
  <2>1. f.seq \in Sequence /\ f.limit \in RetryLimit \cup {DefaultRetryLimit}
    BY DEF Frame
  <2>2. RetryLimit \cup {DefaultRetryLimit} \subseteq Nat
    BY McuConstants
  <2> QED BY <2>1, <2>2 DEF Good, Weak
<1>2. l \in 0 .. 255
  BY <1>1
<1> HIDE DEF l
<1>3. [m EXCEPT !.limit = l] \in McuState
  BY <1>1, <1>2 DEF McuState
<1>4. LET n == [m EXCEPT !.limit = l] IN
      /\ n.fsm = m.fsm /\ n.queue = m.queue /\ n.free = m.free
      /\ n.secret = m.secret /\ n.driven = m.driven
  BY <1>1 DEF McuState
<1>5. Weak(t)
  BY <1>3, <1>4 DEF Good, Weak, FaultSafe
<1> HIDE DEF t
<1>6. Good(r)
  BY <1>5, FsmLeaves
<1>7. h \in McuState /\ SameLink(r, h)
  BY <1>6, SetHsTimer DEF Good, Weak
<1>8. Good(h)
  BY <1>6, <1>7, SameGood
<1> HIDE DEF h
<1>9. "CMD_LINK_RESET_RESP" \in Command
  BY DEF Command, SystemCommand
<1>10. Good(transmit(h, "CMD_LINK_RESET_RESP", f.seq, NoData))
  BY <1>1, <1>7, <1>8, <1>9, NoDataType, TransmitSame, SameGood
<1> QED BY <1>10 DEF handleLinkReset, h, r, t, l

\* A new session replaces the key and both counters.
LEMMA SetSession ==
    ASSUME NEW m \in McuState, NEW n \in Nonce \cup {NoNonce}
    PROVE  LET k == [m EXCEPT !.key = n, !.txCtr = 0, !.rxCtr = 0]
           IN  k \in McuState /\ SameLink(m, k)
<1> DEFINE a == [m EXCEPT !.key = n]
           b == [a EXCEPT !.txCtr = 0]
           k == [m EXCEPT !.key = n, !.txCtr = 0, !.rxCtr = 0]
<1>0. 0 \in 0 .. CounterRange - 1
  BY McuConstants
<1>1. a \in McuState /\ SameLink(m, a)
  BY DEF McuState, SameLink
<1>2. k = [b EXCEPT !.rxCtr = 0]
  BY DEF McuState
<1> HIDE DEF a, k
<1>3. b \in McuState /\ SameLink(a, b)
  BY <1>0, <1>1 DEF McuState, SameLink
<1> HIDE DEF b
<1>4. [b EXCEPT !.rxCtr = 0] \in McuState /\ SameLink(b, [b EXCEPT !.rxCtr = 0])
  BY <1>0, <1>3, ZenonT(30) DEF McuState, SameLink
<1>5. k \in McuState /\ SameLink(m, k)
  BY <1>1, <1>2, <1>3, <1>4 DEF SameLink
<1> QED BY <1>5 DEF k

\* _handleLinkSync preserves the invariant, accepted or rejected.
LEMMA HandleLinkSyncGood ==
    ASSUME NEW m, Good(m), NEW f \in Frame
    PROVE  Good(handleLinkSync(m, f))
<1>1. m \in McuState /\ f.seq \in Sequence /\ f.nonce \in Nonce \cup {NoNonce}
  BY DEF Good, Weak, Frame
<1>2. CASE m.secret /\ ~f.valid
  <2>1. Good(fsmReceive(m, "EvHandshakeFailed"))
    BY FsmLeaves DEF Good
  <2>2. "STATUS_ERROR" \in StatusCode /\ 0 \in Sequence
    BY McuConstants DEF StatusCode
  <2>3. Good(emitStatus(fsmReceive(m, "EvHandshakeFailed"), "STATUS_ERROR", 0))
    BY <2>1, <2>2, EmitStatusSame, SameGood DEF Good, Weak
  <2> QED BY <1>2, <2>3 DEF handleLinkSync
<1>3. CASE ~(m.secret /\ ~f.valid)
  <2> DEFINE n == [m EXCEPT !.key = f.nonce, !.txCtr = 0, !.rxCtr = 0]
             k == IF m.secret THEN n ELSE m
             s == fsmReceive(fsmReceive(k, "EvHandshakeStart"), "EvHandshakeComplete")
             h == [s EXCEPT !.hsTimer = FALSE]
             p == [Plain("CMD_LINK_SYNC_RESP", f.seq) EXCEPT !.nonce = f.nonce,
                                                             !.valid = m.secret]
  <2>1. n \in McuState /\ SameLink(m, n)
    BY <1>1, SetSession
  <2>2. Good(k)
    BY <2>1, SameGood
  <2> HIDE DEF k
  <2>3. Good(s)
    BY <2>2, FsmGood DEF Event
  <2> HIDE DEF s
  <2>4. h \in McuState /\ SameLink(s, h)
    BY <2>3, SetHsTimer DEF Good, Weak
  <2>5. Good(h)
    BY <2>3, <2>4, SameGood
  <2>6. Plain("CMD_LINK_SYNC_RESP", f.seq) \in Frame /\ m.secret \in BOOLEAN
    BY <1>1, PlainType DEF Command, SystemCommand, McuState
  <2>7. p \in Frame
    BY <1>1, <2>6 DEF Frame
  <2> HIDE DEF h, p
  <2>8. Good(sendSinglePass(h, p))
    BY <2>4, <2>5, <2>7, SinglePassSame, SameGood DEF h
  <2>9. handleLinkSync(m, f) = sendSinglePass(h, p)
    BY <1>3 DEF handleLinkSync, h, p, s, k
  <2> QED BY <2>8, <2>9
<1> QED BY <1>2, <1>3

\* The pin read handlers preserve the invariant.
LEMMA HandleDigitalReadGood ==
    ASSUME NEW m, Good(m), NEW f \in Frame
    PROVE  Good(handleDigitalRead(m, f))
<1>1. /\ f.seq \in Sequence /\ 0 \in Sequence /\ m \in McuState
      /\ "CMD_DIGITAL_READ_RESP" \in Command /\ "STATUS_ERROR" \in StatusCode
  BY McuConstants DEF Good, Weak, Frame, Command, AppCommand, StatusCode
<1>2. Good(send(m, "CMD_DIGITAL_READ_RESP", f.seq, NoData))
  BY <1>1, SendGood, NoDataType
<1>3. Good(emitStatus(m, "STATUS_ERROR", 0))
  BY <1>1, EmitStatusSame, SameGood
<1> QED BY <1>2, <1>3 DEF handleDigitalRead
----------------------------------------------------------------------------
(* Dispatch. *)

\* The commands of the table, as commands.
LEMMA Names ==
    /\ Dispatched \subseteq Command
    /\ {"STATUS_OK", "STATUS_ERROR", "STATUS_MALFORMED"} \subseteq StatusCode
    /\ "CMD_GET_CAPABILITIES_RESP" \in Command
    /\ StatusCode \subseteq Command
    /\ 0 \in Sequence
  BY McuConstants DEF Dispatched, Command, StatusCode, SystemCommand, AppCommand

\* emitStatus preserves the invariant.
LEMMA EmitStatusGood ==
    ASSUME NEW m, Good(m), NEW c \in StatusCode, NEW s \in Sequence
    PROVE  Good(emitStatus(m, c, s))
  BY EmitStatusSame, SameGood DEF Good, Weak

\* The security check is what keeps a pin from being driven in FAULT.
LEMMA DigitalWriteGood ==
    ASSUME NEW m, Good(m), isSecurityCheckPassed(m, "CMD_DIGITAL_WRITE")
    PROVE  Good([m EXCEPT !.driven = TRUE])
<1> DEFINE n == [m EXCEPT !.driven = TRUE]
<1>1. m \in McuState
  BY DEF Good, Weak
<1>2. n \in McuState
  BY <1>1 DEF McuState
<1>3. /\ n.fsm = m.fsm /\ n.queue = m.queue /\ n.free = m.free /\ n.last = m.last
      /\ n.retry = m.retry /\ n.limit = m.limit /\ n.ackTimer = m.ackTimer
      /\ n.secret = m.secret
  BY <1>1 DEF McuState
<1>4. m.secret => m.fsm \in {"SYNCHRONIZED", "AWAITING_ACK"}
  BY DEF isSecurityCheckPassed, isSystemCommand, isSynchronized, StatusCode, SystemCommand
<1>5. FaultSafe(n)
  BY <1>3, <1>4 DEF FaultSafe
<1> HIDE DEF n
<1>6. Good(n)
  BY <1>2, <1>3, <1>5 DEF Good, Weak, AwaitingFrame, isAwaitingAck
<1> QED BY <1>6 DEF n

\* Every handler of the dispatch table preserves the invariant where the security check
\* lets its command through.
LEMMA RunHandlerGood ==
    ASSUME NEW m, Good(m), NEW f \in Frame, f.cmd \in Dispatched,
           isSecurityCheckPassed(m, f.cmd)
    PROVE  Good(runHandler(m, f))
<1>1. m \in McuState /\ f.seq \in Sequence
  BY DEF Good, Weak, Frame
<1>2. CASE f.cmd \notin NoPayload /\ ~f.decodes
  <2>1. Good(emitStatus(m, "STATUS_MALFORMED", 0))
    BY EmitStatusGood, Names
  <2>2. runHandler(m, f) = emitStatus(m, "STATUS_MALFORMED", 0)
    BY <1>2 DEF runHandler, NoPayload
  <2> QED BY <2>1, <2>2
<1>3. CASE f.cmd = "STATUS_ACK" /\ f.decodes
  <2>1. runHandler(m, f) = handleAck(m, f.ack)
    BY <1>3 DEF runHandler, NoPayload
  <2> QED BY <2>1, HandleAckGood
<1>4. CASE f.cmd = "CMD_LINK_SYNC" /\ f.decodes
  <2>1. runHandler(m, f) = handleLinkSync(m, f)
    BY <1>4 DEF runHandler, NoPayload
  <2> QED BY <2>1, HandleLinkSyncGood
<1>5. CASE f.cmd = "CMD_LINK_RESET"
  <2>1. runHandler(m, f) = handleLinkReset(m, f)
    BY <1>5 DEF runHandler, NoPayload
  <2> QED BY <2>1, HandleLinkResetGood
<1>6. CASE f.cmd = "CMD_GET_CAPABILITIES"
  <2>1. runHandler(m, f) = sendSinglePass(m, Plain("CMD_GET_CAPABILITIES_RESP", f.seq))
    BY <1>6 DEF runHandler, NoPayload
  <2>2. Plain("CMD_GET_CAPABILITIES_RESP", f.seq) \in Frame
    BY <1>1, Names, PlainType
  <2> QED BY <1>1, <2>1, <2>2, SinglePassSame, SameGood
<1>7. CASE f.cmd = "CMD_XOFF"
  <2>1. runHandler(m, f) = [m EXCEPT !.txEnabled = FALSE]
    BY <1>7 DEF runHandler, NoPayload
  <2> QED BY <1>1, <2>1, SetTxEnabled, SameGood
<1>8. CASE f.cmd = "CMD_XON"
  <2>1. runHandler(m, f) = [m EXCEPT !.txEnabled = TRUE]
    BY <1>8 DEF runHandler, NoPayload
  <2> QED BY <1>1, <2>1, SetTxEnabled, SameGood
<1>9. CASE f.cmd = "CMD_DIGITAL_WRITE" /\ f.decodes
  <2>1. runHandler(m, f) = [m EXCEPT !.driven = TRUE]
    BY <1>9 DEF runHandler, NoPayload
  <2> QED BY <1>9, <2>1, DigitalWriteGood
<1>10. CASE f.cmd = "CMD_DIGITAL_READ" /\ f.decodes
  <2>1. runHandler(m, f) = handleDigitalRead(m, f)
    BY <1>10 DEF runHandler, NoPayload
  <2> QED BY <2>1, HandleDigitalReadGood
<1>11. CASE f.cmd = "CMD_MAILBOX_READ_RESP" /\ f.decodes
  <2>1. runHandler(m, f) = m
    BY <1>11 DEF runHandler, NoPayload
  <2> QED BY <2>1
<1> QED BY <1>2, <1>3, <1>4, <1>5, <1>6, <1>7, <1>8, <1>9, <1>10, <1>11
        DEF Dispatched, NoPayload

\* _dispatchCmd, with acknowledgement and duplicate check, preserves the invariant.
LEMMA DispatchCmdGood ==
    ASSUME NEW m, Good(m), NEW f \in Frame, f.cmd \in Dispatched,
           isSecurityCheckPassed(m, f.cmd), NEW duplicate \in BOOLEAN
    PROVE  Good(dispatchCmd(m, f, duplicate))
<1> DEFINE a == IF f.cmd \in Query \cup ResponseOnly THEN m ELSE processAck(m, f.cmd, f.seq)
<1>1. m \in McuState /\ f.seq \in Sequence /\ f.cmd \in Command
  BY DEF Good, Weak, Frame
<1>2. /\ processAck(m, f.cmd, f.seq) \in McuState
      /\ SameLink(m, processAck(m, f.cmd, f.seq))
  BY <1>1, ProcessAckSame
<1>3. Good(a)
  BY <1>2, SameGood
<1>4. isSecurityCheckPassed(a, f.cmd)
  BY <1>2 DEF SameLink, isSecurityCheckPassed, isSynchronized
<1> HIDE DEF a
<1>5. Good(runHandler(a, f)) /\ Good(retransmitLastFrame(a))
  BY <1>3, <1>4, RunHandlerGood, RetransmitGood
<1>6. dispatchCmd(m, f, duplicate) \in {runHandler(a, f), retransmitLastFrame(a), a}
  BY DEF dispatchCmd, a
<1> QED BY <1>3, <1>5, <1>6

\* The history keeps its type whether or not the oldest id is dropped.
LEMMA PushHistoryType ==
    ASSUME NEW h \in Seq(Sequence), NEW s \in Sequence
    PROVE  pushHistory(h, s) \in Seq(Sequence)
<1>1. CASE Len(h) >= RxHistorySize
  <2>1. h # << >>
    BY <1>1, McuConstants
  <2>2. Tail(h) \in Seq(Sequence)
    BY <2>1
  <2> QED BY <1>1, <2>2 DEF pushHistory
<1>2. CASE ~(Len(h) >= RxHistorySize)
  BY <1>2 DEF pushHistory
<1> QED BY <1>1, <1>2

\* _dispatchCommand preserves the invariant: outside a session it refuses the commands
\* that drive pins.
LEMMA DispatchCommandGood ==
    ASSUME NEW m, Good(m), NEW f \in Frame
    PROVE  Good(dispatchCommand(m, f))
<1> DEFINE duplicate == isDuplicate(m, f.seq)
           p == pushHistory(m.history, f.seq)
           h == IF duplicate THEN m ELSE [m EXCEPT !.history = p]
<1>1. m \in McuState /\ m.history \in Seq(Sequence) /\ f.seq \in Sequence /\ f.cmd \in Command
  BY DEF Good, Weak, McuState, Frame
<1>2. p \in Seq(Sequence)
  BY <1>1, PushHistoryType
<1> HIDE DEF p
<1>3. [m EXCEPT !.history = p] \in McuState /\ SameLink(m, [m EXCEPT !.history = p])
  BY <1>1, <1>2 DEF McuState, SameLink
<1>4. Good(h)
  BY <1>3, SameGood
<1>5. duplicate \in BOOLEAN
  BY DEF isDuplicate
<1> HIDE DEF duplicate, h
<1>6. CASE ~isSecurityCheckPassed(h, f.cmd)
  <2>1. dispatchCommand(m, f) = emitStatus(h, "STATUS_ERROR", f.seq)
    BY <1>6 DEF dispatchCommand, h, duplicate, p
  <2> QED BY <1>1, <1>4, <2>1, EmitStatusGood, Names
<1>7. CASE isSecurityCheckPassed(h, f.cmd)
  <2>1. Good(processAck(h, "STATUS_OK", f.seq))
    BY <1>1, <1>4, ProcessAckSame, SameGood, Names DEF Good, Weak
  <2>2. Good(enterSafeState(h))
    BY <1>4, EnterSafeStateGood DEF Good
  <2>3. Good(emitStatus(h, "STATUS_ERROR", 0))
    BY <1>4, EmitStatusGood, Names
  <2>4. f.cmd \in Dispatched => Good(dispatchCmd(h, f, duplicate))
    BY <1>4, <1>5, <1>7, DispatchCmdGood
  <2>5. CASE f.cmd = "STATUS_OK"
    <3>1. f.cmd # "STATUS_MALFORMED" /\ f.cmd \notin Dispatched
      BY <2>5 DEF Dispatched
    <3>2. dispatchCommand(m, f) = processAck(h, "STATUS_OK", f.seq)
      BY <1>7, <2>5, <3>1 DEF dispatchCommand, h, duplicate, p
    <3> QED BY <2>1, <3>2
  <2>6. CASE f.cmd = "STATUS_MALFORMED"
    <3>1. f.cmd # "STATUS_OK" /\ f.cmd \notin Dispatched
      BY <2>6 DEF Dispatched
    <3>2. dispatchCommand(m, f) = enterSafeState(h)
      BY <1>7, <2>6, <3>1 DEF dispatchCommand, h, duplicate, p
    <3> QED BY <2>2, <3>2
  <2>7. CASE f.cmd \in Dispatched
    <3>1. f.cmd # "STATUS_OK" /\ f.cmd # "STATUS_MALFORMED"
      BY <2>7 DEF Dispatched
    <3>2. dispatchCommand(m, f) = dispatchCmd(h, f, duplicate)
      BY <1>7, <2>7, <3>1 DEF dispatchCommand, h, duplicate, p
    <3> QED BY <2>4, <2>7, <3>2
  <2>8. CASE f.cmd \notin Dispatched \cup {"STATUS_OK", "STATUS_MALFORMED"}
    <3>1. dispatchCommand(m, f) = emitStatus(h, "STATUS_ERROR", 0)
      BY <1>7, <2>8 DEF dispatchCommand, h, duplicate, p
    <3> QED BY <2>3, <3>1
  <2> QED BY <2>5, <2>6, <2>7, <2>8
<1> QED BY <1>6, <1>7

\* _handleReceivedFrame preserves the invariant for every frame.
LEMMA HandleReceivedFrameGood ==
    ASSUME NEW m, Good(m), NEW f \in Frame
    PROVE  Good(handleReceivedFrame(m, f))
<1> DEFINE c == f.ctr
           n == [m EXCEPT !.rxCtr = c]
<1>1. m \in McuState /\ c \in 0 .. CounterRange - 1
  BY DEF Good, Weak, Frame
<1> HIDE DEF c
<1>2. n \in McuState /\ SameLink(m, n)
  BY <1>1 DEF McuState, SameLink
<1>3. Good(n)
  BY <1>2, SameGood
<1> HIDE DEF n
<1>4. Good(dispatchCommand(n, f)) /\ Good(dispatchCommand(m, f))
  BY <1>3, DispatchCommandGood
<1>5. Good(emitStatus(m, "STATUS_ERROR", 0))
  BY EmitStatusGood, Names
<1>6. handleReceivedFrame(m, f) \in {dispatchCommand(n, f), dispatchCommand(m, f),
                                     emitStatus(m, "STATUS_ERROR", 0)}
  BY DEF handleReceivedFrame, n, c
<1> QED BY <1>4, <1>5, <1>6
----------------------------------------------------------------------------
(* The loop. *)

\* Emptying the UART preserves the invariant.
LEMMA SentGood ==
    ASSUME NEW m, Good(m)
    PROVE  Good(Sent(m))
<1>1. m \in McuState /\ << >> \in Seq(Frame)
  BY DEF Good, Weak
<1>2. Sent(m) \in McuState /\ SameLink(m, Sent(m))
  BY <1>1 DEF Sent, McuState, SameLink
<1> QED BY <1>2, SameGood

\* begin() establishes the invariant.
LEMMA BootedGood ==
    ASSUME NEW s \in BOOLEAN, NEW p \in BOOLEAN
    PROVE  Good(Booted(s, p))
<1> DEFINE b == Booted(s, p)
<1>1. /\ << >> \in Seq(PendingTxFrame) /\ << >> \in Seq(Sequence) /\ << >> \in Seq(Frame)
      /\ 0 \in 0 .. CounterRange - 1 /\ MaxPendingTx \in 0 .. MaxPendingTx
      /\ DefaultRetryLimit \in 0 .. 255 /\ 0 \in 0 .. 255
      /\ "UNSYNCHRONIZED" \in Fsm /\ "STATUS_OK" \in Command
  BY McuConstants DEF Fsm, Command, StatusCode
<1>2. b \in McuState
  BY <1>1 DEF Booted, McuState
<1>3. b.fsm = "UNSYNCHRONIZED" /\ b.queue = << >> /\ b.free = MaxPendingTx
  BY DEF Booted
<1>4. b.free + Len(b.queue) = MaxPendingTx
  BY <1>3, McuConstants
<1> HIDE DEF b
<1>5. Good(b)
  BY <1>2, <1>3, <1>4 DEF Good, Weak, FaultSafe, AwaitingFrame, isAwaitingAck
<1> QED BY <1>5 DEF b

\* Whatever arrives is a frame.
LEMMA HostFrameType == HostFrame \subseteq Frame
<1>1. BareFrame \subseteq Frame
  BY PlainType DEF BareFrame, Command, StatusCode, SystemCommand
<1>2. AckFrame \subseteq Frame
  <2> DEFINE g(a, s, d) == [Plain("STATUS_ACK", s) EXCEPT !.ack = a, !.decodes = d]
  <2>1. ASSUME NEW a \in Reliable, NEW s \in Sequence, NEW d \in BOOLEAN
        PROVE  g(a, s, d) \in Frame
    <3>1. Plain("STATUS_ACK", s) \in Frame /\ a \in Command
      BY PlainType DEF Command, StatusCode
    <3> QED BY <3>1 DEF Frame
  <2>2. AckFrame = {g(a, s, d) : a \in Reliable, s \in Sequence, d \in BOOLEAN}
    BY DEF AckFrame
  <2> HIDE DEF g
  <2> QED BY <2>1, <2>2
<1>3. SyncFrame \subseteq Frame
  <2> DEFINE g(n, s, v) == [Plain("CMD_LINK_SYNC", s) EXCEPT !.nonce = n, !.valid = v]
  <2>1. ASSUME NEW n \in Nonce, NEW s \in Sequence, NEW v \in BOOLEAN
        PROVE  g(n, s, v) \in Frame
    <3>1. Plain("CMD_LINK_SYNC", s) \in Frame
      BY PlainType DEF Command, SystemCommand
    <3> QED BY <3>1 DEF Frame
  <2>2. SyncFrame = {g(n, s, v) : n \in Nonce, s \in Sequence, v \in BOOLEAN}
    BY DEF SyncFrame
  <2> HIDE DEF g
  <2> QED BY <2>1, <2>2
<1>4. ResetFrame \subseteq Frame
  <2> DEFINE g(l, s, d) == [Plain("CMD_LINK_RESET", s) EXCEPT !.limit = l, !.decodes = d]
  <2>1. ASSUME NEW l \in RetryLimit, NEW s \in Sequence, NEW d \in BOOLEAN
        PROVE  g(l, s, d) \in Frame
    <3>1. Plain("CMD_LINK_RESET", s) \in Frame
      BY PlainType DEF Command, SystemCommand
    <3> QED BY <3>1 DEF Frame
  <2>2. ResetFrame = {g(l, s, d) : l \in RetryLimit, s \in Sequence, d \in BOOLEAN}
    BY DEF ResetFrame
  <2> HIDE DEF g
  <2> QED BY <2>1, <2>2
<1>5. AppFrame \subseteq Frame
  <2> DEFINE g(c, s, v, d, k, n) == 
      [Plain(c, s) EXCEPT !.valid = v, !.decodes = d, !.key = k, !.ctr = n]
  <2>1. ASSUME NEW c \in AppCommand, NEW s \in Sequence, NEW v \in BOOLEAN,
               NEW d \in BOOLEAN, NEW k \in Nonce \cup {NoNonce}, NEW n \in 0 .. CounterRange - 1
        PROVE  g(c, s, v, d, k, n) \in Frame
    <3>1. Plain(c, s) \in Frame
      BY PlainType DEF Command
    <3> QED BY <3>1 DEF Frame
  <2>2. AppFrame = {g(c, s, v, d, k, n) :
                    c \in AppCommand, s \in Sequence, v \in BOOLEAN, d \in BOOLEAN,
                    k \in Nonce \cup {NoNonce}, n \in 0 .. CounterRange - 1}
    BY DEF AppFrame
  <2> HIDE DEF g
  <2> QED BY <2>1, <2>2
<1> QED BY <1>1, <1>2, <1>3, <1>4, <1>5 DEF HostFrame

\* What the firmware sends of its own accord are commands.
LEMMA FirmwareSendsType == FirmwareSends \subseteq Command
  BY DEF FirmwareSends, Command, AppCommand

\* Every step of the firmware preserves the invariant.
LEMMA NextGood ==
    ASSUME Good(mcu), [Next]_mcu
    PROVE  Good(mcu')
<1>1. CASE UNCHANGED mcu
  BY <1>1
<1>2. CASE Reboot
  <2>1. PICK p \in PostOutcome : mcu' = Booted(mcu.secret, p)
    BY <1>2 DEF Reboot
  <2>2. p \in BOOLEAN /\ mcu.secret \in BOOLEAN
    BY McuConstants DEF Good, Weak, McuState
  <2> QED BY <2>1, <2>2, BootedGood
<1>3. CASE Receive
  BY <1>3, HostFrameType, HandleReceivedFrameGood, SentGood DEF Receive
<1>4. CASE ReceiveCorrupt
  BY <1>4, EmitStatusGood, SentGood, Names DEF ReceiveCorrupt
<1>5. CASE ServiceSend
  BY <1>5, SendGood, SentGood, FirmwareSendsType, Names DEF ServiceSend
<1>6. CASE SketchSendFrame
  BY <1>6, SendFrameGood, SentGood, FirmwareSendsType, Names DEF SketchSendFrame
<1>7. CASE AckTimeout
  BY <1>7, OnAckTimeoutGood, SentGood DEF AckTimeout
<1>8. CASE HandshakeTimeout
  BY <1>8, OnHandshakeTimeoutGood, SentGood DEF HandshakeTimeout
<1>9. CASE SerialTask
  <2> DEFINE c == IF mcu.xoffSent THEN "CMD_XON" ELSE "CMD_XOFF"
             a == Sent(sendFrame(mcu, c, 0, NoData))
             x == ~mcu.xoffSent
  <2>1. c \in Command
    BY DEF Command, SystemCommand
  <2>2. Good(a)
    BY <2>1, SendFrameGood, SentGood, NoDataType, Names
  <2>3. mcu' = [a EXCEPT !.xoffSent = x]
    BY <1>9 DEF SerialTask
  <2>4. x \in BOOLEAN /\ a \in McuState
    BY <2>2 DEF Good, Weak, McuState
  <2> HIDE DEF a, x
  <2>5. [a EXCEPT !.xoffSent = x] \in McuState /\ SameLink(a, [a EXCEPT !.xoffSent = x])
    BY <2>4 DEF McuState, SameLink
  <2>6. mcu' \in McuState /\ SameLink(a, mcu')
    BY <2>3, <2>5
  <2> QED BY <2>2, <2>6, SameGood
<1> QED BY <1>1, <1>2, <1>3, <1>4, <1>5, <1>6, <1>7, <1>8, <1>9 DEF Next

\* The invariant holds in every reachable state.
THEOREM Invariant == Spec => []Good(mcu)
<1>1. Init => Good(mcu)
  BY BootedGood, McuConstants DEF Init
<1>2. Good(mcu) /\ [Next]_mcu => Good(mcu)'
  BY NextGood
<1> QED BY <1>1, <1>2, PTL DEF Spec

\* The firmware's members keep their types and the queue its capacity.
THEOREM TypeCorrect == Spec => []TypeOK
<1>1. Good(mcu) => TypeOK
  BY McuConstants, QueueType DEF Good, Weak, TypeOK, McuState
<1> QED BY <1>1, Invariant, PTL

\* An awaited ACK always belongs to the frame at the head of the queue, which a
\* running timer will retransmit, for every queue size and retry limit.
THEOREM AwaitingFrameHolds == Spec => []AwaitingFrameInv
<1>1. Good(mcu) => AwaitingFrameInv
  BY DEF Good, AwaitingFrameInv
<1> QED BY <1>1, Invariant, PTL

\* The payload pool never leaks a buffer and never releases one twice.
THEOREM PoolBalanced == Spec => []PoolBalance
<1>1. Good(mcu) => PoolBalance
  BY DEF Good, Weak, PoolBalance
<1> QED BY <1>1, Invariant, PTL

\* An authenticated firmware in FAULT has its pins in the safe state.
THEOREM FaultSafety == Spec => []FaultIsSafe
<1>1. Good(mcu) => FaultIsSafe
  BY DEF Good, Weak, FaultSafe, FaultIsSafe
<1> QED BY <1>1, Invariant, PTL
----------------------------------------------------------------------------
(* The awaited frame.  Kept relates the states before and after an operator: *)
(* an ACK awaited in both is awaited for the same frame.                     *)

\* What AwaitedFrameKept says of one step.
Kept(m, n) ==
    isAwaitingAck(m) /\ isAwaitingAck(n)
        => /\ Head(n.queue) = Head(m.queue)
           /\ n.last = m.last
           /\ n.retry >= m.retry

\* What changes nothing of the link keeps the awaited frame, before or after what keeps it.
LEMMA SameKept ==
    ASSUME NEW m \in McuState, NEW a, NEW n
    PROVE  /\ SameLink(m, n) => Kept(m, n)
           /\ SameLink(m, a) /\ Kept(a, n) => Kept(m, n)
           /\ Kept(m, a) /\ SameLink(a, n) => Kept(m, n)
<1>1. m.retry \in 0 .. 255
  BY DEF McuState
<1> QED BY <1>1 DEF SameLink, Kept, isAwaitingAck

\* The four events that end a wait leave the queue as it is.
LEMMA FsmEnds ==
    ASSUME NEW m, Weak(m),
           NEW ev \in {"EvReset", "EvHandshakeFailed", "EvTimeout", "EvAckReceived"}
    PROVE  LET n == fsmReceive(m, ev)
           IN  Weak(n) /\ n.fsm # "AWAITING_ACK" /\ n.queue = m.queue
<1>1. ev \in Event /\ m.fsm \in Fsm
  BY DEF Event, Weak, McuState
<1> QED BY <1>1, FsmReceiveFields, FsmStep

\* _retransmitLastFrame leaves the awaited frame where it is.
LEMMA RetransmitKept ==
    ASSUME NEW m, Good(m)
    PROVE  LET n == retransmitLastFrame(m)
           IN  n.fsm = m.fsm /\ n.queue = m.queue /\ n.last = m.last /\ n.retry = m.retry
<1>1. CASE m.queue = << >>
  BY <1>1 DEF retransmitLastFrame
<1>2. CASE m.queue # << >>
  <2> DEFINE f == Head(m.queue)
             x == transmit(m, f.cmd, f.seq, f.data)
             n == [x EXCEPT !.ackTimer = TRUE]
  <2>1. f \in PendingTxFrame /\ f.cmd \in Command /\ m \in McuState
    BY <1>2, QueueType DEF Good, Weak, PendingTxFrame, Command
  <2>2. x \in McuState /\ SameLink(m, x)
    BY <2>1, TransmitSame DEF PendingTxFrame
  <2>3. n.fsm = x.fsm /\ n.queue = x.queue /\ n.last = x.last /\ n.retry = x.retry
    BY <2>2 DEF McuState
  <2>4. retransmitLastFrame(m) = n
    BY <1>2 DEF retransmitLastFrame
  <2> HIDE DEF n
  <2> QED BY <2>2, <2>3, <2>4 DEF SameLink
<1> QED BY <1>1, <1>2

\* A frame queued while an ACK is awaited goes behind the awaited one and is not flushed.
LEMMA EnqueueKept ==
    ASSUME NEW m, Good(m), NEW c \in Reliable, NEW s \in Sequence, NEW d \in Payload
    PROVE  Kept(m, enqueue(m, c, s, d))
<1> DEFINE e == [cmd |-> c, seq |-> s, data |-> d]
           q == [m EXCEPT !.queue = Append(m.queue, e), !.free  = m.free - 1]
<1> SUFFICES ASSUME isAwaitingAck(m)
             PROVE  Kept(m, enqueue(m, c, s, d))
  BY DEF Kept
<1>1. m \in McuState /\ e \in PendingTxFrame /\ m.queue # << >>
  BY DEF Good, Weak, PendingTxFrame, AwaitingFrame
<1>2. m.queue \in Seq(PendingTxFrame) /\ m.retry \in 0 .. 255
  BY <1>1 DEF McuState
<1> HIDE DEF e
<1>3. Head(Append(m.queue, e)) = Head(m.queue)
  BY <1>1, <1>2, AppendProperties
<1>4. q.queue = Append(m.queue, e) /\ q.last = m.last /\ q.retry = m.retry
  BY <1>1 DEF McuState
<1>5. enqueue(m, c, s, d) = q
  BY DEF enqueue, e
<1> HIDE DEF q
<1>6. Kept(m, q)
  <2>1. Head(q.queue) = Head(m.queue) /\ q.retry = m.retry
    BY <1>3, <1>4, Zenon
  <2>2. q.retry >= m.retry
    <3>1. m.retry \in 0 .. 255
      BY <1>2
    <3> QED BY <2>1, <3>1
  <2> QED BY <1>4, <2>1, <2>2 DEF Kept
<1> QED BY <1>5, <1>6

\* sendFrame keeps the awaited frame.
LEMMA SendFrameKept ==
    ASSUME NEW m, Good(m), NEW c \in Command, NEW s \in Sequence, NEW d \in Payload
    PROVE  Kept(m, sendFrame(m, c, s, d))
<1>1. m \in McuState /\ SameLink(m, m)
  BY DEF Good, Weak, SameLink
<1>2. CASE ~sendFrameOk(m, c)
  BY <1>1, <1>2, SameKept DEF sendFrame
<1>3. CASE sendFrameOk(m, c) /\ c \in Reliable
  <2>1. sendFrame(m, c, s, d) = enqueue(m, c, s, d)
    BY <1>3 DEF sendFrame
  <2> QED BY <1>3, <2>1, EnqueueKept
<1>4. CASE sendFrameOk(m, c) /\ c \notin Reliable
  <2>1. sendFrame(m, c, s, d) = transmit(m, c, s, d)
    BY <1>4 DEF sendFrame
  <2> QED BY <1>1, <2>1, TransmitSame, SameKept
<1> QED BY <1>2, <1>3, <1>4

\* send keeps the awaited frame.
LEMMA SendKept ==
    ASSUME NEW m, Good(m), NEW c \in Command, NEW s \in Sequence, NEW d \in Payload
    PROVE  Kept(m, send(m, c, s, d))
<1>1. m \in McuState /\ SameLink(m, m)
  BY DEF Good, Weak, SameLink
<1>2. CASE ~sendOk(m, c)
  BY <1>1, <1>2, SameKept DEF send
<1>3. CASE sendOk(m, c) /\ sendEncrypted(m, c) /\ c \in Reliable
  <2>1. send(m, c, s, d) = enqueue(m, c, s, d)
    BY <1>3 DEF send
  <2> QED BY <1>3, <2>1, EnqueueKept
<1>4. CASE sendOk(m, c) /\ sendEncrypted(m, c) /\ c \notin Reliable
  <2>1. send(m, c, s, d) = transmit(m, c, s, d)
    BY <1>4 DEF send
  <2> QED BY <1>1, <2>1, TransmitSame, SameKept
<1>5. CASE sendOk(m, c) /\ ~sendEncrypted(m, c)
  <2> DEFINE f == [Plain(c, s) EXCEPT !.data = d]
  <2>1. f \in Frame
    BY PlainType DEF Frame
  <2>2. send(m, c, s, d) = sendSinglePass(m, f)
    BY <1>5 DEF send
  <2> HIDE DEF f
  <2> QED BY <1>1, <2>1, <2>2, SinglePassSame, SameKept
<1> QED BY <1>2, <1>3, <1>4, <1>5

\* _onAckTimeout counts one retry more or ends the wait: the 8-bit counter does not wrap,
\* because a wait whose counter is not zero is below the limit.
LEMMA OnAckTimeoutKept ==
    ASSUME NEW m, Good(m)
    PROVE  Kept(m, onAckTimeout(m))
<1> DEFINE k == (m.retry + 1) % 256
           r == [m EXCEPT !.retry = k]
           a == [r EXCEPT !.ackTimer = FALSE]
           b == fsmReceive(a, "EvTimeout")
           c == [b EXCEPT !.txEnabled = FALSE]
<1> SUFFICES ASSUME isAwaitingAck(m)
             PROVE  Kept(m, onAckTimeout(m))
  BY DEF Kept
<1>1. m \in McuState /\ m.retry \in 0 .. 255 /\ m.limit \in 0 .. 255
  BY DEF Good, Weak, McuState
<1>2. k \in 0 .. 255 /\ k >= m.retry
  <2>1. m.retry = 0 \/ m.retry < m.limit
    BY DEF Good, AwaitingFrame
  <2>2. m.retry < 255
    BY <1>1, <2>1
  <2> QED BY <1>1, <2>2
<1> HIDE DEF k
<1>3. r \in McuState
  BY <1>1, <1>2 DEF McuState
<1>4. /\ r.retry = k /\ r.fsm = m.fsm /\ r.queue = m.queue /\ r.free = m.free
      /\ r.last = m.last /\ r.limit = m.limit /\ r.ackTimer = m.ackTimer
      /\ r.secret = m.secret /\ r.driven = m.driven
  BY <1>1 DEF McuState
<1>5. Weak(r)
  BY <1>3, <1>4 DEF Good, Weak, FaultSafe
<1> HIDE DEF r
<1>6. CASE r.retry >= m.limit
  <2>1. a \in McuState
    BY <1>3 DEF McuState
  <2>2. /\ a.fsm = r.fsm /\ a.queue = r.queue /\ a.free = r.free
        /\ a.secret = r.secret /\ a.driven = r.driven
    BY <1>3 DEF McuState
  <2>3. Weak(a)
    BY <1>5, <2>1, <2>2 DEF Weak, FaultSafe
  <2>4. Weak(b) /\ b.fsm # "AWAITING_ACK"
    BY <2>3, FsmEnds
  <2> HIDE DEF a, b
  <2>5. c \in McuState /\ SameLink(b, c)
    BY <2>4, SetTxEnabled DEF Weak
  <2>6. Weak(c) /\ c.fsm # "AWAITING_ACK"
    BY <2>4, <2>5, SameGood DEF SameLink
  <2> HIDE DEF c
  <2>7. ~isAwaitingAck(clearPendingTxQueue(c))
    BY <2>6, ClearWeak DEF isAwaitingAck
  <2>8. onAckTimeout(m) = clearPendingTxQueue(c)
    BY <1>6 DEF onAckTimeout, a, b, c, k, r
  <2> QED BY <2>7, <2>8 DEF Kept
<1>7. CASE ~(r.retry >= m.limit)
  <2>1. r.retry < m.limit
    BY <1>1, <1>2, <1>4, <1>7
  <2>2. Good(r)
    BY <1>4, <1>5, <2>1 DEF Good, AwaitingFrame, isAwaitingAck
  <2>3. onAckTimeout(m) = retransmitLastFrame(r)
    BY <1>7 DEF onAckTimeout, r, k
  <2> QED BY <1>2, <1>4, <2>2, <2>3, RetransmitKept DEF Kept
<1> QED BY <1>6, <1>7

\* _onHandshakeTimeout does not touch a link that awaits an ACK.
LEMMA OnHandshakeTimeoutKept ==
    ASSUME NEW m, Good(m)
    PROVE  Kept(m, onHandshakeTimeout(m))
<1>1. m \in McuState
  BY DEF Good, Weak
<1>2. [m EXCEPT !.hsTimer = FALSE] \in McuState /\ SameLink(m, [m EXCEPT !.hsTimer = FALSE])
  BY <1>1, SetHsTimer
<1>3. isAwaitingAck(m) => onHandshakeTimeout(m) = [m EXCEPT !.hsTimer = FALSE]
  BY DEF onHandshakeTimeout, isAwaitingAck, isSynchronized
<1> QED BY <1>1, <1>2, <1>3, SameKept DEF Kept

\* The safe state ends the wait.
LEMMA EnterSafeStateKept ==
    ASSUME NEW m, Good(m)
    PROVE  Kept(m, enterSafeState(m))
<1> DEFINE a == [m EXCEPT !.driven = FALSE, !.txEnabled = FALSE]
<1>1. m \in McuState
  BY DEF Good, Weak
<1>2. a \in McuState
  BY <1>1, SetSafe
<1>3. a.queue = m.queue /\ a.free = m.free /\ a.driven = FALSE
  BY <1>1 DEF McuState
<1>4. Weak(a)
  BY <1>2, <1>3 DEF Good, Weak, FaultSafe
<1>5. Weak(clearPendingTxQueue(a))
  BY <1>4, ClearWeak
<1> HIDE DEF a
<1>6. ~isAwaitingAck(fsmReceive(clearPendingTxQueue(a), "EvReset"))
  BY <1>5, FsmEnds DEF isAwaitingAck
<1> QED BY <1>6 DEF enterSafeState, Kept, a

\* The ACK awaited ends the wait, every other leaves it.
LEMMA HandleAckKept ==
    ASSUME NEW m, Good(m), NEW c
    PROVE  Kept(m, handleAck(m, c))
<1> DEFINE a == [m EXCEPT !.ackTimer = FALSE]
           b == fsmReceive(clearPendingTxQueue(a), "EvAckReceived")
<1>1. m \in McuState /\ SameLink(m, m)
  BY DEF Good, Weak, SameLink
<1>2. a \in McuState
  BY <1>1 DEF McuState
<1>3. /\ a.fsm = m.fsm /\ a.queue = m.queue /\ a.free = m.free
      /\ a.secret = m.secret /\ a.driven = m.driven
  BY <1>1 DEF McuState
<1>4. Weak(a)
  BY <1>2, <1>3 DEF Good, Weak, FaultSafe
<1> HIDE DEF a
<1>5. Weak(clearPendingTxQueue(a)) /\ clearPendingTxQueue(a).queue = << >>
  BY <1>4, ClearWeak
<1>6. ~isAwaitingAck(b) /\ b.queue = << >>
  BY <1>5, FsmEnds DEF isAwaitingAck
<1> HIDE DEF b
<1>7. flushPendingTxQueue(b) = b
  BY <1>6 DEF flushPendingTxQueue
<1>8. handleAck(m, c) = m \/ handleAck(m, c) = flushPendingTxQueue(b)
  BY DEF handleAck, a, b
<1> QED BY <1>1, <1>6, <1>7, <1>8, SameKept DEF Kept

\* A link reset ends the wait, although the frame stays in the queue.
LEMMA HandleLinkResetKept ==
    ASSUME NEW m, Good(m), NEW f \in Frame
    PROVE  Kept(m, handleLinkReset(m, f))
<1> DEFINE l == f.limit % 256
           t == IF f.decodes THEN [m EXCEPT !.limit = l] ELSE m
           r == fsmReceive(t, "EvReset")
           h == [r EXCEPT !.hsTimer = TRUE]
<1>1. m \in McuState /\ f.seq \in Sequence /\ f.limit \in Nat
  <2>1. f.seq \in Sequence /\ f.limit \in RetryLimit \cup {DefaultRetryLimit}
    BY DEF Frame
  <2>2. RetryLimit \cup {DefaultRetryLimit} \subseteq Nat
    BY McuConstants
  <2> QED BY <2>1, <2>2 DEF Good, Weak
<1>2. l \in 0 .. 255
  BY <1>1
<1> HIDE DEF l
<1>3. [m EXCEPT !.limit = l] \in McuState
  BY <1>1, <1>2 DEF McuState
<1>4. LET n == [m EXCEPT !.limit = l] IN
      /\ n.fsm = m.fsm /\ n.queue = m.queue /\ n.free = m.free
      /\ n.secret = m.secret /\ n.driven = m.driven
  BY <1>1 DEF McuState
<1>5. Weak(t)
  BY <1>3, <1>4 DEF Good, Weak, FaultSafe
<1> HIDE DEF t
<1>6. Weak(r) /\ r.fsm # "AWAITING_ACK"
  BY <1>5, FsmEnds
<1> HIDE DEF r
<1>7. h \in McuState /\ SameLink(r, h)
  BY <1>6, SetHsTimer DEF Weak
<1>8. h.fsm # "AWAITING_ACK"
  BY <1>6, <1>7 DEF SameLink
<1> HIDE DEF h
<1>9. "CMD_LINK_RESET_RESP" \in Command
  BY DEF Command, SystemCommand
<1>10. ~isAwaitingAck(transmit(h, "CMD_LINK_RESET_RESP", f.seq, NoData))
  BY <1>1, <1>7, <1>8, <1>9, NoDataType, TransmitSame DEF SameLink, isAwaitingAck
<1> QED BY <1>10 DEF handleLinkReset, Kept, h, r, t, l

\* A handshake that is rejected ends the wait; one that is accepted gives the session a
\* new key and leaves the wait as it is.
LEMMA HandleLinkSyncKept ==
    ASSUME NEW m, Good(m), NEW f \in Frame
    PROVE  Kept(m, handleLinkSync(m, f))
<1>1. m \in McuState /\ f.seq \in Sequence /\ f.nonce \in Nonce \cup {NoNonce} /\ Weak(m)
  BY DEF Good, Weak, Frame
<1>2. CASE m.secret /\ ~f.valid
  <2> DEFINE r == fsmReceive(m, "EvHandshakeFailed")
  <2>1. Weak(r) /\ r.fsm # "AWAITING_ACK"
    BY <1>1, FsmEnds
  <2> HIDE DEF r
  <2>2. ~isAwaitingAck(emitStatus(r, "STATUS_ERROR", 0))
    BY <2>1, EmitStatusSame, Names DEF Weak, SameLink, isAwaitingAck
  <2>3. handleLinkSync(m, f) = emitStatus(r, "STATUS_ERROR", 0)
    BY <1>2 DEF handleLinkSync, r
  <2> QED BY <2>2, <2>3 DEF Kept
<1>3. CASE ~(m.secret /\ ~f.valid)
  <2> DEFINE n == [m EXCEPT !.key = f.nonce, !.txCtr = 0, !.rxCtr = 0]
             k == IF m.secret THEN n ELSE m
             i == fsmReceive(k, "EvHandshakeStart")
             s == fsmReceive(i, "EvHandshakeComplete")
             h == [s EXCEPT !.hsTimer = FALSE]
             p == [Plain("CMD_LINK_SYNC_RESP", f.seq) EXCEPT !.nonce = f.nonce,
                                                             !.valid = m.secret]
  <2>1. n \in McuState /\ SameLink(m, n)
    BY <1>1, SetSession
  <2>2. Good(k) /\ SameLink(m, k)
    BY <2>1, SameGood DEF SameLink
  <2> HIDE DEF k
  <2>3. Weak(i) /\ i.queue = k.queue /\ i.last = k.last /\ i.retry = k.retry
    BY <2>2, FsmReceiveFields DEF Good, Event
  <2> HIDE DEF i
  <2>4. Weak(s) /\ s.queue = i.queue /\ s.last = i.last /\ s.retry = i.retry
    BY <2>3, FsmReceiveFields DEF Event
  <2> HIDE DEF s
  <2>5. h \in McuState /\ SameLink(s, h)
    BY <2>4, SetHsTimer DEF Weak
  <2>6. Plain("CMD_LINK_SYNC_RESP", f.seq) \in Frame /\ m.secret \in BOOLEAN
    BY <1>1, PlainType DEF Command, SystemCommand, McuState
  <2>7. p \in Frame
    BY <1>1, <2>6 DEF Frame
  <2> HIDE DEF h, p
  <2>8. SameLink(h, sendSinglePass(h, p))
    BY <2>5, <2>7, SinglePassSame
  <2>9. m.retry \in 0 .. 255
    BY <1>1 DEF McuState
  <2>10. Kept(m, sendSinglePass(h, p))
    BY <2>2, <2>3, <2>4, <2>5, <2>8, <2>9 DEF Kept, SameLink
  <2>11. handleLinkSync(m, f) = sendSinglePass(h, p)
    BY <1>3 DEF handleLinkSync, h, p, s, i, k
  <2> QED BY <2>10, <2>11
<1> QED BY <1>2, <1>3

\* emitStatus keeps the awaited frame.
LEMMA EmitStatusKept ==
    ASSUME NEW m, Good(m), NEW c \in StatusCode, NEW s \in Sequence
    PROVE  Kept(m, emitStatus(m, c, s))
  BY EmitStatusSame, SameKept DEF Good, Weak

\* The pin read handlers keep the awaited frame.
LEMMA HandleDigitalReadKept ==
    ASSUME NEW m, Good(m), NEW f \in Frame
    PROVE  Kept(m, handleDigitalRead(m, f))
<1>1. f.seq \in Sequence /\ "CMD_DIGITAL_READ_RESP" \in Command
  BY DEF Frame, Command, AppCommand
<1>2. Kept(m, send(m, "CMD_DIGITAL_READ_RESP", f.seq, NoData))
  BY <1>1, SendKept, NoDataType
<1>3. Kept(m, emitStatus(m, "STATUS_ERROR", 0))
  BY EmitStatusKept, Names
<1> QED BY <1>2, <1>3 DEF handleDigitalRead

\* Every handler of the dispatch table keeps the awaited frame.
LEMMA RunHandlerKept ==
    ASSUME NEW m, Good(m), NEW f \in Frame, f.cmd \in Dispatched
    PROVE  Kept(m, runHandler(m, f))
<1>1. m \in McuState /\ f.seq \in Sequence /\ SameLink(m, m)
  BY DEF Good, Weak, Frame, SameLink
<1>2. CASE f.cmd \notin NoPayload /\ ~f.decodes
  <2>1. runHandler(m, f) = emitStatus(m, "STATUS_MALFORMED", 0)
    BY <1>2 DEF runHandler, NoPayload
  <2> QED BY <2>1, EmitStatusKept, Names
<1>3. CASE f.cmd = "STATUS_ACK" /\ f.decodes
  <2>1. runHandler(m, f) = handleAck(m, f.ack)
    BY <1>3 DEF runHandler, NoPayload
  <2> QED BY <2>1, HandleAckKept
<1>4. CASE f.cmd = "CMD_LINK_SYNC" /\ f.decodes
  <2>1. runHandler(m, f) = handleLinkSync(m, f)
    BY <1>4 DEF runHandler, NoPayload
  <2> QED BY <2>1, HandleLinkSyncKept
<1>5. CASE f.cmd = "CMD_LINK_RESET"
  <2>1. runHandler(m, f) = handleLinkReset(m, f)
    BY <1>5 DEF runHandler, NoPayload
  <2> QED BY <2>1, HandleLinkResetKept
<1>6. CASE f.cmd = "CMD_GET_CAPABILITIES"
  <2>1. runHandler(m, f) = sendSinglePass(m, Plain("CMD_GET_CAPABILITIES_RESP", f.seq))
    BY <1>6 DEF runHandler, NoPayload
  <2>2. Plain("CMD_GET_CAPABILITIES_RESP", f.seq) \in Frame
    BY <1>1, Names, PlainType
  <2> QED BY <1>1, <2>1, <2>2, SinglePassSame, SameKept
<1>7. CASE f.cmd = "CMD_XOFF"
  <2>1. runHandler(m, f) = [m EXCEPT !.txEnabled = FALSE]
    BY <1>7 DEF runHandler, NoPayload
  <2> QED BY <1>1, <2>1, SetTxEnabled, SameKept
<1>8. CASE f.cmd = "CMD_XON"
  <2>1. runHandler(m, f) = [m EXCEPT !.txEnabled = TRUE]
    BY <1>8 DEF runHandler, NoPayload
  <2> QED BY <1>1, <2>1, SetTxEnabled, SameKept
<1>9. CASE f.cmd = "CMD_DIGITAL_WRITE" /\ f.decodes
  <2> DEFINE n == [m EXCEPT !.driven = TRUE]
  <2>1. runHandler(m, f) = n
    BY <1>9 DEF runHandler, NoPayload
  <2>2. n.queue = m.queue /\ n.last = m.last /\ n.retry = m.retry /\ m.retry \in 0 .. 255
    BY <1>1 DEF McuState
  <2> HIDE DEF n
  <2> QED BY <2>1, <2>2 DEF Kept
<1>10. CASE f.cmd = "CMD_DIGITAL_READ" /\ f.decodes
  <2>1. runHandler(m, f) = handleDigitalRead(m, f)
    BY <1>10 DEF runHandler, NoPayload
  <2> QED BY <2>1, HandleDigitalReadKept
<1>11. CASE f.cmd = "CMD_MAILBOX_READ_RESP" /\ f.decodes
  <2>1. runHandler(m, f) = m
    BY <1>11 DEF runHandler, NoPayload
  <2> QED BY <1>1, <2>1, SameKept
<1> QED BY <1>2, <1>3, <1>4, <1>5, <1>6, <1>7, <1>8, <1>9, <1>10, <1>11
        DEF Dispatched, NoPayload

\* A received command, acknowledged or a duplicate, keeps the awaited frame.
LEMMA DispatchCmdKept ==
    ASSUME NEW m, Good(m), NEW f \in Frame, f.cmd \in Dispatched, NEW duplicate \in BOOLEAN
    PROVE  Kept(m, dispatchCmd(m, f, duplicate))
<1> DEFINE a == IF f.cmd \in Query \cup ResponseOnly THEN m ELSE processAck(m, f.cmd, f.seq)
<1>1. m \in McuState /\ f.seq \in Sequence /\ f.cmd \in Command /\ SameLink(m, m)
  BY DEF Good, Weak, Frame, SameLink
<1>2. /\ processAck(m, f.cmd, f.seq) \in McuState
      /\ SameLink(m, processAck(m, f.cmd, f.seq))
  BY <1>1, ProcessAckSame
<1>3. Good(a) /\ SameLink(m, a)
  BY <1>1, <1>2, SameGood
<1> HIDE DEF a
<1>4. Kept(a, runHandler(a, f))
  BY <1>3, RunHandlerKept
<1>5. Kept(a, retransmitLastFrame(a))
  <2>1. a.retry \in 0 .. 255
    BY <1>3 DEF Good, Weak, McuState
  <2> QED BY <1>3, <2>1, RetransmitKept DEF Kept
<1>6. dispatchCmd(m, f, duplicate) \in {runHandler(a, f), retransmitLastFrame(a), a}
  BY DEF dispatchCmd, a
<1> QED BY <1>1, <1>3, <1>4, <1>5, <1>6, SameKept

\* _dispatchCommand keeps the awaited frame.
LEMMA DispatchCommandKept ==
    ASSUME NEW m, Good(m), NEW f \in Frame
    PROVE  Kept(m, dispatchCommand(m, f))
<1> DEFINE duplicate == isDuplicate(m, f.seq)
           p == pushHistory(m.history, f.seq)
           h == IF duplicate THEN m ELSE [m EXCEPT !.history = p]
<1>1. /\ m \in McuState /\ m.history \in Seq(Sequence) /\ SameLink(m, m)
      /\ f.seq \in Sequence /\ f.cmd \in Command
  BY DEF Good, Weak, McuState, Frame, SameLink
<1>2. p \in Seq(Sequence)
  BY <1>1, PushHistoryType
<1> HIDE DEF p
<1>3. [m EXCEPT !.history = p] \in McuState /\ SameLink(m, [m EXCEPT !.history = p])
  BY <1>1, <1>2 DEF McuState, SameLink
<1>4. Good(h) /\ SameLink(m, h)
  BY <1>1, <1>3, SameGood
<1>5. duplicate \in BOOLEAN
  BY DEF isDuplicate
<1> HIDE DEF duplicate, h
<1>6. /\ Kept(h, emitStatus(h, "STATUS_ERROR", f.seq))
      /\ Kept(h, emitStatus(h, "STATUS_ERROR", 0))
      /\ Kept(h, enterSafeState(h))
  BY <1>1, <1>4, EmitStatusKept, EnterSafeStateKept, Names
<1>7. Kept(h, processAck(h, "STATUS_OK", f.seq))
  BY <1>1, <1>4, ProcessAckSame, SameKept, Names DEF Good, Weak
<1>8. f.cmd \in Dispatched => Kept(h, dispatchCmd(h, f, duplicate))
  BY <1>4, <1>5, DispatchCmdKept
<1>9. \/ dispatchCommand(m, f) = emitStatus(h, "STATUS_ERROR", f.seq)
      \/ dispatchCommand(m, f) = emitStatus(h, "STATUS_ERROR", 0)
      \/ dispatchCommand(m, f) = enterSafeState(h)
      \/ dispatchCommand(m, f) = processAck(h, "STATUS_OK", f.seq)
      \/ f.cmd \in Dispatched /\ dispatchCommand(m, f) = dispatchCmd(h, f, duplicate)
  BY DEF dispatchCommand, h, duplicate, p
<1>10. Kept(h, dispatchCommand(m, f))
  BY <1>6, <1>7, <1>8, <1>9
<1> QED BY <1>1, <1>4, <1>10, SameKept

\* _handleReceivedFrame keeps the awaited frame, whatever is received.
LEMMA HandleReceivedFrameKept ==
    ASSUME NEW m, Good(m), NEW f \in Frame
    PROVE  Kept(m, handleReceivedFrame(m, f))
<1> DEFINE c == f.ctr
           n == [m EXCEPT !.rxCtr = c]
<1>1. m \in McuState /\ c \in 0 .. CounterRange - 1
  BY DEF Good, Weak, Frame
<1> HIDE DEF c
<1>2. n \in McuState /\ SameLink(m, n)
  BY <1>1 DEF McuState, SameLink
<1>3. Good(n)
  BY <1>2, SameGood
<1> HIDE DEF n
<1>4. Kept(n, dispatchCommand(n, f)) /\ Kept(m, dispatchCommand(m, f))
  BY <1>3, DispatchCommandKept
<1>5. Kept(m, dispatchCommand(n, f))
  BY <1>1, <1>2, <1>4, SameKept
<1>6. Kept(m, emitStatus(m, "STATUS_ERROR", 0))
  BY EmitStatusKept, Names
<1>7. handleReceivedFrame(m, f) \in {dispatchCommand(n, f), dispatchCommand(m, f),
                                     emitStatus(m, "STATUS_ERROR", 0)}
  BY DEF handleReceivedFrame, n, c
<1> QED BY <1>4, <1>5, <1>6, <1>7

\* Emptying the UART keeps the awaited frame.
LEMMA SentKept ==
    ASSUME NEW m, Good(m), NEW n, Good(n), Kept(m, n)
    PROVE  Kept(m, Sent(n))
<1>1. n \in McuState /\ << >> \in Seq(Frame) /\ m \in McuState
  BY DEF Good, Weak
<1>2. SameLink(n, Sent(n))
  BY <1>1 DEF Sent, McuState, SameLink
<1> QED BY <1>1, <1>2, SameKept

\* Every step of the firmware keeps the awaited frame.
LEMMA NextKept ==
    ASSUME Good(mcu), [Next]_mcu
    PROVE  Kept(mcu, mcu')
<1>1. CASE UNCHANGED mcu
  BY <1>1, SameKept DEF Good, Weak, SameLink
<1>2. CASE Reboot
  BY <1>2 DEF Reboot, Booted, Kept, isAwaitingAck
<1>3. CASE Receive
  <2>1. PICK f \in HostFrame : mcu' = Sent(handleReceivedFrame(mcu, f))
    BY <1>3 DEF Receive
  <2> QED BY <2>1, HostFrameType, HandleReceivedFrameGood, HandleReceivedFrameKept, SentKept
<1>4. CASE ReceiveCorrupt
  BY <1>4, EmitStatusGood, EmitStatusKept, SentKept, Names DEF ReceiveCorrupt
<1>5. CASE ServiceSend
  BY <1>5, SendGood, SendKept, SentKept, FirmwareSendsType, Names DEF ServiceSend
<1>6. CASE SketchSendFrame
  BY <1>6, SendFrameGood, SendFrameKept, SentKept, FirmwareSendsType, Names DEF SketchSendFrame
<1>7. CASE AckTimeout
  BY <1>7, OnAckTimeoutGood, OnAckTimeoutKept, SentKept DEF AckTimeout
<1>8. CASE HandshakeTimeout
  BY <1>8, OnHandshakeTimeoutGood, OnHandshakeTimeoutKept, SentKept DEF HandshakeTimeout
<1>9. CASE SerialTask
  <2> DEFINE c == IF mcu.xoffSent THEN "CMD_XON" ELSE "CMD_XOFF"
             g == sendFrame(mcu, c, 0, NoData)
             a == Sent(g)
             x == ~mcu.xoffSent
  <2>1. c \in Command
    BY DEF Command, SystemCommand
  <2> HIDE DEF c
  <2>2. Good(g) /\ Kept(mcu, g)
    BY <2>1, SendFrameGood, SendFrameKept, NoDataType, Names
  <2> HIDE DEF g
  <2>3. Good(a) /\ Kept(mcu, a)
    BY <2>2, SentGood, SentKept
  <2>4. mcu' = [a EXCEPT !.xoffSent = x]
    BY <1>9 DEF SerialTask, g, c
  <2> HIDE DEF a, x
  <2>5. a \in McuState /\ mcu \in McuState
    BY <2>3 DEF Good, Weak
  <2>6. SameLink(a, [a EXCEPT !.xoffSent = x])
    BY <2>5 DEF McuState, SameLink
  <2> QED BY <2>3, <2>4, <2>5, <2>6, SameKept
<1> QED BY <1>1, <1>2, <1>3, <1>4, <1>5, <1>6, <1>7, <1>8, <1>9 DEF Next

\* As long as an ACK is awaited, the frame awaited is neither replaced nor dropped, and
\* its retries are not forgotten.
THEOREM AwaitedFrameStays == Spec => AwaitedFrameKept
<1>1. Good(mcu) /\ [Next]_mcu
      => [isAwaitingAck(mcu) /\ isAwaitingAck(mcu')
            => /\ Head(mcu'.queue) = Head(mcu.queue)
               /\ mcu'.last = mcu.last
               /\ mcu'.retry >= mcu.retry]_mcu
  BY NextKept DEF Kept
<1> QED BY <1>1, Invariant, PTL DEF Spec, AwaitedFrameKept
============================================================================
