------------------------------ MODULE Requests ------------------------------
(***************************************************************************)
(* Requests of the local clients and of the cloud: LocalBridgeService.Publish *)
(* and the worker of the cloud session, handle_request with its handlers, and  *)
(* the handlers of the frames of the MCU that answer them                      *)
(* (mcubridge/services/runtime.py).                                           *)
(*                                                                         *)
(* A call is one request with the coroutine that handles it.  A handler does   *)
(* one of a few jobs, which are what is told apart: topics, payloads, paths    *)
(* and values are left out, and so is what becomes of an answer on its way to  *)
(* the cloud (CloudSpool), of a process (ProcessSlots) and of a serial command *)
(* whose response has no handler (SerialTransport).                           *)
(***************************************************************************)
EXTENDS SqliteDeque, FiniteSets

CONSTANTS
    MaxCalls,     \* bound: requests
    Setups,       \* who makes them: sequences of [origin, corr]
    Corr,         \* correlation data
    None,         \* no correlation data
    Allowed,      \* topics whose actions topic_authorization permits
    PinLimit,     \* pending_pin_request_limit
    MaxAttempts,  \* transmissions of a tracked command
    MaxPush,      \* bound: messages the MCU pushes to the mailbox
    MaxCut        \* bound: those of its messages that are cut at a full mailbox

Call == 1 .. MaxCalls

ASSUME RequestConstants ==
    /\ MaxCalls \in Nat /\ PinLimit \in Nat /\ MaxAttempts \in Nat \ {0} /\ MaxPush \in Nat /\ MaxCut \in Nat
    /\ None \notin Corr
    /\ \A s \in Setups : /\ DOMAIN s \subseteq Call
                         /\ \A n \in DOMAIN s : s[n] \in [origin : {"ipc", "cloud"},
                                                         corr : Corr \cup {None}]

VARIABLES
    who,       \* the setup
    pc,        \* where each call is: its job, or
               \* "new", "called", "slot", "sends", "refused", "reading", "took", "wrote",
               \* "post", "waits", "done"
    ipc,       \* ipc_requests: the call whose response_queue is registered, 0 for none
    box,       \* the response_queue of each call, which holds at most one answer
    text,      \* what the answer of a call will be made of
    flowQ,     \* _flow_lock: its holder, then its waiters in order
    attempts,  \* transmissions by the holder
    readQ,     \* _mcu_read_lock
    read,      \* _pending_mcu_read
    wire,      \* responses on their way from the MCU
    pending,   \* pending_digital_reads (that of the analog reads is another one)
    incoming,  \* mailbox_incoming_queue
    outgoing,  \* mailbox_queue: messages for the MCU, by the call that wrote them
    popping,   \* the message _read_loop is reading for the MCU, 0 for none
    pushing,   \* _read_loop has inserted a message of the MCU, not yet committed
    pushed,    \* messages pushed: 1 .. pushed
    given,     \* messages a reader of the mailbox was given (history)
    cut,       \* appends to a full mailbox that were cancelled (history)
    upset      \* a response was lost, or came after its call had gone (history)

lines == <<flowQ, attempts, readQ, read, wire, pending>>
out   == <<outgoing, popping>>
mail  == <<incoming, out, pushing, pushed, given, cut>>
vars  == <<who, pc, ipc, box, text, lines, mail, upset>>

NoAnswer == [to |-> 0, of |-> <<>>]
NoRead   == [open |-> FALSE, done |-> FALSE, chunks |-> <<>>]

Init ==
    /\ who \in Setups /\ pc = [n \in Call |-> "new"] /\ ipc = [c \in Corr |-> 0]
    /\ box = [n \in Call |-> NoAnswer] /\ text = [n \in Call |-> <<n>>]
    /\ flowQ = <<>> /\ attempts = 0 /\ readQ = <<>> /\ read = NoRead
    /\ wire = <<>> /\ pending = <<>>
    /\ incoming = Opened(<<>>) /\ outgoing = Opened(<<>>) /\ popping = 0
    /\ pushing = FALSE /\ pushed = 0 /\ given = {} /\ cut = [incoming |-> 0, outgoing |-> 0]
    /\ upset = FALSE

GoTo(n, l) == pc' = [pc EXCEPT ![n] = l]

Registers(n) == who[n].origin = "ipc" /\ who[n].corr # None

\* handle_request returns: a client that sent correlation data waits for the answer.
Returned(n) == IF Registers(n) THEN "waits" ELSE "done"

\* Publish ends: its finally clause removes whatever is registered for its correlation.
Unregister(n) == ipc' = IF Registers(n) THEN [ipc EXCEPT ![who[n].corr] = 0] ELSE ipc

Reader(n) == readQ # <<>> /\ Head(readQ) = n

\* The lock is released; only the wait for the response is within the try statement whose
\* finally clause resets _pending_mcu_read.
LeaveReadLock(n) ==
    /\ readQ' = RemoveFirst(readQ, n)
    /\ read' = IF Reader(n) /\ pc[n] \notin {"sends", "refused"} THEN NoRead ELSE read

----------------------------------------------------------------------------
(* enqueue_cloud, for an answer to call n made of text t *)

\* The call whose response_queue gets it; 0: the answer is published to the cloud.
Receiver(n) == IF who[n].corr = None THEN 0 ELSE ipc[who[n].corr]

\* put_nowait raises QueueFull.
QueueFull(n) == Receiver(n) # 0 /\ box[Receiver(n)] # NoAnswer

Put(n, t) ==
    box' = IF Receiver(n) = 0 THEN box
           ELSE [box EXCEPT ![Receiver(n)] = [to |-> n, of |-> t]]

----------------------------------------------------------------------------
(* Requests come in *)

\* Publish registers its queue, whoever uses the same correlation data already; a request
\* of the cloud is put in _cloud_incoming_queue.
request(n) ==
    /\ n \in DOMAIN who /\ pc[n] = "new" /\ \A m \in 1 .. n - 1 : pc[m] # "new"
    /\ GoTo(n, "called")
    /\ ipc' = IF Registers(n) THEN [ipc EXCEPT ![who[n].corr] = n] ELSE ipc
    /\ UNCHANGED <<who, box, text, lines, mail, upset>>

\* _cloud_incoming_worker takes one request after the other.
Turn(n) ==
    who[n].origin = "cloud" =>
       \A m \in 1 .. n - 1 : who[m].origin = "cloud" => pc[m] = "done"

\* What each handler may come to, by its input and the state it finds: no answer
\* ("nothing"), an answer ("answer"), an exception ("raise"), a serial command ("send")
\* which some answer when it succeeds, a pin read ("pin"), an MCU file read ("read"), a
\* message for the mailbox of the MCU ("write"), one of the incoming mailbox ("take"), or
\* an allowed command, which waits for a process slot ("slot").
handle_console   == {"nothing"}
handle_datastore == {"nothing", "answer"}
handle_mailbox   == {"nothing", "write", "take"}
handle_file      == {"nothing", "answer", "send", "read"}
handle_shell     == {"nothing", "answer", "raise", "slot"}
handle_spi       == {"nothing", "send"}
handle_pin       == {"nothing", "raise", "send", "pin"}
handle_system    == {"nothing", "answer", "send"}

Jobs == [console |-> handle_console, datastore |-> handle_datastore,
         mailbox |-> handle_mailbox, file |-> handle_file, shell |-> handle_shell,
         spi |-> handle_spi, pin |-> handle_pin, system |-> handle_system]

\* The service a topic names; none when the prefix is not ours or the service unknown.
parse_topic == DOMAIN Jobs \cup {"none"}

\* The action that authorization is about: none for the system topic, and none for a topic
\* that ends with its service.
deduce_action(t) == {"none"} \cup (IF t \in {"system", "none"} THEN {} ELSE {"named"})

allows_topic(t) == t \in Allowed

reject_cloud == {"answer"}

\* An action nobody knows is forbidden too.  Without an action, only the system topic finds
\* something to do here; the handler of the pins looks for the number of one, and raises.
JobsOf(t, a) ==
    CASE a = "named"                  -> reject_cloud \cup (IF allows_topic(t) THEN Jobs[t] ELSE {})
      [] a = "none" /\ t = "system"  -> Jobs[t]
      [] a = "none" /\ t = "pin"     -> {"raise"}
      [] OTHER                        -> {"nothing"}

Reached == UNION {UNION {JobsOf(t, a) : a \in deduce_action(t)} : t \in parse_topic}

\* Mutant: the limit is off by one.
start_pinOneMore(n) ==
    IF Len(pending) <= PinLimit
    THEN /\ pending' = Append(pending, n) /\ flowQ' = Append(flowQ, n) /\ GoTo(n, "pin")
    ELSE GoTo(n, "answer") /\ UNCHANGED <<pending, flowQ>>

\* Mutant: the entry of a pin read goes in front of the others.
start_pinFront(n) ==
    IF Len(pending) < PinLimit
    THEN /\ pending' = <<n>> \o pending /\ flowQ' = Append(flowQ, n) /\ GoTo(n, "pin")
    ELSE GoTo(n, "answer") /\ UNCHANGED <<pending, flowQ>>

\* The entry is made before the lock is asked for; without room the read is refused.
start_pin(n) ==
    IF Len(pending) < PinLimit
    THEN /\ pending' = Append(pending, n) /\ flowQ' = Append(flowQ, n) /\ GoTo(n, "pin")
    ELSE GoTo(n, "answer") /\ UNCHANGED <<pending, flowQ>>

\* handle_request, up to where the handler awaits.  The wait for the link before it ends
\* with the link or with its timeout, and the request is handled either way.
handle_request(n) ==
    /\ pc[n] = "called" /\ Turn(n)
    /\ \E j \in Reached :
          \/ j = "pin" /\ start_pin(n) /\ UNCHANGED readQ
          \/ /\ j = "send" /\ flowQ' = Append(flowQ, n) /\ GoTo(n, j)
             /\ UNCHANGED <<pending, readQ>>
          \/ /\ j = "read" /\ readQ' = Append(readQ, n) /\ GoTo(n, j)
             /\ UNCHANGED <<pending, flowQ>>
          \/ /\ j = "nothing" /\ GoTo(n, Returned(n))
             /\ UNCHANGED <<pending, flowQ, readQ>>
          \/ /\ j \in {"answer", "take", "write", "slot"} /\ GoTo(n, j)
             /\ UNCHANGED <<pending, flowQ, readQ>>
    /\ UNCHANGED <<who, ipc, box, text, attempts, read, wire, mail, upset>>

\* An exception ends the call of a client; the worker logs it and goes on (or, when it is
\* none of those it expects, ends with the session and is started again).
raise(n) ==
    /\ pc[n] = "called" /\ Turn(n) /\ "raise" \in Reached
    /\ GoTo(n, "done") /\ Unregister(n)
    /\ UNCHANGED <<who, box, text, lines, mail, upset>>

\* _run_process gets a slot: the command is started or cannot be, and the answer says so.
\* The wait for the slot is the only one without a timeout, and the slots may have leaked
\* (ProcessSlots).
get_slot(n) ==
    /\ pc[n] = "slot" /\ GoTo(n, "answer")
    /\ UNCHANGED <<who, ipc, box, text, lines, mail, upset>>

\* Mutant: the lock of the MCU file reads outlives a read that fails.
answerKeepsLock(n) ==
    /\ pc[n] \in {"answer", "refused"}
    /\ Put(n, text[n]) /\ GoTo(n, Returned(n))
    /\ UNCHANGED <<who, ipc, text, lines, mail, upset>>

\* The answer is put in the queue of the client, or goes to the cloud; the handler ends.
answer(n) ==
    /\ pc[n] \in {"answer", "refused"}
    /\ IF QueueFull(n) THEN GoTo(n, "done") /\ Unregister(n) /\ UNCHANGED box /\ LeaveReadLock(n)
       ELSE /\ Put(n, text[n]) /\ GoTo(n, Returned(n)) /\ UNCHANGED ipc
            /\ readQ' = RemoveFirst(readQ, n) /\ read' = IF Reader(n) THEN NoRead ELSE read
    /\ text' = [text EXCEPT ![n] = <<n>>]
    /\ UNCHANGED <<who, flowQ, attempts, wire, pending, mail, upset>>

\* Publish waits up to 15 s; the stub of an answer follows a timeout.
wait(n) ==
    /\ pc[n] = "waits" /\ GoTo(n, "done") /\ Unregister(n)
    /\ box' = [box EXCEPT ![n] = NoAnswer]
    /\ UNCHANGED <<who, text, lines, mail, upset>>

\* Mutant: the count is not lowered.
PoppedUncounted(q, x) == [q EXCEPT !.rows = RemoveFirst(q.rows, x)]

\* popleft has deleted row x.
Popped(q, x) == [rows   |-> RemoveFirst(q.rows, x),
                 length |-> IF q.length = 0 THEN 0 ELSE q.length - 1]

\* popleft is cancelled: before its deletion, before the commit, or during it.
Abandoned(q, x) == {q, [q EXCEPT !.length = Popped(q, x).length], Popped(q, x)}

\* An append holds the write lock of the database from its insertion to its commit.
Writing == \E n \in Call : pc[n] = "wrote"

\* append is cancelled after its insertion: by then it commits, unless it still had to delete
\* the oldest row of a full mailbox, which leaves the rows as they were and the count raised.
Cut(q, x) == {append_impl(q, x)}
             \cup (IF q.length < MaxLen THEN {} ELSE {[q EXCEPT !.length = @ + 1]})

\* The rows are as they were: so ended the appends counted in cut.
Lost(q, r) == IF r.rows = q.rows /\ r.length > q.length THEN 1 ELSE 0

\* The client goes, or the session of the cloud ends: the coroutine is cancelled, and a
\* message it was reading may be gone with it.
cancel(n) ==
    /\ pc[n] \notin {"new", "done"}
    /\ GoTo(n, "done") /\ Unregister(n)
    /\ flowQ' = RemoveFirst(flowQ, n) /\ LeaveReadLock(n)
    /\ attempts' = IF flowQ # <<>> /\ Head(flowQ) = n THEN 0 ELSE attempts
    /\ upset' = (upset \/ pc[n] \in {"pin", "reading"})
    /\ box' = [box EXCEPT ![n] = NoAnswer] /\ text' = [text EXCEPT ![n] = <<n>>]
    /\ IF pc[n] # "took" \/ pushing THEN UNCHANGED <<incoming, given>>
       ELSE /\ incoming' \in Abandoned(incoming, text[n][1])
            /\ given' = given \cup (ToSet(incoming.rows) \ ToSet(incoming'.rows))
    /\ IF pc[n] # "wrote" THEN UNCHANGED <<outgoing, cut>>
       ELSE /\ outgoing' \in Cut(outgoing, n)
            /\ cut' = [cut EXCEPT !.outgoing = @ + Lost(outgoing, outgoing')]
    /\ UNCHANGED <<who, wire, pending, popping, pushing, pushed>>

----------------------------------------------------------------------------
(* Serial commands *)

Sender(n) == flowQ # <<>> /\ Head(flowQ) = n

\* send: it succeeds or fails.  That of a mailbox message has no answer.
send(n) ==
    /\ pc[n] \in {"send", "post"} /\ Sender(n) /\ flowQ' = Tail(flowQ)
    /\ GoTo(n, Returned(n)) \/ (pc[n] = "send" /\ GoTo(n, "answer"))
    /\ UNCHANGED <<who, ipc, box, text, attempts, readQ, read, wire, pending, mail, upset>>

\* send of a pin read: one more transmission, which the MCU answers.
send_pin(n) ==
    /\ pc[n] = "pin" /\ Sender(n) /\ attempts < MaxAttempts /\ attempts' = attempts + 1
    /\ LET r == [kind |-> "pin", of |-> n]
       IN wire' = Append(wire, r) /\ upset' = (upset \/ r \in ToSet(wire))
    /\ UNCHANGED <<who, pc, ipc, box, text, flowQ, readQ, read, pending, mail>>

\* The transmission fails or every attempt has timed out: send returns False.  The entry
\* of the read stays.
send_pin_fails(n) ==
    /\ pc[n] = "pin" /\ Sender(n)
    /\ GoTo(n, Returned(n)) /\ flowQ' = Tail(flowQ) /\ attempts' = 0 /\ upset' = TRUE
    /\ UNCHANGED <<who, ipc, box, text, readQ, read, wire, pending, mail>>

\* _handle_file_mcu_read: the future for the response is made ...
read_start(n) ==
    /\ pc[n] = "read" /\ Reader(n) /\ GoTo(n, "sends")
    /\ read' = [open |-> TRUE, done |-> FALSE, chunks |-> <<>>]
    /\ UNCHANGED <<who, ipc, box, text, flowQ, attempts, readQ, wire, pending, mail, upset>>

\* ... and the request is written, and answered in chunks (here one) with an empty one at
\* the end; or it could not be written.
read_send(n) ==
    /\ pc[n] = "sends"
    /\ \/ /\ GoTo(n, "reading")
          /\ wire' = wire \o <<[kind |-> "chunk", of |-> n], [kind |-> "end", of |-> n]>>
       \/ GoTo(n, "refused") /\ UNCHANGED wire
    /\ UNCHANGED <<who, ipc, box, text, flowQ, attempts, readQ, read, pending, mail, upset>>

\* The answer is what was received, or after serial_response_timeout an error.
read_end(n) ==
    /\ pc[n] = "reading" /\ GoTo(n, "answer")
    /\ IF read.done THEN text' = [text EXCEPT ![n] = read.chunks] /\ UNCHANGED upset
                    ELSE upset' = TRUE /\ UNCHANGED text
    /\ UNCHANGED <<who, ipc, box, lines, mail>>

----------------------------------------------------------------------------
(* Frames of the MCU *)

\* _read_loop takes one frame after the other: it has none in hand.
Free == popping = 0 /\ ~pushing

\* The port is closed: what was on its way is gone.
port_closed ==
    /\ wire' = <<>>
    /\ upset' = (upset \/ \E n \in Call : pc[n] \in {"pin", "reading"})

\* on_serial_disconnected: the pending reads are forgotten.
on_serial_disconnected == pending' = <<>>

\* _on_pin_resp: the response is for the oldest read, and completes the send in progress.
\* QueueFull, which _read_loop does not catch, ends the connection and is raised again by the
\* await of the loop, before on_serial_disconnected: the other reads stay pending.
on_pin_resp ==
    /\ wire # <<>> /\ Head(wire).kind = "pin" /\ Free
    /\ IF attempts > 0
       THEN GoTo(Head(flowQ), Returned(Head(flowQ))) /\ flowQ' = Tail(flowQ) /\ attempts' = 0
       ELSE UNCHANGED <<pc, flowQ, attempts>>
    /\ IF pending # <<>> /\ QueueFull(Head(pending))
       THEN port_closed /\ pending' = Tail(pending) /\ UNCHANGED box
       ELSE /\ IF pending = <<>> THEN UNCHANGED <<box, pending>>
               ELSE Put(Head(pending), <<Head(wire).of>>) /\ pending' = Tail(pending)
            /\ wire' = Tail(wire) /\ UNCHANGED upset
    /\ UNCHANGED <<who, ipc, text, readQ, read, mail>>

\* _on_mcu_file_read_resp
on_file_read_resp ==
    /\ wire # <<>> /\ Head(wire).kind # "pin" /\ wire' = Tail(wire) /\ Free
    /\ read' = IF ~read.open \/ read.done THEN read
               ELSE IF Head(wire).kind = "end" THEN [read EXCEPT !.done = TRUE]
               ELSE [read EXCEPT !.chunks = Append(@, Head(wire).of)]
    /\ UNCHANGED <<who, pc, ipc, box, text, flowQ, attempts, readQ, pending, mail, upset>>

\* A response is lost, or the request it is for was; a pin read is sent again.
lose ==
    /\ wire # <<>> /\ wire' = Tail(wire)
    /\ upset' = (upset \/ Head(wire).kind # "pin")
    /\ UNCHANGED <<who, pc, ipc, box, text, flowQ, attempts, readQ, read, pending, mail>>

\* The serial connection ends, and with it _read_loop.
disconnect ==
    /\ wire # <<>> \/ pending # <<>> \/ ~Free
    /\ port_closed /\ on_serial_disconnected
    /\ outgoing' \in IF popping = 0 \/ Writing THEN {outgoing} ELSE Abandoned(outgoing, popping)
    /\ incoming' \in IF pushing THEN Cut(incoming, pushed + 1) ELSE {incoming}
    /\ cut' = [cut EXCEPT !.incoming = @ + Lost(incoming, incoming')] /\ cut'.incoming <= MaxCut
    /\ pushed' = IF pushing /\ Lost(incoming, incoming') = 0 THEN pushed + 1 ELSE pushed
    /\ popping' = 0 /\ pushing' = FALSE
    /\ UNCHANGED <<who, pc, ipc, box, text, flowQ, attempts, readQ, read, given>>

\* A frame of the MCU makes its handler raise what _read_loop does not catch, such as the
\* DecodeError of its payload: the connection ends, and on_serial_disconnected is left out.
escape ==
    /\ Free /\ (wire # <<>> \/ pending # <<>>) /\ port_closed
    /\ UNCHANGED <<who, pc, ipc, box, text, flowQ, attempts, readQ, read, pending, mail>>

----------------------------------------------------------------------------
(* The mailboxes.  Failures of the database are in CloudSpool. *)

\* _on_mcu_mailbox_push: the message is inserted ...
mailbox_push ==
    /\ pushed < MaxPush /\ Free /\ pushing' = TRUE
    /\ UNCHANGED <<who, pc, ipc, box, text, lines, incoming, out, pushed, given, cut, upset>>

\* ... and committed, with the deletion of the oldest one of a full mailbox.
mailbox_pushed ==
    /\ pushing /\ pushing' = FALSE /\ pushed' = pushed + 1
    /\ incoming' = append_impl(incoming, pushed + 1)
    /\ UNCHANGED <<who, pc, ipc, box, text, lines, out, given, cut, upset>>

\* append by _handle_mailbox: the same two steps, and the message is sent to the MCU too.
write(n) ==
    /\ pc[n] = "write" /\ ~Writing /\ GoTo(n, "wrote")
    /\ UNCHANGED <<who, ipc, box, text, lines, mail, upset>>

wrote(n) ==
    /\ pc[n] = "wrote" /\ GoTo(n, "post") /\ flowQ' = Append(flowQ, n)
    /\ outgoing' = append_impl(outgoing, n)
    /\ UNCHANGED <<who, ipc, box, text, attempts, readQ, read, wire, pending, incoming, popping,
                   pushing, pushed, given, cut, upset>>

\* _on_mcu_mailbox_read: the oldest message for the MCU is selected (a mailbox that has none
\* is answered with an empty message) ...
mailbox_read ==
    /\ Free /\ outgoing.rows # <<>> /\ popping' = Head(outgoing.rows)
    /\ UNCHANGED <<who, pc, ipc, box, text, lines, incoming, outgoing, pushing, pushed, given, cut, upset>>

\* ... deleted, and sent; when that fails it is not put back.
mailbox_sent ==
    /\ popping # 0 /\ ~Writing /\ popping' = 0 /\ outgoing' = Popped(outgoing, popping)
    /\ UNCHANGED <<who, pc, ipc, box, text, lines, incoming, pushing, pushed, given, cut, upset>>

\* _on_mcu_mailbox_available: what the MCU is told.  The count is raised at the insertion.
mailbox_available == outgoing.length + (IF Writing THEN 1 ELSE 0)

\* popleft by _handle_mailbox: the oldest row is selected ...
take(n) ==
    /\ pc[n] = "take"
    /\ IF incoming.rows = <<>> THEN GoTo(n, "answer") /\ UNCHANGED text
       ELSE GoTo(n, "took") /\ text' = [text EXCEPT ![n] = <<Head(incoming.rows)>>]
    /\ UNCHANGED <<who, ipc, box, lines, mail, upset>>

\* Mutant: the oldest row is deleted, whichever was selected.
took_Oldest(n) ==
    /\ pc[n] = "took" /\ ~pushing /\ GoTo(n, "answer")
    /\ incoming' = popleft_impl(incoming).d
    /\ given' = given \cup {text[n][1]} /\ text' = [text EXCEPT ![n] = <<n>>]
    /\ UNCHANGED <<who, ipc, box, lines, out, pushing, pushed, cut, upset>>

\* ... and then deleted, by its id, on a connection of its own.
took(n) ==
    /\ pc[n] = "took" /\ ~pushing /\ GoTo(n, "answer")
    /\ incoming' = Popped(incoming, text[n][1])
    /\ given' = given \cup {text[n][1]} /\ text' = [text EXCEPT ![n] = <<n>>]
    /\ UNCHANGED <<who, ipc, box, lines, out, pushing, pushed, cut, upset>>

Serve(n) ==
    \/ handle_request(n) \/ raise(n) \/ answer(n) \/ wait(n) \/ send(n)
    \/ send_pin(n) \/ send_pin_fails(n) \/ read_start(n) \/ read_send(n) \/ read_end(n)
    \/ take(n) \/ took(n) \/ write(n) \/ wrote(n)

Next ==
    \/ \E n \in Call : request(n) \/ Serve(n) \/ get_slot(n) \/ cancel(n)
    \/ on_pin_resp \/ on_file_read_resp \/ lose \/ disconnect \/ escape
    \/ mailbox_push \/ mailbox_pushed \/ mailbox_read \/ mailbox_sent

\* The event loop never stops while a coroutine can go on, and every wait has a timeout but
\* that for a process slot, which may last for ever.
Fairness == WF_vars(\E n \in Call : Serve(n)) /\ WF_vars(mailbox_pushed)

Spec == Init /\ [][Next]_vars /\ Fairness

----------------------------------------------------------------------------
(* Properties *)

Answer == [to : Call \cup {0}, of : Seq(Call)]

TypeOK ==
    /\ who \in Setups
    /\ pc \in [Call -> {"new", "called", "slot", "answer", "send", "pin",
                        "read", "sends", "refused", "reading", "take", "took",
                        "write", "wrote", "post", "waits", "done"}]
    /\ ipc \in [Corr -> Call \cup {0}]
    /\ box \in [Call -> Answer]
    /\ text \in [Call -> Seq(Nat)]
    /\ flowQ \in Seq(Call) /\ attempts \in 0 .. MaxAttempts /\ (flowQ = <<>> => attempts = 0)
    /\ readQ \in Seq(Call) /\ read.open \in BOOLEAN /\ read.done \in BOOLEAN
    /\ read.chunks \in Seq(Call)
    /\ wire \in Seq([kind : {"pin", "chunk", "end"}, of : Call])
    /\ pending \in Seq(Call) /\ Len(pending) <= PinLimit
    /\ pushed \in 0 .. MaxPush /\ given \subseteq 1 .. pushed
    /\ incoming.rows \in Seq(1 .. pushed) /\ incoming.length \in Nat
    /\ outgoing.rows \in Seq(Call) /\ outgoing.length \in Nat
    /\ popping \in Call \cup {0} /\ pushing \in BOOLEAN /\ (pushing => popping = 0)
    /\ cut \in [incoming : Nat, outgoing : Nat] /\ upset \in BOOLEAN

\* The answer put in the response queue of a client is the one to its own request, or to a
\* request that used the same correlation data; and it is made of what the MCU sent for
\* that request, unless a response was lost or came too late.
OwnAnswer ==
    \A n \in Call : box[n] # NoAnswer =>
       LET m == box[n].to
       IN /\ m = n \/ who[m].corr = who[n].corr
          /\ box[n].of = <<m>> \/ upset

\* A message the MCU pushed to the mailbox is there or was given to a reader, unless as
\* many newer ones as the mailbox holds replaced it; readers that overlap may be given
\* the same message, and lower the count of a row twice.  Each append that was cancelled
\* when the mailbox was full leaves it room for one message less.
PushedKept ==
    \A i \in 1 .. pushed :
       i \in ToSet(incoming.rows) \/ i \in given \/ i + MaxLen <= pushed + cut.incoming

\* The MCU is told of no more messages than there are, but for one that is being written and
\* one for each append that was cancelled when the mailbox was full: the count kept in memory
\* may otherwise only fall behind the rows (a row deleted twice, a cancelled reader).
NoPhantoms ==
    /\ mailbox_available <= Len(outgoing.rows) + cut.outgoing + (IF Writing THEN 1 ELSE 0)
    /\ incoming.length <= Len(incoming.rows) + cut.incoming

\* The command of a request waits for a slot, or the worker of the cloud session, whose next
\* request it is, does so for an earlier one.
NoSlot(n) ==
    \/ pc[n] = "slot"
    \/ /\ pc[n] = "called" /\ who[n].origin = "cloud"
       /\ \E m \in 1 .. n - 1 : who[m].origin = "cloud" /\ pc[m] = "slot"

\* All requests are dealt with in the end, with its answer, the stub of one or an error: neither
\* lock is kept by a request that fails or is cancelled.  What waits for a process slot, or for
\* the worker that does, holds up no other request.
Busy     == {n \in Call : pc[n] \notin {"new", "done"} /\ ~NoSlot(n)}
CallsEnd == (Busy # {}) ~> (Busy = {})
============================================================================
