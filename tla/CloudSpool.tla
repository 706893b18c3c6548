----------------------------- MODULE CloudSpool -----------------------------
(***************************************************************************)
(* The cloud publisher of the daemon: enqueue_cloud, the spool on disk and   *)
(* the session that connect_cloud_session keeps                              *)
(* (mcubridge/services/runtime.py, mcubridge/state/storage.py).              *)
(*                                                                         *)
(* A Task is a coroutine that publishes; the Worker publishes the answers to *)
(* cloud requests, lives as long as the session reads and is cancelled with  *)
(* it; Conn runs the session.  All take _cloud_publish_lock.  A step ends at *)
(* an await.  Statistics (the degraded flag, counters, timestamps) are left  *)
(* out; fate records what has become of each message.                       *)
(***************************************************************************)
EXTENDS SqliteDeque, FiniteSets

CONSTANTS
    Task, Worker,  \* publishing coroutines, and that of _cloud_incoming_worker
    Conn,          \* the coroutine of connect_cloud_session
    NumMsg,        \* messages 1 .. NumMsg are published in this order
    Bad,           \* a spool entry that does not decode
    Leftovers,     \* spools an earlier run of the daemon may leave
    MaxFaults      \* bound: failures of the database or the link, crashes

ASSUME SpoolConstants ==
    /\ Worker \notin Task /\ Conn \notin Task \cup {Worker}
    /\ NumMsg \in Nat /\ MaxFaults \in Nat
    /\ Bad \notin 1 .. NumMsg /\ NoItem \notin 1 .. NumMsg
    /\ \A rows \in Leftovers :
          /\ rows \in Seq(1 .. NumMsg \cup {Bad})
          \* the messages of an earlier run were published first, in this order
          /\ \A i, j \in 1 .. Len(rows) :
                i < j /\ rows[i] # Bad /\ rows[j] # Bad => rows[i] < rows[j]
          /\ \A i \in 1 .. Len(rows), n \in 1 .. NumMsg :
                rows[i] # Bad /\ n < rows[i] => \E j \in 1 .. Len(rows) : rows[j] = n

VARIABLES
    pc,      \* where each coroutine is suspended
    msg,     \* the message it publishes
    lockQ,   \* _cloud_publish_lock: its holder, then its waiters in order
    spool,   \* _cloud_spool
    fate,    \* what has become of each message (history)
    sends,   \* the messages given to the stream, in order (history)
    faults   \* failures so far

vars == <<pc, msg, lockQ, spool, fate, sends, faults>>

Publisher == Task \cup {Worker}
Actor == Publisher \cup {Conn}
Msg == 1 .. NumMsg
Given == {"refused", "dropped", "trimmed", "evicted", "wiped", "escaped", "cancelled", "crashed"}

\* The messages in cloud_publish_queue: each is taken out when its call ends.
Publishing == {p \in Publisher : pc[p] # "idle"}

\* _cloud_stream is set.
stream == pc[Conn] \notin {"idle", "ended"}

Holds(a) == lockQ # <<>> /\ Head(lockQ) = a
At(a, l) == pc[a] = l /\ Holds(a)
Fault == faults < MaxFaults /\ faults' = faults + 1

Init ==
    /\ pc = [a \in Actor |-> "idle"]
    /\ msg = [p \in Publisher |-> NoItem]
    /\ lockQ = <<>>
    /\ \E rows \in Leftovers :
          /\ spool = Opened(rows)
          /\ fate = [m \in Msg |-> IF m \in ToSet(rows) THEN "kept" ELSE "new"]
    /\ sends = <<>> /\ faults = 0

GoTo(a, l) == pc' = [pc EXCEPT ![a] = l]

\* The call of publisher p ends: the lock is released and the message leaves the queue.
Return(p) ==
    /\ GoTo(p, "idle") /\ msg' = [msg EXCEPT ![p] = NoItem]
    /\ lockQ' = Tail(lockQ)

\* An operation of the spool by a: outcome o, after which a is at l.
Did(o) ==
    /\ spool' = o.d
    /\ IF o.fault THEN Fault ELSE UNCHANGED faults

Wiped(o) == [m \in Msg |-> IF m \in o.lost /\ fate[m] = "kept" THEN "wiped" ELSE fate[m]]

----------------------------------------------------------------------------
(* enqueue_cloud *)

\* Mutant: the message bypasses the lock's queue.
enqueue_cloudUnfair(p) ==
    /\ pc[p] = "idle"
    /\ \E m \in Msg :
          /\ fate[m] = "new" /\ \A n \in 1 .. m - 1 : fate[n] # "new"
          /\ fate' = [fate EXCEPT ![m] = "hand"] /\ msg' = [msg EXCEPT ![p] = m]
    /\ GoTo(p, "lock")
    /\ lockQ' = IF Len(lockQ) < 2 THEN Append(lockQ, p)
                ELSE <<lockQ[1], p>> \o Tail(lockQ)
    /\ UNCHANGED <<spool, sends, faults>>

\* A full queue raises QueueFull to the caller; one with limit 0 (cloud_queue_limit is MaxLen)
\* is never full.
enqueue_cloud(p) ==
    /\ pc[p] = "idle" /\ (p = Worker => pc[Conn] = "read")
    /\ \E m \in Msg :
          /\ fate[m] = "new" /\ \A n \in 1 .. m - 1 : fate[n] # "new"
          /\ IF MaxLen > 0 /\ Cardinality(Publishing) >= MaxLen
             THEN /\ fate' = [fate EXCEPT ![m] = "refused"]
                  /\ UNCHANGED <<pc, msg, lockQ>>
             ELSE /\ fate' = [fate EXCEPT ![m] = "hand"]
                  /\ msg' = [msg EXCEPT ![p] = m]
                  /\ GoTo(p, "lock") /\ lockQ' = Append(lockQ, p)
    /\ UNCHANGED <<spool, sends, faults>>

\* An exception that _publish_cloud_message does not catch leaves a's call; that of the
\* worker or of the connection ends the session.
Raise(a) ==
    /\ lockQ' = Tail(lockQ)
    /\ pc' = [b \in Actor |->
                IF b = a \/ (b = Conn /\ a = Worker) THEN "idle" ELSE pc[b]]
    /\ IF a = Conn THEN UNCHANGED <<msg, fate>>
       ELSE /\ msg' = [msg EXCEPT ![a] = NoItem]
            /\ fate' = [fate EXCEPT ![msg[a]] = "escaped"]
    /\ UNCHANGED <<spool, sends>> /\ Fault

\* _publish_cloud_message without a result: no stream, or an OSError of the stream.
Refused == IF stream THEN Fault ELSE UNCHANGED faults

publish(p) ==
    /\ At(p, "publish")
    /\ \/ /\ stream
          /\ sends' = Append(sends, msg[p]) /\ fate' = [fate EXCEPT ![msg[p]] = "sent"]
          /\ Return(p) /\ UNCHANGED <<spool, faults>>
       \/ Refused /\ GoTo(p, "spool") /\ UNCHANGED <<msg, lockQ, spool, fate, sends>>
       \/ stream /\ Raise(p)

\* _spool_cloud_message_locked, first part: room is made, one entry at a time, unless the count
\* is wrong and there is none, or the limit is 0.
trim(p) ==
    /\ At(p, "spool")
    /\ IF MaxLen > 0 /\ spool.length >= MaxLen
       THEN \E o \in popleft(spool) :
               /\ Did(o) /\ GoTo(p, IF o.res = "ok" THEN "spool" ELSE "append")
               /\ fate' = [m \in Msg |-> IF o.res = "ok" /\ m = o.item /\ fate[m] = "kept"
                                         THEN "trimmed" ELSE Wiped(o)[m]]
       ELSE GoTo(p, "append") /\ UNCHANGED <<spool, fate, faults>>
    /\ UNCHANGED <<msg, lockQ, sends>>

\* Mutant: a failure of the database is taken for success.
keepAlways(p) ==
    /\ At(p, "append")
    /\ \E o \in append(spool, msg[p]) :
          Did(o) /\ fate' = [Wiped(o) EXCEPT ![msg[p]] = "kept"]
    /\ Return(p) /\ UNCHANGED sends

\* What append took for spooled and has deleted itself.
Evicted(f, o) == [m \in Msg |-> IF f[m] = "kept" /\ m \notin ToSet(o.d.rows) THEN "evicted" ELSE f[m]]

\* ... second part: the message is appended, or dropped and counted.
keep(p) ==
    /\ At(p, "append")
    /\ \E o \in append(spool, msg[p]) :
          /\ Did(o)
          /\ fate' = Evicted([Wiped(o) EXCEPT ![msg[p]] = IF o.res = "ok" THEN "kept" ELSE "dropped"], o)
    /\ Return(p) /\ UNCHANGED sends

----------------------------------------------------------------------------
(* _flush_cloud_spool_locked, on behalf of a publisher or of the connection *)

\* Without a stream neither the flush nor the publication awaits anything.
flush_start(a) ==
    /\ At(a, "lock")
    /\ GoTo(a, IF stream THEN "flush" ELSE "spool")
    /\ UNCHANGED <<msg, lockQ, spool, fate, sends, faults>>

\* Mutant: the entry is removed before it is sent.
flush_peekRemoves(a) ==
    /\ At(a, "flush")
    /\ IF spool.length = 0 THEN GoTo(a, "flushed") /\ UNCHANGED <<spool, fate, faults>>
       ELSE \E o \in peek(spool) :
               /\ Did(o) /\ fate' = Wiped(o)
               /\ GoTo(a, IF o.res = "ok" THEN "pop" ELSE "flushed")
    /\ UNCHANGED <<msg, lockQ, sends>>

flush_peek(a) ==
    /\ At(a, "flush")
    /\ IF spool.length = 0 THEN GoTo(a, "flushed") /\ UNCHANGED <<spool, fate, faults>>
       ELSE \E o \in peek(spool) :
               /\ Did(o) /\ fate' = Wiped(o)
               /\ GoTo(a, IF o.res # "ok" THEN "flushed"
                          ELSE IF o.item = Bad THEN "corrupt"
                          ELSE "resend")
    /\ UNCHANGED <<msg, lockQ, sends>>

flush_send(a) ==
    /\ At(a, "resend")
    /\ \/ /\ stream /\ GoTo(a, "pop")
          /\ LET m == Head(spool.rows)
             IN sends' = Append(sends, m) /\ fate' = [fate EXCEPT ![m] = "sent"]
          /\ UNCHANGED <<msg, lockQ, spool, faults>>
       \/ Refused /\ GoTo(a, "flushed") /\ UNCHANGED <<msg, lockQ, spool, fate, sends>>
       \/ stream /\ Raise(a)

\* Mutant: the entry sent stays when the flush goes on.
flush_popForgets(a) ==
    /\ At(a, "pop") /\ GoTo(a, "flushed")
    /\ UNCHANGED <<msg, lockQ, spool, fate, sends, faults>>

\* The entry sent, or the corrupt one, is removed.
flush_pop(a) ==
    /\ At(a, "pop") \/ At(a, "corrupt")
    /\ \E o \in popleft(spool) :
          /\ Did(o) /\ fate' = Wiped(o)
          /\ GoTo(a, IF o.res = "ok" THEN "flush" ELSE "flushed")
    /\ UNCHANGED <<msg, lockQ, sends>>

\* Mutant: the connection reads on without releasing the lock.
flush_endHolds(a) ==
    /\ At(a, "flushed") /\ GoTo(a, IF a = Conn THEN "read" ELSE "publish")
    /\ UNCHANGED <<msg, lockQ, spool, fate, sends, faults>>

flush_end(a) ==
    /\ At(a, "flushed")
    /\ IF spool.length = 0
       THEN \E o \in vacuum(spool) : Did(o) /\ fate' = Wiped(o)
       ELSE UNCHANGED <<spool, fate, faults>>
    /\ IF a = Conn THEN GoTo(a, "read") /\ lockQ' = Tail(lockQ)
                   ELSE GoTo(a, "publish") /\ UNCHANGED lockQ
    /\ UNCHANGED <<msg, sends>>

----------------------------------------------------------------------------
(* connect_cloud_session and run_cloud *)

\* The stream is open: publishers may use it from now on.
connect ==
    /\ pc[Conn] = "idle" /\ GoTo(Conn, "event")
    /\ UNCHANGED <<msg, lockQ, spool, fate, sends, faults>>

\* The online event is sent and flush_cloud_spool asks for the lock, or the session fails.
send_cloud_event ==
    /\ pc[Conn] = "event"
    /\ \/ GoTo(Conn, "lock") /\ lockQ' = Append(lockQ, Conn) /\ UNCHANGED faults
       \/ GoTo(Conn, "idle") /\ Fault /\ UNCHANGED lockQ
    /\ UNCHANGED <<msg, spool, fate, sends>>

\* The read loop ends, with an error (run_cloud retries) or because the gateway closed
\* the stream (run_cloud returns); the worker is cancelled wherever it is.
session_ends ==
    /\ pc[Conn] = "read"
    /\ \E l \in {"idle", "ended"} :
          pc' = [a \in Actor |-> IF a = Conn THEN l ELSE IF a = Worker THEN "idle" ELSE pc[a]]
    /\ fate' = [m \in Msg |-> IF msg[Worker] = m THEN "cancelled" ELSE fate[m]]
    /\ msg' = [msg EXCEPT ![Worker] = NoItem]
    /\ lockQ' = RemoveFirst(lockQ, Worker)
    /\ UNCHANGED <<spool, sends>> /\ Fault

\* The daemon stops and starts again on the same disk.
crash ==
    /\ pc' = [a \in Actor |-> "idle"] /\ msg' = [p \in Publisher |-> NoItem]
    /\ lockQ' = <<>> /\ spool' = Opened(spool.rows)
    /\ fate' = [m \in Msg |-> IF fate[m] = "hand" THEN "crashed" ELSE fate[m]]
    /\ UNCHANGED sends /\ Fault

Step(a) ==
    \/ flush_start(a) \/ flush_peek(a) \/ flush_send(a) \/ flush_pop(a) \/ flush_end(a)
    \/ a \in Publisher /\ (publish(a) \/ trim(a) \/ keep(a))

Next ==
    \/ \E p \in Publisher : enqueue_cloud(p)
    \/ \E a \in Actor : Step(a)
    \/ connect \/ send_cloud_event \/ session_ends \/ crash

\* Every coroutine that can go on does: the event loop is fair, and a send or an
\* operation of the database ends one way or another.
Fairness == \A a \in Actor : WF_vars(Step(a))

Spec == Init /\ [][Next]_vars /\ Fairness

----------------------------------------------------------------------------
(* Properties *)

TypeOK ==
    /\ pc \in [Actor -> {"idle", "lock", "flush", "resend", "corrupt", "pop", "flushed",
                         "publish", "spool", "append", "event", "read", "ended"}]
    /\ msg \in [Publisher -> Msg \cup {NoItem}]
    /\ lockQ \in Seq(Actor)
    /\ spool.rows \in Seq(Msg \cup {Bad}) /\ spool.length \in Nat
    /\ fate \in [Msg -> {"new", "hand", "kept", "sent"} \cup Given]
    /\ sends \in Seq(Msg) /\ faults \in 0 .. MaxFaults

\* A message is nowhere any more and was never sent.
Gone(m) ==
    /\ fate[m] # "new" /\ m \notin ToSet(spool.rows) /\ m \notin ToSet(sends)
    /\ \A p \in Publisher : msg[p] # m

\* An append deletes what it has spooled only with the limit 0, or with the limit 1 once an
\* append has failed: it leaves the count at 1 without a row.
MayEvict == MaxLen = 0 \/ (MaxLen = 1 /\ faults > 0)

\* No message disappears for nothing: one that is gone was refused to the caller (QueueFull), or
\* counted as dropped or trimmed; or a failure took it, of which there is no count: its database
\* was recreated, its call ended by an exception of the stream or with the session, the daemon
\* crashed; or, at the limits 0 and 1, its own append deleted it.
NothingSilent ==
    \A m \in Msg : Gone(m) =>
       \/ fate[m] \in {"refused", "dropped", "trimmed"}
       \/ fate[m] \in {"wiped", "escaped", "cancelled", "crashed"} /\ faults > 0
       \/ fate[m] = "evicted" /\ MayEvict

\* While nothing fails, every message reaches the stream at most once and in the order
\* in which it was published, the spooled ones of an earlier run first.
OnceAndInOrder ==
    faults = 0 => \A i, j \in 1 .. Len(sends) : i < j => sends[i] < sends[j]

\* A message is sent again only for a failure: no more repetitions than failures.
RepetitionNeedsFailure == Len(sends) - Cardinality(ToSet(sends)) <= faults

\* Every call of enqueue_cloud returns, raises or is cancelled: the lock is never kept.
EnqueueReturns == \A p \in Publisher : (pc[p] # "idle") ~> (pc[p] = "idle")

\* The publisher implements the abstract outbox.
outbox == INSTANCE Outbox WITH
              Limit <- MaxLen,
              fresh <- {m \in Msg : fate[m] = "hand"},
              queue <- spool.rows,
              sent  <- ToSet(sends),
              lost  <- {m \in Msg : fate[m] \in Given}

RefinesOutbox == outbox!Spec
============================================================================
