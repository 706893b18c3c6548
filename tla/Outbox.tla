------------------------------- MODULE Outbox -------------------------------
(***************************************************************************)
(* What the cloud publisher of the daemon promises, whatever the threads of  *)
(* control: a message accepted is sent at once or queued; the queue is       *)
(* served from its head; a message leaves the queue only after it was sent,  *)
(* or as its oldest when room is needed, or with all others when the         *)
(* storage fails; without room for two, the queue may keep none of what it   *)
(* takes.  A message may be sent more than once.                             *)
(***************************************************************************)
EXTENDS Naturals, Sequences, SequencesExt

CONSTANTS Limit,  \* room in the queue
          Msg,    \* messages
          Bad     \* rows that are no message and are skipped

VARIABLES fresh,  \* accepted, neither sent nor queued yet
          queue,  \* the persistent queue
          sent,   \* handed to the cloud at least once
          lost    \* given up

vars == <<fresh, queue, sent, lost>>

Init ==
    /\ fresh = {} /\ sent = {} /\ lost = {}
    /\ queue \in Seq(Msg \cup {Bad})

Accept(m) ==
    /\ m \notin fresh \cup sent \cup lost \cup ToSet(queue)
    /\ \/ fresh' = fresh \cup {m} /\ lost' = lost
       \/ lost' = lost \cup {m} /\ fresh' = fresh
    /\ UNCHANGED <<queue, sent>>

Send(m) ==
    /\ m \in fresh \/ (queue # <<>> /\ m = Head(queue))
    /\ sent' = sent \cup {m} /\ fresh' = fresh \ {m}
    /\ UNCHANGED <<queue, lost>>

Settle ==
    /\ queue # <<>> /\ Head(queue) \in sent \cup {Bad}
    /\ queue' = Tail(queue)
    /\ UNCHANGED <<fresh, sent, lost>>

Trim ==
    /\ queue # <<>>
    /\ queue' = Tail(queue) /\ lost' = lost \cup ({Head(queue)} \ (sent \cup {Bad}))
    /\ UNCHANGED <<fresh, sent>>

\* A message is queued; with a limit of 0 or 1 the k oldest may go, and it with them.
Keep(m) ==
    /\ m \in fresh /\ fresh' = fresh \ {m}
    /\ \E k \in IF Limit > 1 THEN {0} ELSE 0 .. Len(queue) + 1 :
          /\ queue' = SubSeq(Append(queue, m), k + 1, Len(queue) + 1)
          /\ lost' = lost \cup ((ToSet(Append(queue, m)) \ ToSet(queue')) \ (sent \cup {Bad}))
    /\ UNCHANGED sent

\* Accepted messages are given up: no storage, an exception, a crash of the daemon.
GiveUp(ms) ==
    /\ ms \subseteq fresh /\ fresh' = fresh \ ms /\ lost' = lost \cup ms
    /\ UNCHANGED <<queue, sent>>

\* The storage fails and is recreated empty; a message being stored may then be kept
\* or be given up too.
Wipe(ms) ==
    /\ queue # <<>> /\ ms \subseteq fresh /\ fresh' = fresh \ ms
    /\ LET gone == ToSet(queue) \ (sent \cup {Bad})
       IN \/ queue' = <<>> /\ lost' = lost \cup gone \cup ms
          \/ \E m \in ms : queue' = <<m>> /\ lost' = lost \cup gone
    /\ UNCHANGED sent

Next ==
    \/ \E m \in Msg : Accept(m) \/ Send(m) \/ Keep(m)
    \/ Settle \/ Trim
    \/ \E ms \in SUBSET fresh : GiveUp(ms) \/ Wipe(ms)

Spec == Init /\ [][Next]_vars
============================================================================
