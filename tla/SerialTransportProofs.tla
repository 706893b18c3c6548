----------------------- MODULE SerialTransportProofs -----------------------
(***************************************************************************)
(* Proofs about SerialTransport, for any tasks, commands, console payloads   *)
(* and bounds.                                                              *)
(*                                                                         *)
(* The flow lock, the jobs of the actors and the console are stated as       *)
(* predicates of values, so that the lemmas about one operation serve every  *)
(* action that performs it: a flush is part of a console request, of CMD_XON *)
(* and of the return from send().                                           *)
(***************************************************************************)
EXTENDS SerialTransport, QueueLemmas

Place == {"idle", "lock", "gate", "woken", "wait", "backoff", "service", "leaving"}
Job == Command \cup {"STATUS_ACK", "RESPONSE", "REFUSAL", "reset", None}
Fate == {"new", "in", "delivered", "dropped", "refused", "cancelled"}
Conn == {"up", "lost", "ended", "raised", "down", "escaped"}

\* What the read loop writes without the lock.
Reply == {"STATUS_ACK", "RESPONSE", "REFUSAL"}

\* Inside send(), past the lock: InFlight for the program counters p and the jobs j.
Tracked(p, j, a) == p[a] \in {"gate", "woken", "wait", "backoff"} /\ j[a] \in Command

\* The actors that wait for the lock or hold it.
Engaged(p, j) == {a \in Actor : p[a] = "lock" \/ Tracked(p, j, a)}

\* What an actor does agrees with where it is, and with the payload in its hands.
JobFits(a, p, j, h) ==
    /\ p[a] \in {"idle", "leaving"} => j[a] = None
    /\ p[a] = "leaving" => a = Run
    /\ p[a] = "service" => (a = Run /\ j[a] = None) \/ (a = Loop /\ j[a] \in Reply \cup {None})
    /\ p[a] = "lock" => j[a] \in Command \cup {"reset"}
    /\ p[a] \in {"wait", "backoff"} => j[a] \in Command
    /\ p[a] \in {"gate", "woken"} =>
          j[a] \in Command \/ (a = Loop /\ j[a] \in Reply)
    /\ j[a] = "reset" => a = Run /\ p[a] = "lock"
    /\ h[a] # None => j[a] = "CMD_CONSOLE_WRITE"

\* A payload is in the queue q once, in the hands h of one actor, or in neither, and its
\* fate f tells which.
Accounted(q, h, f) ==
    /\ \A i, k \in 1 .. Len(q) : q[i] = q[k] => i = k
    /\ \A a, c \in Actor : h[a] # None /\ h[c] # None /\ h[a].buf = h[c].buf => a = c
    /\ \A i \in 1 .. Len(q), a \in Actor : h[a] # None => h[a].buf # q[i]
    /\ \A i \in 1 .. Len(q) : f[q[i]] = "in"
    /\ \A a \in Actor : h[a] # None => f[h[a].buf] = "in"
    /\ \A b \in Buffer : f[b] = "in" =>
          (\E i \in 1 .. Len(q) : q[i] = b) \/ (\E a \in Actor : h[a] # None /\ h[a].buf = b)

LockOrdered == Lists(lockQ, Engaged(pc, job))
JobsFit == \A a \in Actor : JobFits(a, pc, job, held)
ConsoleAccounted == Accounted(queue, held, fate)

\* SequentialFlow, and that an actor pauses only if an attempt is left.
OneInFlight ==
    /\ \A a \in Actor : Tracked(pc, job, a) =>
          /\ lockQ # <<>> /\ Head(lockQ) = a
          /\ current # None /\ current.cmd = job[a]
          /\ pc[a] = "backoff" => current.attempts < MaxAttempts
    /\ current # None => \E a \in Actor : Tracked(pc, job, a)

\* From on_serial_disconnected to the end of reset() the link is not paused.
Closing == job[Run] = "reset" => conn = "ended" /\ txAllowed

IInv ==
    /\ TypeOK /\ LockOrdered /\ JobsFit /\ ConsoleAccounted /\ OneInFlight
    /\ Closing /\ PauseEndsWithConnection
----------------------------------------------------------------------------
(* The console *)

\* A payload is popped into the empty hands of an actor.
LEMMA Popped ==
    ASSUME NEW q \in Seq(Buffer), q # <<>>, NEW h \in [Actor -> Holding \cup {None}], NEW f,
           NEW a \in Actor, h[a] = None, NEW x \in Holding, x.buf = Head(q),
           Accounted(q, h, f)
    PROVE  Accounted(Tail(q), [h EXCEPT ![a] = x], f)
<1> DEFINE r == Tail(q)
           g == [h EXCEPT ![a] = x]
           b == Head(q)
<1>1. /\ b = q[1] /\ 1 \in 1 .. Len(q) /\ Len(r) \in Nat
      /\ \A i \in 1 .. Len(r) : i + 1 \in 1 .. Len(q) /\ r[i] = q[i + 1]
      /\ \A i \in 1 .. Len(q) : i = 1 \/ (i - 1 \in 1 .. Len(r) /\ r[i - 1] = q[i])
  BY TailIndex
<1>2. /\ g[a] = x /\ x # None /\ x.buf = b
      /\ \A c \in Actor : c # a => g[c] = h[c]
  <2>1. x # None
    BY SerialNames
  <2> QED BY <2>1
<1> HIDE DEF r, g, b
<1>3. \A i \in 1 .. Len(r) : r[i] # b
  <2>1. SUFFICES ASSUME NEW i \in 1 .. Len(r) PROVE r[i] # b
    OBVIOUS
  <2>2. i + 1 # 1 /\ i + 1 \in 1 .. Len(q) /\ r[i] = q[i + 1]
    BY <1>1
  <2> QED BY <1>1, <2>2 DEF Accounted
<1>4. ASSUME NEW i \in 1 .. Len(r), NEW k \in 1 .. Len(r), r[i] = r[k]
      PROVE  i = k
  <2>1. i + 1 = k + 1
    BY <1>1, <1>4 DEF Accounted
  <2> QED BY <2>1
<1>5. \A c, e \in Actor : g[c] # None /\ g[e] # None /\ g[c].buf = g[e].buf => c = e
  BY <1>1, <1>2 DEF Accounted
<1>6. \A i \in 1 .. Len(r), c \in Actor : g[c] # None => g[c].buf # r[i]
  <2>1. SUFFICES ASSUME NEW i \in 1 .. Len(r), NEW c \in Actor, g[c] # None
                 PROVE  g[c].buf # r[i]
    OBVIOUS
  <2>2. i + 1 \in 1 .. Len(q) /\ r[i] = q[i + 1]
    BY <1>1
  <2> QED BY <1>2, <1>3, <2>1, <2>2 DEF Accounted
<1>7. /\ \A i \in 1 .. Len(r) : f[r[i]] = "in"
      /\ \A c \in Actor : g[c] # None => f[g[c].buf] = "in"
  <2>1. \A i \in 1 .. Len(r) : f[r[i]] = "in"
    BY <1>1 DEF Accounted
  <2>2. ASSUME NEW c \in Actor, g[c] # None PROVE f[g[c].buf] = "in"
    <3>1. CASE c = a
      BY <1>1, <1>2, <3>1 DEF Accounted
    <3>2. CASE c # a
      BY <1>2, <2>2, <3>2 DEF Accounted
    <3> QED BY <3>1, <3>2
  <2> QED BY <2>1, <2>2
<1>8. ASSUME NEW c \in Buffer, f[c] = "in"
      PROVE  (\E i \in 1 .. Len(r) : r[i] = c) \/ (\E e \in Actor : g[e] # None /\ g[e].buf = c)
  <2>1. CASE \E i \in 1 .. Len(q) : q[i] = c
    BY <1>1, <1>2, <2>1
  <2>2. CASE \E e \in Actor : h[e] # None /\ h[e].buf = c
    BY <1>2, <2>2
  <2> QED BY <1>8, <2>1, <2>2 DEF Accounted
<1>9. Accounted(r, g, f)
  BY <1>4, <1>5, <1>6, <1>7, <1>8 DEF Accounted
<1> QED BY <1>9 DEF r, g

\* A payload in the hands of an actor comes to its end: delivered, refused or cancelled.
LEMMA Ended ==
    ASSUME NEW q \in Seq(Buffer), NEW h \in [Actor -> Holding \cup {None}],
           NEW f \in [Buffer -> Fate], NEW a \in Actor, h[a] # None, Accounted(q, h, f),
           NEW end \in Fate, end # "in"
    PROVE  Accounted(q, [h EXCEPT ![a] = None], [f EXCEPT ![h[a].buf] = end])
<1> DEFINE g == [h EXCEPT ![a] = None]
           e == [f EXCEPT ![h[a].buf] = end]
           b == h[a].buf
<1>1. /\ b \in Buffer /\ g[a] = None /\ \A c \in Actor : c # a => g[c] = h[c]
      /\ e[b] = end /\ \A c \in Buffer : c # b => e[c] = f[c]
      /\ b = h[a].buf
  BY DEF Holding
<1>2. /\ \A i \in 1 .. Len(q) : q[i] \in Buffer
      /\ \A c \in Actor : h[c] # None => h[c].buf \in Buffer
  BY DEF Holding
<1> HIDE DEF g, e, b
<1>3. /\ \A i \in 1 .. Len(q) : e[q[i]] = "in"
      /\ \A c \in Actor : g[c] # None => e[g[c].buf] = "in"
  BY <1>1, <1>2 DEF Accounted
<1>4. \A c \in Buffer : e[c] = "in" =>
         (\E i \in 1 .. Len(q) : q[i] = c) \/ (\E k \in Actor : g[k] # None /\ g[k].buf = c)
  BY <1>1 DEF Accounted
<1>5. Accounted(q, g, e)
  BY <1>1, <1>3, <1>4 DEF Accounted
<1> QED BY <1>5 DEF g, e, b

\* The oldest payload of the queue is dropped.
LEMMA OldestDropped ==
    ASSUME NEW q \in Seq(Buffer), q # <<>>, NEW h \in [Actor -> Holding \cup {None}],
           NEW f \in [Buffer -> Fate], Accounted(q, h, f)
    PROVE  Accounted(Tail(q), h, [f EXCEPT ![Head(q)] = "dropped"])
<1> DEFINE r == Tail(q)
           b == Head(q)
           e == [f EXCEPT ![b] = "dropped"]
<1>1. /\ b = q[1] /\ b \in Buffer /\ 1 \in 1 .. Len(q) /\ r \in Seq(Buffer) /\ Len(r) \in Nat
      /\ \A i \in 1 .. Len(r) : i + 1 \in 1 .. Len(q) /\ r[i] = q[i + 1]
      /\ \A i \in 1 .. Len(q) : i = 1 \/ (i - 1 \in 1 .. Len(r) /\ r[i - 1] = q[i])
  BY TailIndex
<1>2. /\ e[b] = "dropped" /\ \A c \in Buffer : c # b => e[c] = f[c]
      /\ \A c \in Actor : h[c] # None => h[c].buf \in Buffer
  BY <1>1 DEF Holding
<1> HIDE DEF r, b, e
<1>3. \A i \in 1 .. Len(r) : r[i] # b /\ r[i] \in Buffer
  <2>1. SUFFICES ASSUME NEW i \in 1 .. Len(r) PROVE r[i] # b /\ r[i] \in Buffer
    OBVIOUS
  <2>2. i + 1 # 1 /\ i + 1 \in 1 .. Len(q) /\ r[i] = q[i + 1]
    BY <1>1
  <2> QED BY <1>1, <2>2 DEF Accounted
<1>4. ASSUME NEW i \in 1 .. Len(r), NEW k \in 1 .. Len(r), r[i] = r[k]
      PROVE  i = k
  <2>1. i + 1 = k + 1
    BY <1>1, <1>4 DEF Accounted
  <2> QED BY <2>1
<1>5. \A i \in 1 .. Len(r), c \in Actor : h[c] # None => h[c].buf # r[i]
  BY <1>1 DEF Accounted
<1>6. /\ \A i \in 1 .. Len(r) : e[r[i]] = "in"
      /\ \A c \in Actor : h[c] # None => e[h[c].buf] = "in"
  BY <1>1, <1>2, <1>3 DEF Accounted
<1>7. \A c \in Buffer : e[c] = "in" =>
         (\E i \in 1 .. Len(r) : r[i] = c) \/ (\E k \in Actor : h[k] # None /\ h[k].buf = c)
  <2>1. SUFFICES ASSUME NEW c \in Buffer, e[c] = "in"
                 PROVE  (\E i \in 1 .. Len(r) : r[i] = c)
                        \/ (\E k \in Actor : h[k] # None /\ h[k].buf = c)
    OBVIOUS
  <2>2. c # b /\ f[c] = "in"
    BY <1>2, <2>1
  <2> QED BY <1>1, <2>2 DEF Accounted
<1>8. Accounted(r, h, e)
  BY <1>4, <1>5, <1>6, <1>7 DEF Accounted
<1> QED BY <1>8 DEF r, b, e

\* The newest payload of the queue is dropped.
LEMMA NewestDropped ==
    ASSUME NEW q \in Seq(Buffer), q # <<>>, NEW h \in [Actor -> Holding \cup {None}],
           NEW f \in [Buffer -> Fate], Accounted(q, h, f)
    PROVE  /\ SubSeq(q, 1, Len(q) - 1) \in Seq(Buffer)
           /\ Len(SubSeq(q, 1, Len(q) - 1)) = Len(q) - 1 /\ q[Len(q)] \in Buffer
           /\ Accounted(SubSeq(q, 1, Len(q) - 1), h, [f EXCEPT ![q[Len(q)]] = "dropped"])
<1> DEFINE n == Len(q)
           r == SubSeq(q, 1, n - 1)
           b == q[n]
           e == [f EXCEPT ![b] = "dropped"]
<1>1. n \in Nat /\ n \in 1 .. n /\ b \in Buffer
  OBVIOUS
<1>2. r \in Seq(Buffer) /\ Len(r) = n - 1 /\ \A i \in 1 .. Len(r) : i \in 1 .. n /\ r[i] = q[i]
  <2>1. 1 \in Int /\ n - 1 \in Int /\ \A i \in 1 .. n - 1 : q[i] \in Buffer
    BY <1>1
  <2>2. /\ r \in Seq(Buffer) /\ Len(r) = IF 1 <= n - 1 THEN n - 1 - 1 + 1 ELSE 0
        /\ \A i \in 1 .. n - 1 - 1 + 1 : r[i] = q[1 + i - 1]
    BY <2>1, SubSeqProperties
  <2> HIDE DEF n, r
  <2>3. Len(r) = n - 1
    BY <1>1, <2>2
  <2>4. \A i \in 1 .. n - 1 : i \in 1 .. n /\ r[i] = q[i]
    BY <1>1, <2>2
  <2> QED BY <2>2, <2>3, <2>4
<1>3. /\ e[b] = "dropped" /\ \A c \in Buffer : c # b => e[c] = f[c]
      /\ \A c \in Actor : h[c] # None => h[c].buf \in Buffer
      /\ \A i \in 1 .. n : q[i] \in Buffer
  BY <1>1 DEF Holding
<1>4. b = q[n] /\ n = Len(q)
  OBVIOUS
<1> HIDE DEF r, b, e, n
<1>5. \A i \in 1 .. Len(r) : r[i] # b /\ r[i] \in Buffer
  BY <1>1, <1>2, <1>3, <1>4 DEF Accounted
<1>6. \A i, k \in 1 .. Len(r) : r[i] = r[k] => i = k
  BY <1>2, <1>4 DEF Accounted
<1>7. \A i \in 1 .. Len(r), c \in Actor : h[c] # None => h[c].buf # r[i]
  BY <1>2, <1>4 DEF Accounted
<1>8. /\ \A i \in 1 .. Len(r) : e[r[i]] = "in"
      /\ \A c \in Actor : h[c] # None => e[h[c].buf] = "in"
  BY <1>1, <1>2, <1>3, <1>4, <1>5 DEF Accounted
<1>9. \A c \in Buffer : e[c] = "in" =>
         (\E i \in 1 .. Len(r) : r[i] = c) \/ (\E k \in Actor : h[k] # None /\ h[k].buf = c)
  <2>1. SUFFICES ASSUME NEW c \in Buffer, e[c] = "in",
                        ~ \E k \in Actor : h[k] # None /\ h[k].buf = c
                 PROVE  \E i \in 1 .. Len(r) : r[i] = c
    OBVIOUS
  <2>2. c # b /\ f[c] = "in"
    BY <1>3, <2>1
  <2>3. PICK i \in 1 .. n : q[i] = c
    BY <1>4, <2>1, <2>2 DEF Accounted
  <2>4. i \in 1 .. Len(r)
    BY <1>1, <1>2, <1>4, <2>2, <2>3
  <2> QED BY <1>2, <2>3, <2>4
<1>10. Accounted(r, h, e)
  BY <1>6, <1>7, <1>8, <1>9 DEF Accounted
<1> QED BY <1>1, <1>2, <1>10 DEF r, b, e, n

\* A new payload is queued.
LEMMA Added ==
    ASSUME NEW q \in Seq(Buffer), NEW h \in [Actor -> Holding \cup {None}],
           NEW f \in [Buffer -> Fate], NEW b \in Buffer, f[b] # "in", Accounted(q, h, f)
    PROVE  Accounted(Append(q, b), h, [f EXCEPT ![b] = "in"])
<1> DEFINE r == Append(q, b)
           e == [f EXCEPT ![b] = "in"]
<1>1. /\ Len(r) = Len(q) + 1 /\ Len(q) \in Nat
      /\ Len(q) + 1 \in 1 .. Len(r) /\ r[Len(q) + 1] = b
      /\ \A i \in 1 .. Len(r) : (i \in 1 .. Len(q) /\ r[i] = q[i]) \/ i = Len(q) + 1
      /\ \A i \in 1 .. Len(q) : i \in 1 .. Len(r) /\ r[i] = q[i]
  BY AppendIndex
<1>2. /\ e[b] = "in" /\ \A c \in Buffer : c # b => e[c] = f[c]
      /\ \A c \in Actor : h[c] # None => h[c].buf \in Buffer
      /\ \A i \in 1 .. Len(q) : q[i] \in Buffer
  BY DEF Holding
<1> HIDE DEF r, e
<1>3. /\ \A i \in 1 .. Len(q) : q[i] # b
      /\ \A c \in Actor : h[c] # None => h[c].buf # b
  BY DEF Accounted
<1>4. \A i, k \in 1 .. Len(r) : r[i] = r[k] => i = k
  BY <1>1, <1>3 DEF Accounted
<1>5. \A i \in 1 .. Len(r), c \in Actor : h[c] # None => h[c].buf # r[i]
  BY <1>1, <1>3 DEF Accounted
<1>6. /\ \A i \in 1 .. Len(r) : e[r[i]] = "in"
      /\ \A c \in Actor : h[c] # None => e[h[c].buf] = "in"
  BY <1>1, <1>2, <1>3 DEF Accounted
<1>7. \A c \in Buffer : e[c] = "in" =>
         (\E i \in 1 .. Len(r) : r[i] = c) \/ (\E k \in Actor : h[k] # None /\ h[k].buf = c)
  BY <1>1, <1>2 DEF Accounted
<1>8. Accounted(r, h, e)
  BY <1>4, <1>5, <1>6, <1>7 DEF Accounted
<1> QED BY <1>8 DEF r, e

\* A payload goes back from the hands of an actor to the front of the queue.
LEMMA PutBack ==
    ASSUME NEW q \in Seq(Buffer), NEW h \in [Actor -> Holding \cup {None}],
           NEW f \in [Buffer -> Fate], NEW a \in Actor, h[a] # None, Accounted(q, h, f)
    PROVE  Accounted(<<h[a].buf>> \o q, [h EXCEPT ![a] = None], f)
<1> DEFINE b == h[a].buf
           r == <<b>> \o q
           g == [h EXCEPT ![a] = None]
<1>1. b \in Buffer /\ g[a] = None /\ \A c \in Actor : c # a => g[c] = h[c]
  BY DEF Holding
<1>2. /\ Len(r) = Len(q) + 1 /\ Len(q) \in Nat /\ 1 \in 1 .. Len(r) /\ r[1] = b
      /\ \A i \in 1 .. Len(r) : i = 1 \/ (i - 1 \in 1 .. Len(q) /\ r[i] = q[i - 1])
      /\ \A i \in 1 .. Len(q) : i + 1 \in 1 .. Len(r) /\ r[i + 1] = q[i]
  BY <1>1, PrependIndex
<1>3. b = h[a].buf
  OBVIOUS
<1> HIDE DEF b, r, g
<1>4. /\ \A i \in 1 .. Len(q) : q[i] # b
      /\ \A c \in Actor : g[c] # None => g[c].buf # b
  BY <1>1, <1>3 DEF Accounted
<1>5. ASSUME NEW i \in 1 .. Len(r), NEW k \in 1 .. Len(r), r[i] = r[k]
      PROVE  i = k
  <2>1. CASE i = 1 \/ k = 1
    BY <1>2, <1>4, <1>5, <2>1
  <2>2. CASE i # 1 /\ k # 1
    <3>1. i - 1 = k - 1
      BY <1>2, <1>5, <2>2 DEF Accounted
    <3> QED BY <3>1
  <2> QED BY <2>1, <2>2
<1>6. \A c, k \in Actor : g[c] # None /\ g[k] # None /\ g[c].buf = g[k].buf => c = k
  BY <1>1 DEF Accounted
<1>7. ASSUME NEW i \in 1 .. Len(r)
      PROVE  f[r[i]] = "in" /\ \A c \in Actor : g[c] # None => g[c].buf # r[i]
  <2>1. CASE i = 1
    BY <1>2, <1>3, <1>4, <2>1 DEF Accounted
  <2>2. CASE i # 1
    <3>1. i - 1 \in 1 .. Len(q) /\ r[i] = q[i - 1]
      BY <1>2, <2>2
    <3> QED BY <1>1, <3>1 DEF Accounted
  <2> QED BY <2>1, <2>2
<1>8. \A c \in Actor : g[c] # None => f[g[c].buf] = "in"
  BY <1>1 DEF Accounted
<1>9. ASSUME NEW c \in Buffer, f[c] = "in"
      PROVE  (\E i \in 1 .. Len(r) : r[i] = c) \/ (\E k \in Actor : g[k] # None /\ g[k].buf = c)
  <2>1. CASE \E i \in 1 .. Len(q) : q[i] = c
    <3>1. PICK i \in 1 .. Len(q) : q[i] = c
      BY <2>1
    <3>2. i + 1 \in 1 .. Len(r) /\ r[i + 1] = c
      BY <1>2, <3>1
    <3> QED BY <3>2
  <2>2. CASE \E k \in Actor : h[k] # None /\ h[k].buf = c
    BY <1>1, <1>2, <1>3, <2>2
  <2> QED BY <1>9, <2>1, <2>2 DEF Accounted
<1>10. Accounted(r, g, f)
  BY <1>5, <1>6, <1>7, <1>8, <1>9 DEF Accounted
<1> QED BY <1>10 DEF b, r, g
\* The next chunk of a payload: the payload stays in the same hands.
LEMMA NextChunk ==
    ASSUME NEW q, NEW h \in [Actor -> Holding \cup {None}], NEW f, NEW a \in Actor,
           h[a] # None, h[a].left > 1, Accounted(q, h, f)
    PROVE  /\ [h EXCEPT ![a].left = @ - 1] \in [Actor -> Holding \cup {None}]
           /\ [h EXCEPT ![a].left = @ - 1][a] # None
           /\ \A c \in Actor : c # a => [h EXCEPT ![a].left = @ - 1][c] = h[c]
           /\ Accounted(q, [h EXCEPT ![a].left = @ - 1], f)
<1> DEFINE g == [h EXCEPT ![a].left = @ - 1]
           x == [h[a] EXCEPT !.left = @ - 1]
<1>1. x \in Holding /\ x.buf = h[a].buf
  <2>1. h[a] \in Holding
    OBVIOUS
  <2>2. h[a].left - 1 \in 1 .. NumChunks
    BY <2>1, SerialConstants DEF Holding
  <2> QED BY <2>1, <2>2 DEF Holding
<1>2. x # None
  BY <1>1, SerialNames
<1>3. g = [h EXCEPT ![a] = x]
  OBVIOUS
<1> HIDE DEF x
<1>4. /\ g \in [Actor -> Holding \cup {None}] /\ g[a] = x
      /\ \A c \in Actor : c # a => g[c] = h[c]
  BY <1>1, <1>3
<1> HIDE DEF g
<1>5. \A c \in Actor : (g[c] # None <=> h[c] # None) /\ (h[c] # None => g[c].buf = h[c].buf)
  BY <1>1, <1>2, <1>4
<1>6. Accounted(q, g, f)
  BY <1>5 DEF Accounted
<1> QED BY <1>2, <1>4, <1>6 DEF g

----------------------------------------------------------------------------
(* The actors and the lock *)

\* Actor a has moved, from the program counters p and the lock's queue w without it, to a
\* place outside the lock or to the end of the queue.
Moved(a, p, w) ==
    /\ pc' \in [Actor -> Place] /\ job' \in [Actor -> Job]
    /\ held' \in [Actor -> Holding \cup {None}] /\ lockQ' \in Seq(Actor)
    /\ LockOrdered' /\ JobsFit'
    /\ \A c \in Actor : c # a => pc'[c] = p[c] /\ job'[c] = job[c]
    /\ ~Tracked(pc', job', a) /\ lockQ' \in {w, Append(w, a)}

\* A move of one actor keeps the lock's queue and the jobs in order.
LEMMA ActorGoes ==
    ASSUME NEW a \in Actor, NEW p \in [Actor -> Place], NEW w \in Seq(Actor),
           job \in [Actor -> Job], held \in [Actor -> Holding \cup {None}],
           Lists(w, Engaged(p, job) \ {a}),
           \A c \in Actor : c # a => JobFits(c, p, job, held),
           NEW l \in Place, NEW k \in Job, NEW x \in Holding \cup {None},
           pc' = [p EXCEPT ![a] = l], job' = [job EXCEPT ![a] = k],
           held' = [held EXCEPT ![a] = x],
           \/ l = "lock" /\ lockQ' = Append(w, a)
           \/ l # "lock" /\ lockQ' = w,
           ~(l \in {"gate", "woken", "wait", "backoff"} /\ k \in Command),
           l \in {"idle", "leaving"} => k = None, l = "lock" => k \in Command \cup {"reset"},
           l = "leaving" => a = Run,
           l = "service" => (a = Run /\ k = None) \/ (a = Loop /\ k \in Reply \cup {None}),
           l \notin {"wait", "backoff"},
           l \in {"gate", "woken"} => a = Loop /\ k \in Reply,
           k = "reset" => a = Run /\ l = "lock",
           x # None => k = "CMD_CONSOLE_WRITE"
    PROVE  Moved(a, p, w) /\ job'[a] = k
<1>1. /\ pc' \in [Actor -> Place] /\ job' \in [Actor -> Job]
      /\ held' \in [Actor -> Holding \cup {None}]
      /\ pc'[a] = l /\ job'[a] = k /\ held'[a] = x
      /\ \A c \in Actor : c # a => pc'[c] = p[c] /\ job'[c] = job[c] /\ held'[c] = held[c]
  OBVIOUS
<1>2. ~Tracked(pc', job', a)
  BY <1>1 DEF Tracked
<1>3. JobsFit'
  <2>1. JobFits(a, pc', job', held')
    BY <1>1 DEF JobFits
  <2>2. ASSUME NEW c \in Actor, c # a PROVE JobFits(c, pc', job', held')
    BY <1>1, <2>2 DEF JobFits
  <2> QED BY <2>1, <2>2 DEF JobsFit, JobFits
<1>4. CASE l = "lock" /\ lockQ' = Append(w, a)
  <2>1. Engaged(pc', job') = (Engaged(p, job) \ {a}) \cup {a}
    BY <1>1, <1>4 DEF Engaged, Tracked
  <2> DEFINE S == Engaged(p, job) \ {a}
  <2>2. lockQ' \in Seq(Actor) /\ Lists(lockQ', Engaged(pc', job'))
    <3>1. a \notin S /\ Lists(w, S) /\ Engaged(pc', job') = S \cup {a}
      BY <2>1
    <3> HIDE DEF S
    <3>2. Append(w, a) \in Seq(Actor) /\ Lists(Append(w, a), S \cup {a})
      BY <3>1, ListsAppend
    <3> QED BY <1>4, <3>1, <3>2
  <2> QED BY <1>1, <1>2, <1>3, <1>4, <2>2 DEF Moved, LockOrdered, Engaged, Lists, Tracked
<1>5. CASE l # "lock" /\ lockQ' = w
  <2>1. Engaged(pc', job') = Engaged(p, job) \ {a}
    BY <1>1, <1>2, <1>5 DEF Engaged, Tracked
  <2>2. Lists(lockQ', Engaged(pc', job'))
    BY <1>5, <2>1
  <2> QED BY <1>1, <1>2, <1>3, <1>5, <2>2 DEF Moved, LockOrdered, Engaged, Lists, Tracked
<1> QED BY <1>4, <1>5

\* The end of a flush: the payload has left the hands of a.
LEMMA LeavesFlush ==
    ASSUME NEW a \in Actor, NEW p \in [Actor -> Place], NEW w \in Seq(Actor),
           NEW allowed \in BOOLEAN,
           job \in [Actor -> Job], held \in [Actor -> Holding \cup {None}],
           Lists(w, Engaged(p, job) \ {a}),
           \A c \in Actor : c # a => JobFits(c, p, job, held),
           AfterFlush(a, p, allowed), lockQ' = w, held' = [held EXCEPT ![a] = None]
    PROVE  Moved(a, p, w) /\ job'[a] # "reset"
<1>1. None \in Job /\ "STATUS_ACK" \in Job /\ "STATUS_ACK" \notin Command /\ None \notin Command
  BY SerialNames DEF Job
<1>2. CASE a = Loop /\ ~allowed
  <2>1. pc' = [p EXCEPT ![a] = "gate"] /\ job' = [job EXCEPT ![a] = "STATUS_ACK"]
    BY <1>2 DEF AfterFlush
  <2>2. "STATUS_ACK" \in Reply /\ "STATUS_ACK" # "reset"
    BY DEF Reply
  <2> QED BY <1>1, <1>2, <2>1, <2>2, ActorGoes DEF Place
<1>3. CASE ~(a = Loop /\ ~allowed)
  <2>1. pc' = [p EXCEPT ![a] = "idle"] /\ job' = [job EXCEPT ![a] = None]
    BY <1>3 DEF AfterFlush
  <2>2. None # "reset"
    BY SerialNames
  <2> QED BY <1>1, <2>1, <2>2, ActorGoes DEF Place
<1> QED BY <1>2, <1>3
\* One turn of _flush_console_queue: a payload is taken out and its first chunk asks for
\* the lock, or the flush ends.
LEMMA Flush ==
    ASSUME NEW a \in Actor, NEW p \in [Actor -> Place], NEW q \in Seq(Buffer),
           NEW w \in Seq(Actor), NEW allowed \in BOOLEAN, NEW f,
           job \in [Actor -> Job], held \in [Actor -> Holding \cup {None}],
           Lists(w, Engaged(p, job) \ {a}),
           \A c \in Actor : c # a => JobFits(c, p, job, held),
           Accounted(q, [held EXCEPT ![a] = None], f),
           flush_console_queue(a, p, q, w, allowed)
    PROVE  /\ Moved(a, p, w) /\ job'[a] # "reset"
           /\ queue' \in Seq(Buffer) /\ Len(queue') <= Len(q)
           /\ Accounted(queue', held', f)
<1>1. CASE q # <<>> /\ allowed /\ is_open
  <2> DEFINE x == [buf |-> Head(q), left |-> Chunks(Head(q))]
             h == [held EXCEPT ![a] = None]
  <2>1. /\ pc' = [p EXCEPT ![a] = "lock"] /\ job' = [job EXCEPT ![a] = "CMD_CONSOLE_WRITE"]
        /\ lockQ' = Append(w, a) /\ held' = [held EXCEPT ![a] = x] /\ queue' = Tail(q)
    BY <1>1 DEF flush_console_queue
  <2>2. Head(q) \in Buffer /\ Tail(q) \in Seq(Buffer) /\ Len(Tail(q)) = Len(q) - 1 /\ Len(q) \in Nat
    BY <1>1, TailIndex
  <2>3. x \in Holding /\ x.buf = Head(q)
    <3>1. Chunks(Head(q)) \in 1 .. NumChunks
      BY SerialConstants DEF Chunks
    <3> QED BY <2>2, <3>1 DEF Holding
  <2>4. h \in [Actor -> Holding \cup {None}] /\ h[a] = None
    OBVIOUS
  <2>5. [h EXCEPT ![a] = x] = [held EXCEPT ![a] = x]
    OBVIOUS
  <2> HIDE DEF x, h
  <2>6. Accounted(Tail(q), [h EXCEPT ![a] = x], f)
    BY <1>1, <2>3, <2>4, Popped DEF h
  <2>7. "CMD_CONSOLE_WRITE" \in Command /\ "CMD_CONSOLE_WRITE" \in Job
    BY SerialConstants DEF Command, Job
  <2>8. Moved(a, p, w) /\ job'[a] = "CMD_CONSOLE_WRITE"
    BY <2>1, <2>3, <2>7, ActorGoes DEF Place
  <2> QED BY <2>1, <2>2, <2>5, <2>6, <2>8
<1>2. CASE ~(q # <<>> /\ allowed /\ is_open)
  <2>1. /\ AfterFlush(a, p, allowed) /\ lockQ' = w /\ held' = [held EXCEPT ![a] = None]
        /\ queue' = q
    BY <1>2 DEF flush_console_queue
  <2>2. Moved(a, p, w) /\ job'[a] # "reset"
    BY <2>1, LeavesFlush
  <2> QED BY <2>1, <2>2
<1> QED BY <1>1, <1>2

\* The parts of the invariant in the vocabulary of the lemmas above.
LEMMA Parts ==
    ASSUME IInv
    PROVE  /\ pc \in [Actor -> Place] /\ job \in [Actor -> Job]
           /\ held \in [Actor -> Holding \cup {None}] /\ lockQ \in Seq(Actor)
           /\ queue \in Seq(Buffer) /\ Len(queue) <= QueueLimit /\ Len(queue) \in Nat
           /\ fate \in [Buffer -> Fate]
           /\ current \in PendingCommand \cup {None} /\ txAllowed \in BOOLEAN
           /\ conn \in Conn /\ synced \in BOOLEAN
           /\ Lists(lockQ, Engaged(pc, job))
           /\ \A a \in Actor : JobFits(a, pc, job, held)
           /\ Accounted(queue, held, fate)
  BY DEF IInv, TypeOK, Place, Job, Fate, Conn, LockOrdered, JobsFit, ConsoleAccounted

\* TypeOK in parts.
LEMMA TypeParts ==
    ASSUME pc \in [Actor -> Place], job \in [Actor -> Job],
           held \in [Actor -> Holding \cup {None}], lockQ \in Seq(Actor),
           queue \in Seq(Buffer), Len(queue) <= QueueLimit, fate \in [Buffer -> Fate],
           current \in PendingCommand \cup {None}, txAllowed \in BOOLEAN,
           conn \in Conn, synced \in BOOLEAN
    PROVE  TypeOK
  BY DEF TypeOK, Place, Job, Fate, Conn

\* The holder of the lock leaves send(): nothing is in flight.
LEMMA NothingInFlight ==
    ASSUME IInv, NEW a \in Actor, lockQ # <<>>, Head(lockQ) = a, current' = None,
           \A c \in Actor : c # a => pc'[c] = pc[c] /\ job'[c] = job[c],
           ~Tracked(pc', job', a)
    PROVE  OneInFlight'
<1>1. \A c \in Actor : ~Tracked(pc', job', c)
  <2>1. OneInFlight
    BY DEF IInv
  <2> QED BY <2>1 DEF OneInFlight, Tracked
<1> QED BY <1>1 DEF OneInFlight, Tracked

\* The holder of the lock goes on with command p.
LEMMA GoesOn ==
    ASSUME IInv, NEW a \in Actor, lockQ # <<>>, Head(lockQ) = a, job[a] \in Command,
           pc[a] = "lock" \/ Tracked(pc, job, a),
           NEW p \in PendingCommand, p.cmd = job[a],
           NEW l \in {"gate", "wait", "backoff"}, l = "backoff" => p.attempts < MaxAttempts,
           pc' = [pc EXCEPT ![a] = l], current' = p,
           UNCHANGED <<job, lockQ, queue, held, fate, link>>
    PROVE  IInv'
<1>1. /\ pc \in [Actor -> Place] /\ job \in [Actor -> Job]
      /\ held \in [Actor -> Holding \cup {None}] /\ lockQ \in Seq(Actor)
      /\ queue \in Seq(Buffer) /\ Len(queue) <= QueueLimit /\ fate \in [Buffer -> Fate]
      /\ txAllowed \in BOOLEAN
      /\ conn \in Conn /\ synced \in BOOLEAN
      /\ Lists(lockQ, Engaged(pc, job))
      /\ \A c \in Actor : JobFits(c, pc, job, held)
      /\ Accounted(queue, held, fate)
  BY Parts
<1>2. p # None
  BY SerialNames
<1>3. /\ pc' \in [Actor -> Place] /\ pc'[a] = l
      /\ \A c \in Actor : c # a => pc'[c] = pc[c]
  BY <1>1 DEF Place
<1>4. TypeOK'
  BY <1>1, <1>3 DEF link, TypeOK, Place, Job, Fate, Conn
<1>5. LockOrdered'
  <2>1. Engaged(pc', job) = Engaged(pc, job)
    BY <1>1, <1>3 DEF Engaged, Tracked
  <2>2. Lists(lockQ', Engaged(pc', job'))
    BY <1>1, <2>1
  <2> QED BY <2>2 DEF LockOrdered, Lists, Engaged, Tracked
<1>6. JobsFit'
  <2>1. \A c \in Actor : JobFits(c, pc', job, held)
    <3>1. JobFits(a, pc', job, held)
      <4>1. job[a] # "reset"
        BY SerialNames
      <4> QED BY <1>1, <1>3, <4>1 DEF JobFits
    <3>2. ASSUME NEW c \in Actor, c # a PROVE JobFits(c, pc', job, held)
      BY <1>1, <1>3, <3>2 DEF JobFits
    <3> QED BY <3>1, <3>2
  <2> QED BY <2>1 DEF JobsFit, JobFits
<1>7. ConsoleAccounted'
  BY <1>1 DEF ConsoleAccounted, Accounted
<1>8. OneInFlight'
  <2>1. OneInFlight
    BY DEF IInv
  <2>2. \A c \in Actor : c # a => ~Tracked(pc', job', c)
    BY <1>3, <2>1 DEF OneInFlight, Tracked
  <2>3. Tracked(pc', job', a)
    BY <1>3 DEF Tracked
  <2> QED BY <1>2, <1>3, <2>2, <2>3 DEF OneInFlight, Tracked
<1>9. Closing' /\ PauseEndsWithConnection'
  BY DEF IInv, Closing, PauseEndsWithConnection, link
<1> QED BY <1>4, <1>5, <1>6, <1>7, <1>8, <1>9 DEF IInv
\* A move, together with what it does to the console and the pending command.
LEMMA MovedIInv ==
    ASSUME NEW a \in Actor, NEW p, NEW w, Moved(a, p, w),
           queue' \in Seq(Buffer), Len(queue') <= QueueLimit, fate' \in [Buffer -> Fate],
           Accounted(queue', held', fate'),
           current' \in PendingCommand \cup {None}, txAllowed' \in BOOLEAN,
           conn' \in Conn, synced' \in BOOLEAN,
           OneInFlight', Closing', PauseEndsWithConnection'
    PROVE  IInv'
<1>1. TypeOK'
  BY DEF Moved, TypeOK, Place, Job, Fate, Conn
<1>2. ConsoleAccounted'
  BY DEF ConsoleAccounted, Accounted
<1> QED BY <1>1, <1>2 DEF IInv, Moved

\* send() returns to the holder of the lock, which goes on as its caller does.
LEMMA ReturnIInv ==
    ASSUME IInv, NEW a \in Actor, NEW result, lockQ # <<>>, Head(lockQ) = a,
           job[a] \in Command, Return(a, result), UNCHANGED link
    PROVE  IInv'
<1> DEFINE w == Tail(lockQ)
<1>1. /\ pc \in [Actor -> Place] /\ job \in [Actor -> Job]
      /\ held \in [Actor -> Holding \cup {None}] /\ lockQ \in Seq(Actor)
      /\ queue \in Seq(Buffer) /\ Len(queue) <= QueueLimit /\ Len(queue) \in Nat
      /\ fate \in [Buffer -> Fate] /\ txAllowed \in BOOLEAN
      /\ conn \in Conn /\ synced \in BOOLEAN
      /\ Lists(lockQ, Engaged(pc, job))
      /\ \A c \in Actor : JobFits(c, pc, job, held)
      /\ Accounted(queue, held, fate)
  BY Parts
<1>2. w \in Seq(Actor) /\ Lists(w, Engaged(pc, job) \ {a})
  BY <1>1, ListsTail
<1>3. current' = None
  BY DEF Return
<1>4. ASSUME Moved(a, pc, w), job'[a] # "reset", queue' \in Seq(Buffer),
             Len(queue') <= QueueLimit, fate' \in [Buffer -> Fate],
             Accounted(queue', held', fate')
      PROVE  IInv'
  <2>1. OneInFlight'
    BY <1>3, <1>4, NothingInFlight DEF Moved
  <2>2. Closing' /\ PauseEndsWithConnection'
    <3>1. Closing /\ PauseEndsWithConnection
      BY DEF IInv
    <3>2. job'[Run] = "reset" => job[Run] = "reset"
      BY <1>4 DEF Moved, Actor
    <3> QED BY <3>1, <3>2 DEF Closing, PauseEndsWithConnection, link
  <2>3. txAllowed' = txAllowed /\ conn' = conn /\ synced' = synced
    BY DEF link
  <2>4. current' \in PendingCommand \cup {None}
    BY <1>3
  <2> QED BY <1>1, <1>4, <2>1, <2>2, <2>3, <2>4, MovedIInv
<1>5. /\ job[a] # "reset" /\ None # "reset" /\ None \in Job /\ None \notin Command
  BY SerialNames DEF Job
<1>6. CASE /\ held[a] = None
           /\ \/ pc' = [pc EXCEPT ![a] = "idle"]
              \/ a = Run /\ pc' = [pc EXCEPT ![a] = "service"]
           /\ job' = [job EXCEPT ![a] = None] /\ lockQ' = w /\ UNCHANGED console
  <2>1. held' = [held EXCEPT ![a] = None] /\ queue' = queue /\ fate' = fate /\ held' = held
    BY <1>1, <1>6 DEF console
  <2>2. Moved(a, pc, w) /\ job'[a] = None
    BY <1>1, <1>2, <1>5, <1>6, <2>1, ActorGoes DEF Place
  <2> QED BY <1>1, <1>4, <1>5, <2>1, <2>2
<1>7. CASE /\ held[a] = None
           /\ flush_console_queue(a, pc, queue, w, txAllowed) /\ UNCHANGED fate
  <2>1. Accounted(queue, [held EXCEPT ![a] = None], fate)
    <3>1. [held EXCEPT ![a] = None] = held
      BY <1>1, <1>7
    <3> QED BY <1>1, <3>1
  <2>2. /\ Moved(a, pc, w) /\ job'[a] # "reset" /\ queue' \in Seq(Buffer)
        /\ Len(queue') <= Len(queue) /\ Accounted(queue', held', fate)
    BY <1>1, <1>2, <1>7, <2>1, Flush
  <2>3. Len(queue') <= QueueLimit
    BY <1>1, <2>2, SerialConstants
  <2> QED BY <1>1, <1>4, <1>7, <2>2, <2>3
<1>8. CASE /\ held[a] # None /\ held[a].left > 1
           /\ held' = [held EXCEPT ![a].left = @ - 1]
           /\ pc' = [pc EXCEPT ![a] = "lock"] /\ lockQ' = Append(w, a)
           /\ UNCHANGED <<job, queue, fate>>
  <2>1. /\ held' \in [Actor -> Holding \cup {None}] /\ held'[a] # None
        /\ \A c \in Actor : c # a => held'[c] = held[c]
        /\ Accounted(queue, held', fate)
    BY <1>1, <1>8, NextChunk, ZenonT(30)
  <2>2. /\ held' = [held EXCEPT ![a] = held'[a]] /\ held'[a] \in Holding \cup {None}
        /\ job' = [job EXCEPT ![a] = job[a]] /\ job[a] \in Job
    BY <1>1, <1>8, <2>1
  <2>3. job[a] = "CMD_CONSOLE_WRITE"
    BY <1>1, <1>8 DEF JobFits
  <2>4. Moved(a, pc, w) /\ job'[a] = job[a]
    BY <1>1, <1>2, <1>5, <1>8, <2>1, <2>2, <2>3, ActorGoes DEF Place
  <2> QED BY <1>1, <1>4, <1>5, <1>8, <2>1, <2>4
<1>9. CASE /\ held[a] # None /\ fate' = [fate EXCEPT ![held[a].buf] = "delivered"]
           /\ flush_console_queue(a, pc, queue, w, txAllowed)
  <2>1. Accounted(queue, [held EXCEPT ![a] = None], fate')
    BY <1>1, <1>9, Ended DEF Fate
  <2>2. /\ Moved(a, pc, w) /\ job'[a] # "reset" /\ queue' \in Seq(Buffer)
        /\ Len(queue') <= Len(queue) /\ Accounted(queue', held', fate')
    BY <1>1, <1>2, <1>9, <2>1, Flush, ZenonT(30)
  <2>3. Len(queue') <= QueueLimit
    BY <1>1, <2>2, SerialConstants
  <2>4. fate' \in [Buffer -> Fate]
    BY <1>1, <1>9 DEF Fate, Holding
  <2> QED BY <1>4, <2>2, <2>3, <2>4
<1>10. CASE held[a] # None /\ requeue(a, w)
  <2> DEFINE b == held[a].buf
  <2>1. /\ queue' = appendleft(queue, b)
        /\ fate' = IF Len(queue) < QueueLimit THEN fate
                   ELSE [fate EXCEPT ![queue[Len(queue)]] = "dropped"]
        /\ held' = [held EXCEPT ![a] = None] /\ lockQ' = w /\ AfterFlush(a, pc, txAllowed)
    BY <1>10 DEF requeue
  <2>2. Moved(a, pc, w) /\ job'[a] # "reset"
    BY <1>1, <1>2, <2>1, LeavesFlush
  <2>3. b \in Buffer
    BY <1>1, <1>10 DEF Holding
  <2>4. CASE Len(queue) < QueueLimit
    <3>1. queue' = <<b>> \o queue /\ fate' = fate
      BY <2>1, <2>4 DEF appendleft
    <3>2. Accounted(queue', held', fate')
      <4>1. Accounted(<<held[a].buf>> \o queue, [held EXCEPT ![a] = None], fate)
        BY <1>1, <1>10, PutBack
      <4> QED BY <2>1, <3>1, <4>1
    <3>3. queue' \in Seq(Buffer) /\ Len(queue') <= QueueLimit
      <4>1. queue' \in Seq(Buffer) /\ Len(queue') = Len(queue) + 1
        BY <1>1, <2>3, <3>1, PrependIndex
      <4> QED BY <1>1, <2>4, <4>1, SerialConstants
    <3> QED BY <1>1, <1>4, <2>2, <3>1, <3>2, <3>3
  <2>5. CASE ~(Len(queue) < QueueLimit)
    <3> DEFINE r == SubSeq(queue, 1, Len(queue) - 1)
               f == [fate EXCEPT ![queue[Len(queue)]] = "dropped"]
    <3>1. Len(queue) = QueueLimit /\ QueueLimit \in Nat /\ queue # <<>>
      BY <1>1, <2>5, SerialConstants
    <3>2. queue' = <<b>> \o r /\ fate' = f
      BY <2>1, <2>5, <3>1 DEF appendleft
    <3>3. /\ r \in Seq(Buffer) /\ Len(r) = Len(queue) - 1 /\ queue[Len(queue)] \in Buffer
          /\ Accounted(r, held, f)
      BY <1>1, <3>1, NewestDropped
    <3>4. f \in [Buffer -> Fate]
      BY <1>1 DEF Fate
    <3> HIDE DEF r, f
    <3>5. Accounted(queue', held', fate')
      <4>1. Accounted(<<held[a].buf>> \o r, [held EXCEPT ![a] = None], f)
        BY <1>1, <1>10, <3>3, <3>4, PutBack
      <4> QED BY <2>1, <3>2, <4>1
    <3>6. queue' \in Seq(Buffer) /\ Len(queue') <= QueueLimit
      <4>1. queue' \in Seq(Buffer) /\ Len(queue') = Len(r) + 1
        BY <2>3, <3>2, <3>3, PrependIndex
      <4> QED BY <3>1, <3>3, <4>1
    <3> QED BY <1>4, <2>2, <3>2, <3>4, <3>5, <3>6
  <2> QED BY <2>4, <2>5
<1> QED BY <1>6, <1>7, <1>8, <1>9, <1>10 DEF Return

\* send_raw inside send(): written, or send() returns.
LEMMA TransmitIInv ==
    ASSUME IInv, NEW a \in Actor, lockQ # <<>>, Head(lockQ) = a, job[a] \in Command,
           pc[a] = "lock" \/ Tracked(pc, job, a),
           NEW p \in PendingCommand, p.cmd = job[a],
           Transmit(a, p), UNCHANGED link
    PROVE  IInv'
<1>1. PICK ok \in BOOLEAN :
         IF ok THEN /\ pc' = [pc EXCEPT ![a] = "wait"] /\ current' = [p EXCEPT !.written = TRUE]
                    /\ UNCHANGED <<job, lockQ, queue, held, fate>>
         ELSE Return(a, "False")
  BY DEF Transmit
<1>2. CASE ok
  <2> DEFINE r == [p EXCEPT !.written = TRUE]
  <2>1. /\ pc' = [pc EXCEPT ![a] = "wait"] /\ current' = r
        /\ UNCHANGED <<job, lockQ, queue, held, fate, link>>
    BY <1>1, <1>2
  <2>2. r \in PendingCommand /\ r.cmd = job[a]
    BY DEF PendingCommand
  <2> HIDE DEF r
  <2> QED BY <2>1, <2>2, GoesOn
<1>3. CASE ~ok
  BY <1>1, <1>3, ReturnIInv
<1> QED BY <1>2, <1>3

\* _send_attempt: it waits for the gate, or transmits.
LEMMA SendAttemptIInv ==
    ASSUME IInv, NEW a \in Actor, lockQ # <<>>, Head(lockQ) = a, job[a] \in Command,
           pc[a] = "lock" \/ Tracked(pc, job, a),
           NEW p \in PendingCommand, p.cmd = job[a],
           send_attempt(a, p), UNCHANGED link
    PROVE  IInv'
<1>1. CASE is_open /\ ~txAllowed
  <2>1. /\ pc' = [pc EXCEPT ![a] = "gate"] /\ current' = p
        /\ UNCHANGED <<job, lockQ, queue, held, fate, link>>
    BY <1>1 DEF send_attempt
  <2> QED BY <2>1, GoesOn
<1>2. CASE ~(is_open /\ ~txAllowed)
  <2>1. Transmit(a, p)
    BY <1>2 DEF send_attempt
  <2> QED BY <2>1, TransmitIInv
<1> QED BY <1>1, <1>2
----------------------------------------------------------------------------
(* send() *)

\* An actor inside send() holds the lock, and _current is its command.
LEMMA Holder ==
    ASSUME IInv, NEW a \in Actor, Tracked(pc, job, a)
    PROVE  /\ lockQ # <<>> /\ Head(lockQ) = a /\ job[a] \in Command
           /\ current \in PendingCommand /\ current.cmd = job[a]
           /\ pc[a] = "backoff" => current.attempts < MaxAttempts
<1>1. OneInFlight /\ TypeOK
  BY DEF IInv
<1> QED BY <1>1 DEF OneInFlight, TypeOK, Tracked

\* The lock is acquired and attempt 1 starts.
LEMMA BeginIInv == ASSUME IInv, NEW a \in Actor, Begin(a) PROVE IInv'
<1> DEFINE p == [cmd |-> job[a], attempts |-> 1, success |-> "None",
                 empty |-> FALSE, completion |-> FALSE, failed |-> FALSE, written |-> FALSE]
<1>1. /\ pc[a] = "lock" /\ Head(lockQ) = a /\ job[a] \in Command
      /\ send_attempt(a, p) /\ UNCHANGED link
  BY DEF Begin
<1>2. p \in PendingCommand /\ p.cmd = job[a]
  <2>1. 1 \in 1 .. MaxAttempts
    BY SerialConstants
  <2> QED BY <1>1, <2>1 DEF PendingCommand
<1> HIDE DEF p
<1>3. lockQ # <<>>
  <2>1. a \in Engaged(pc, job)
    BY <1>1 DEF Engaged
  <2> QED BY <2>1, Parts DEF Lists
<1> QED BY <1>1, <1>2, <1>3, SendAttemptIInv

\* The gate opens, or its 30 s are over.
LEMMA PassGateIInv == ASSUME IInv, NEW a \in Actor, PassGate(a) PROVE IInv'
<1>1. Tracked(pc, job, a) /\ Transmit(a, current) /\ UNCHANGED link
  BY DEF PassGate, Tracked
<1> QED BY <1>1, Holder, TransmitIInv

\* Another attempt is due, or none is left.
LEMMA RetryIInv ==
    ASSUME IInv, NEW a \in Actor, Tracked(pc, job, a), Retry(a), UNCHANGED link
    PROVE  IInv'
<1>1. CASE current.attempts < MaxAttempts
  <2>1. /\ pc' = [pc EXCEPT ![a] = "backoff"] /\ current' = current
        /\ UNCHANGED <<job, lockQ, queue, held, fate, link>>
    BY <1>1 DEF Retry
  <2> QED BY <1>1, <2>1, Holder, GoesOn
<1>2. CASE ~(current.attempts < MaxAttempts)
  <2>1. Return(a, "False")
    BY <1>2 DEF Retry
  <2> QED BY <2>1, Holder, ReturnIInv
<1> QED BY <1>1, <1>2

\* An actor that awaits an answer is inside send().
LEMMA WaitsTracked == ASSUME IInv, NEW a \in Actor, pc[a] \in {"wait", "backoff"}
                      PROVE  Tracked(pc, job, a)
  BY Parts DEF JobFits, Tracked

\* completion is set.
LEMMA CompleteIInv == ASSUME IInv, NEW a \in Actor, Complete(a) PROVE IInv'
<1>1. pc[a] = "wait" /\ UNCHANGED link
      /\ ((\E result \in {"empty", "payload", "False"} : Return(a, result)) \/ Retry(a))
  BY DEF Complete
<1>2. Tracked(pc, job, a)
  BY <1>1, WaitsTracked
<1> QED BY <1>1, <1>2, Holder, ReturnIInv, RetryIInv

\* The answer does not come in time.
LEMMA ResponseTimeoutIInv == ASSUME IInv, NEW a \in Actor, ResponseTimeout(a) PROVE IInv'
  BY WaitsTracked, RetryIInv DEF ResponseTimeout

\* The pause before the next attempt is over; one is left.
LEMMA ResumeIInv == ASSUME IInv, NEW a \in Actor, Resume(a) PROVE IInv'
<1> DEFINE p == [current EXCEPT !.attempts = @ + 1, !.success = "None"]
<1>1. pc[a] = "backoff" /\ send_attempt(a, p) /\ UNCHANGED link
  BY DEF Resume
<1>2. Tracked(pc, job, a)
  BY <1>1, WaitsTracked
<1>3. /\ lockQ # <<>> /\ Head(lockQ) = a /\ job[a] \in Command
      /\ current \in PendingCommand /\ current.cmd = job[a] /\ current.attempts < MaxAttempts
  BY <1>1, <1>2, Holder
<1>4. p \in PendingCommand /\ p.cmd = job[a]
  <2>1. current.attempts + 1 \in 1 .. MaxAttempts
    BY <1>3, SerialConstants DEF PendingCommand
  <2> QED BY <1>3, <2>1 DEF PendingCommand
<1> HIDE DEF p
<1> QED BY <1>1, <1>2, <1>3, <1>4, SendAttemptIInv

----------------------------------------------------------------------------
(* Actors outside send() *)

\* Outside send(): idle, waiting for another service, or about to write without the lock.
Outside(a) ==
    \/ pc[a] \in {"idle", "leaving", "service"}
    \/ pc[a] \in {"gate", "woken"} /\ job[a] \in Reply

\* Such an actor is not in the lock's queue and has no payload in its hands.
LEMMA OutsideFree ==
    ASSUME IInv, NEW a \in Actor, Outside(a)
    PROVE  /\ Lists(lockQ, Engaged(pc, job) \ {a}) /\ ~Tracked(pc, job, a)
           /\ held[a] = None /\ [held EXCEPT ![a] = None] = held
           /\ Accounted(queue, [held EXCEPT ![a] = None], fate)
           /\ job[a] # "reset"
<1>1. /\ held \in [Actor -> Holding \cup {None}] /\ Lists(lockQ, Engaged(pc, job))
      /\ Accounted(queue, held, fate) /\ JobFits(a, pc, job, held)
  BY Parts
<1>2. job[a] \notin Command /\ job[a] # "reset"
  BY <1>1, SerialNames DEF Outside, JobFits, Reply
<1>3. ~Tracked(pc, job, a)
  BY <1>2 DEF Tracked
<1>4. a \notin Engaged(pc, job)
  BY <1>3 DEF Engaged, Outside
<1>5. Engaged(pc, job) \ {a} = Engaged(pc, job)
  BY <1>4
<1>6. held[a] = None
  <2>1. "CMD_CONSOLE_WRITE" \in Command
    BY SerialConstants DEF Command
  <2> QED BY <1>1, <1>2, <2>1 DEF JobFits
<1>7. [held EXCEPT ![a] = None] = held
  BY <1>1, <1>6
<1> QED BY <1>1, <1>2, <1>3, <1>5, <1>6, <1>7

\* Program counters that differ from the present ones at most in actors released from the
\* gate.
Released(p) ==
    /\ p \in [Actor -> Place]
    /\ \A c \in Actor : p[c] = pc[c] \/ (pc[c] = "gate" /\ p[c] = "woken")

\* Neither the lock nor the jobs notice the release.
LEMMA ReleasedFits ==
    ASSUME IInv, NEW p, Released(p)
    PROVE  Engaged(p, job) = Engaged(pc, job) /\ \A c \in Actor : JobFits(c, p, job, held)
<1>1. \A c \in Actor : JobFits(c, pc, job, held)
  BY Parts
<1>2. Engaged(p, job) = Engaged(pc, job)
  BY DEF Released, Engaged, Tracked
<1>3. ASSUME NEW c \in Actor PROVE JobFits(c, p, job, held)
  BY <1>1, <1>3 DEF Released, JobFits
<1> QED BY <1>2, <1>3

\* The event loop before and after serial_tx_allowed.set().
LEMMA Releases ==
    ASSUME IInv
    PROVE  Released(pc) /\ Released(Woken(pc)) /\ \A c \in Actor : Woken(pc)[c] = "idle" <=> pc[c] = "idle"
<1>1. pc \in [Actor -> Place]
  BY Parts
<1> QED BY <1>1 DEF Released, Woken, Place

\* The pending command is the same, but perhaps marked.
Same(c1, c2) ==
    /\ c2 \in PendingCommand \cup {None} /\ (c2 = None <=> c1 = None)
    /\ c1 # None => c2.cmd = c1.cmd /\ c2.attempts = c1.attempts

\* A step of an actor outside send() takes nothing away from the one inside.
LEMMA OutsideIInv ==
    ASSUME IInv, NEW a \in Actor, Outside(a), NEW p, Released(p), Moved(a, p, lockQ),
           queue' \in Seq(Buffer), Len(queue') <= QueueLimit, fate' \in [Buffer -> Fate],
           Accounted(queue', held', fate'), Same(current, current'),
           txAllowed' \in BOOLEAN, conn' \in Conn,
           synced' \in BOOLEAN, Closing', PauseEndsWithConnection'
    PROVE  IInv'
<1>1. ~Tracked(pc, job, a) /\ OneInFlight /\ lockQ \in Seq(Actor)
  BY OutsideFree, Parts DEF IInv
<1>2. \A c \in Actor : Tracked(pc', job', c) <=> Tracked(pc, job, c)
  BY <1>1 DEF Moved, Released, Tracked
<1>3. \A c \in Actor : Tracked(pc, job, c) =>
         job'[c] = job[c] /\ (pc'[c] = "backoff" => pc[c] = "backoff")
  BY <1>1 DEF Moved, Released
<1>4. lockQ # <<>> => lockQ' # <<>> /\ Head(lockQ') = Head(lockQ)
  <2>1. lockQ' = lockQ \/ lockQ' = Append(lockQ, a)
    BY DEF Moved
  <2> QED BY <1>1, <2>1
<1>5. OneInFlight'
  <2>1. \A c \in Actor : Tracked(pc', job', c) =>
           /\ lockQ' # <<>> /\ Head(lockQ') = c
           /\ current' # None /\ current'.cmd = job'[c]
           /\ pc'[c] = "backoff" => current'.attempts < MaxAttempts
    BY <1>1, <1>2, <1>3, <1>4 DEF OneInFlight, Same
  <2>2. current' # None => \E c \in Actor : Tracked(pc', job', c)
    BY <1>1, <1>2 DEF OneInFlight, Same
  <2> QED BY <2>1, <2>2 DEF OneInFlight, Tracked
<1>6. current' \in PendingCommand \cup {None}
  BY DEF Same
<1> QED BY <1>5, <1>6, MovedIInv

\* The pending command is left alone.
LEMMA SameStays == ASSUME IInv PROVE Same(current, current)
  BY Parts DEF Same

\* _correlate_frame marks the pending command, and does no more to it.
LEMMA Correlated ==
    ASSUME IInv, NEW f \in Frame
    PROVE  Same(current, correlate_frame(current, f))
<1>1. current \in PendingCommand \cup {None} /\ Same(current, current)
  BY Parts, SameStays
<1>2. CASE correlate_frame(current, f) = current
  BY <1>1, <1>2
<1>3. CASE current # None /\ correlate_frame(current, f) = mark_success(current, f)
  <2> DEFINE m == mark_success(current, f)
  <2>1. m \in PendingCommand /\ m.cmd = current.cmd /\ m.attempts = current.attempts
    BY <1>1, <1>3 DEF mark_success, PendingCommand, Frame
  <2>2. m # None
    BY <2>1, SerialNames
  <2> HIDE DEF m
  <2>3. Same(current, m)
    BY <1>3, <2>1, <2>2 DEF Same
  <2> QED BY <1>3, <2>3 DEF m
<1>4. CASE current # None /\ correlate_frame(current, f) = mark_failure(current)
  <2> DEFINE m == mark_failure(current)
  <2>1. m \in PendingCommand /\ m.cmd = current.cmd /\ m.attempts = current.attempts
    BY <1>1, <1>4 DEF mark_failure, PendingCommand
  <2>2. m # None
    BY <2>1, SerialNames
  <2> HIDE DEF m
  <2>3. Same(current, m)
    BY <1>4, <2>1, <2>2 DEF Same
  <2> QED BY <1>4, <2>3 DEF m
<1> QED BY <1>2, <1>3, <1>4 DEF correlate_frame

\* No other actor than Run, and no other job than "reset", touches Closing.
LEMMA ClosingKept ==
    ASSUME IInv, UNCHANGED <<txAllowed, conn>>,
           job'[Run] = "reset" => job[Run] = "reset"
    PROVE  Closing' /\ PauseEndsWithConnection'
<1>1. Closing /\ PauseEndsWithConnection
  BY DEF IInv
<1> QED BY <1>1 DEF Closing, PauseEndsWithConnection

\* An actor outside send() goes to place l for job k and leaves the console alone.
LEMMA OutsideGoes ==
    ASSUME IInv, NEW a \in Actor, Outside(a), NEW p, Released(p), NEW l \in Place, NEW k \in Job,
           pc' = [p EXCEPT ![a] = l], job' = [job EXCEPT ![a] = k],
           \/ l = "lock" /\ lockQ' = Append(lockQ, a)
           \/ l # "lock" /\ lockQ' = lockQ,
           UNCHANGED console,
           l \notin {"wait", "backoff"}, l \in {"idle", "leaving"} => k = None,
           l = "leaving" => a = Run,
           l = "service" => (a = Run /\ k = None) \/ (a = Loop /\ k \in Reply \cup {None}),
           l = "lock" => k \in Command \cup {"reset"},
           l \in {"gate", "woken"} => a = Loop /\ k \in Reply,
           k = "reset" => a = Run /\ l = "lock",
           Same(current, current'), txAllowed' \in BOOLEAN,
           conn' \in Conn, synced' \in BOOLEAN,
           Closing', PauseEndsWithConnection'
    PROVE  IInv'
<1>1. /\ job \in [Actor -> Job] /\ held \in [Actor -> Holding \cup {None}]
      /\ lockQ \in Seq(Actor) /\ queue \in Seq(Buffer) /\ Len(queue) <= QueueLimit
      /\ fate \in [Buffer -> Fate] /\ Accounted(queue, held, fate)
  BY Parts
<1>2. queue' = queue /\ held' = held /\ fate' = fate
  BY DEF console
<1>3. Lists(lockQ, Engaged(pc, job) \ {a}) /\ [held EXCEPT ![a] = None] = held
  BY OutsideFree
<1>4. /\ Lists(lockQ, Engaged(p, job) \ {a}) /\ p \in [Actor -> Place]
      /\ \A c \in Actor : JobFits(c, p, job, held)
  BY <1>3, ReleasedFits DEF Released
<1>5. ~(l \in {"gate", "woken", "wait", "backoff"} /\ k \in Command)
  BY SerialNames DEF Reply
<1>6. None \in Holding \cup {None} /\ held' = [held EXCEPT ![a] = None]
  BY <1>2, <1>3
<1>7. Moved(a, p, lockQ)
  <2> DEFINE x == None
  <2>1. x \in Holding \cup {None} /\ held' = [held EXCEPT ![a] = x] /\ (x # None => k = "CMD_CONSOLE_WRITE")
    BY <1>6
  <2> QED BY <1>1, <1>4, <1>5, <2>1, ActorGoes
<1> QED BY <1>1, <1>2, <1>7, OutsideIInv

\* Only the connection changes.
LEMMA ConnOnly ==
    ASSUME IInv, UNCHANGED <<pc, job, lockQ, current, txAllowed, synced, console>>,
           conn \in {"up", "lost"}, conn' \in {"lost", "ended"}
    PROVE  IInv'
<1>1. conn' \in Conn /\ conn' # "down" /\ job[Run] # "reset"
  BY DEF IInv, Closing, Conn
<1>2. TypeOK' /\ LockOrdered' /\ JobsFit'
  <2>1. TypeOK /\ LockOrdered /\ JobsFit
    BY DEF IInv
  <2>2. TypeOK'
    BY <1>1, <2>1 DEF TypeOK, console, Conn
  <2>3. LockOrdered' /\ JobsFit'
    BY <2>1 DEF LockOrdered, JobsFit, Lists, Engaged, Tracked, JobFits, console
  <2> QED BY <2>2, <2>3
<1>3. ConsoleAccounted'
  BY DEF IInv, ConsoleAccounted, Accounted, console
<1>4. OneInFlight'
  BY DEF IInv, OneInFlight, Tracked
<1>5. Closing' /\ PauseEndsWithConnection'
  BY <1>1 DEF Closing, PauseEndsWithConnection
<1> QED BY <1>2, <1>3, <1>4, <1>5 DEF IInv
----------------------------------------------------------------------------
(* The actions outside send() *)

\* A cloud request asks for the lock.
LEMMA RequestIInv == ASSUME IInv, NEW t \in Task, Request(t) PROVE IInv'
<1>1. PICK k \in Requests : Enqueue(t, k)
  BY DEF Request
<1>2. /\ pc' = [pc EXCEPT ![t] = "lock"] /\ job' = [job EXCEPT ![t] = k]
      /\ lockQ' = Append(lockQ, t) /\ pc[t] = "idle" /\ UNCHANGED <<current, console, link>>
  BY <1>1 DEF Enqueue, Request
<1>3. k \in Command /\ k \in Job /\ k # "reset" /\ t \in Actor /\ t # Run /\ Outside(t)
  BY <1>2, SerialConstants, SerialNames DEF Command, Job, Actor, Outside
<1>4. Released(pc) /\ Same(current, current') /\ job \in [Actor -> Job]
  BY <1>2, Releases, SameStays, Parts
<1>5. Closing' /\ PauseEndsWithConnection'
  <2>1. UNCHANGED <<txAllowed, conn>> /\ job'[Run] = job[Run]
    BY <1>2, <1>3, <1>4 DEF link, Actor
  <2> QED BY <2>1, ClosingKept
<1>6. txAllowed' \in BOOLEAN /\ conn' \in Conn /\ synced' \in BOOLEAN
  BY <1>2, Parts DEF link
<1> QED BY <1>2, <1>3, <1>4, <1>5, <1>6, OutsideGoes DEF Place

\* A console payload is queued, the oldest one dropped if the deque is full, and flushed.
LEMMA ConsoleRequestIInv == ASSUME IInv, NEW t \in Task, ConsoleRequest(t) PROVE IInv'
<1>1. PICK b \in Buffer :
        /\ fate[b] = "new"
        /\ fate' = [c \in Buffer |-> IF c = b THEN "in"
                                     ELSE IF Len(queue) = QueueLimit /\ c = Head(queue) THEN "dropped"
                                     ELSE fate[c]]
        /\ flush_console_queue(t, pc, append(queue, b), lockQ, txAllowed)
  BY DEF ConsoleRequest
<1>2. pc[t] = "idle" /\ UNCHANGED <<current, link>>
  BY DEF ConsoleRequest
<1>3. t \in Actor /\ t # Run /\ Outside(t)
  BY <1>2, SerialConstants DEF Actor, Outside
<1>4. /\ pc \in [Actor -> Place] /\ job \in [Actor -> Job]
      /\ held \in [Actor -> Holding \cup {None}] /\ lockQ \in Seq(Actor)
      /\ queue \in Seq(Buffer) /\ Len(queue) <= QueueLimit /\ Len(queue) \in Nat
      /\ fate \in [Buffer -> Fate] /\ txAllowed \in BOOLEAN
      /\ \A c \in Actor : JobFits(c, pc, job, held)
      /\ Accounted(queue, held, fate)
  BY Parts
<1>5. /\ Lists(lockQ, Engaged(pc, job) \ {t}) /\ held[t] = None
      /\ [held EXCEPT ![t] = None] = held
  BY <1>3, OutsideFree
<1>6. fate' \in [Buffer -> Fate]
  BY <1>1, <1>4 DEF Fate
<1>7. /\ append(queue, b) \in Seq(Buffer) /\ Len(append(queue, b)) <= QueueLimit
      /\ Accounted(append(queue, b), held, fate')
  <2>1. CASE Len(queue) < QueueLimit
    <3>1. append(queue, b) = Append(queue, b)
      BY <2>1 DEF append
    <3>2. fate' = [fate EXCEPT ![b] = "in"]
      <4>1. Len(queue) # QueueLimit
        BY <1>4, <2>1, SerialConstants
      <4> QED BY <1>1, <1>4, <4>1
    <3>3. Append(queue, b) \in Seq(Buffer) /\ Len(Append(queue, b)) = Len(queue) + 1
      BY <1>4, AppendIndex
    <3>4. Accounted(Append(queue, b), held, [fate EXCEPT ![b] = "in"])
      BY <1>1, <1>3, <1>4, Added
    <3>5. Len(Append(queue, b)) <= QueueLimit
      BY <1>4, <2>1, <3>3, SerialConstants
    <3> QED BY <3>1, <3>2, <3>3, <3>4, <3>5
  <2>2. CASE ~(Len(queue) < QueueLimit)
    <3> DEFINE r == Tail(queue)
               e == [fate EXCEPT ![Head(queue)] = "dropped"]
    <3>1. Len(queue) = QueueLimit /\ queue # <<>> /\ QueueLimit \in Nat
      BY <1>4, <2>2, SerialConstants
    <3>2. append(queue, b) = Append(r, b)
      BY <2>2 DEF append
    <3>3. /\ Head(queue) = queue[1] /\ Head(queue) \in Buffer /\ 1 \in 1 .. Len(queue)
          /\ r \in Seq(Buffer) /\ Len(r) = Len(queue) - 1
      BY <1>4, <3>1, TailIndex
    <3>4. Head(queue) # b
      BY <1>1, <1>3, <1>4, <3>3 DEF Accounted
    <3>5. e \in [Buffer -> Fate] /\ e[b] # "in"
      BY <1>1, <1>4, <3>3, <3>4 DEF Fate
    <3>6. fate' = [e EXCEPT ![b] = "in"]
      BY <1>1, <1>4, <3>1, <3>3, <3>4
    <3>7. Accounted(r, held, e)
      BY <1>3, <1>4, <3>1, OldestDropped
    <3> HIDE DEF r, e
    <3>8. Accounted(Append(r, b), held, [e EXCEPT ![b] = "in"])
      BY <1>4, <3>3, <3>5, <3>7, Added
    <3>9. Append(r, b) \in Seq(Buffer) /\ Len(Append(r, b)) = Len(r) + 1
      BY <3>3, AppendIndex
    <3>10. Len(Append(r, b)) <= QueueLimit
      BY <3>1, <3>3, <3>9
    <3> QED BY <3>2, <3>6, <3>8, <3>9, <3>10
  <2> QED BY <2>1, <2>2
<1> DEFINE q == append(queue, b)
<1>8. /\ flush_console_queue(t, pc, q, lockQ, txAllowed) /\ q \in Seq(Buffer)
      /\ Len(q) <= QueueLimit /\ Accounted(q, [held EXCEPT ![t] = None], fate')
  BY <1>1, <1>5, <1>7
<1> HIDE DEF q
<1>9. /\ Moved(t, pc, lockQ) /\ job'[t] # "reset" /\ queue' \in Seq(Buffer)
      /\ Len(queue') <= Len(q) /\ Accounted(queue', held', fate')
  <2> DEFINE f == fate'
  <2>1. Accounted(q, [held EXCEPT ![t] = None], f)
    BY <1>8
  <2> HIDE DEF f
  <2>2. /\ Moved(t, pc, lockQ) /\ job'[t] # "reset" /\ queue' \in Seq(Buffer)
        /\ Len(queue') <= Len(q) /\ Accounted(queue', held', f)
    <3>1. /\ t \in Actor /\ pc \in [Actor -> Place] /\ q \in Seq(Buffer) /\ lockQ \in Seq(Actor)
          /\ txAllowed \in BOOLEAN /\ job \in [Actor -> Job]
          /\ held \in [Actor -> Holding \cup {None}] /\ Lists(lockQ, Engaged(pc, job) \ {t})
          /\ \A c \in Actor : c # t => JobFits(c, pc, job, held)
          /\ flush_console_queue(t, pc, q, lockQ, txAllowed)
      BY <1>3, <1>4, <1>5, <1>8
    <3> QED BY <2>1, <3>1, Flush
  <2> QED BY <2>2 DEF f
<1>10. Len(queue') <= QueueLimit
  BY <1>8, <1>9, SerialConstants
<1>11. Closing' /\ PauseEndsWithConnection'
  <2>1. UNCHANGED <<txAllowed, conn>> /\ job'[Run] = job[Run]
    BY <1>2, <1>3, <1>9 DEF link, Moved, Actor
  <2> QED BY <2>1, ClosingKept
<1>12. /\ txAllowed' \in BOOLEAN /\ conn' \in Conn /\ synced' \in BOOLEAN
       /\ Released(pc) /\ Same(current, current')
  BY <1>2, Parts, Releases, SameStays DEF link
<1> QED BY <1>3, <1>6, <1>9, <1>10, <1>11, <1>12, OutsideIInv

\* What the handlers write outside the lock.
LEMMA RegistryWrites ==
    \A w \in UNION {setup_mcu_registry[c] : c \in DOMAIN setup_mcu_registry} :
        w \in Reply
  BY DEF setup_mcu_registry, on_mcu_console_write, on_mcu_datastore_put, on_mcu_datastore_get,
         on_mcu_mailbox_push, on_mcu_mailbox_available, on_mcu_mailbox_read,
         on_mcu_mailbox_processed, on_mcu_file_write, on_mcu_file_read, on_mcu_file_remove,
         on_mcu_process_run, on_mcu_process_poll, on_mcu_process_kill, unsupported, Reply

\* The read loop, outside send(), goes on to place l with w to write, whatever becomes of the
\* connection it serves.
LEMMA LoopGoes ==
    ASSUME IInv, Outside(Loop), NEW l, NEW w \in Reply \cup {None},
           \/ l = "idle" /\ w = None
           \/ l = "gate" /\ w # None
           \/ l = "service",
           pc' = [pc EXCEPT ![Loop] = l], job' = [job EXCEPT ![Loop] = w],
           txAllowed' \in BOOLEAN, Same(current, current'), UNCHANGED <<lockQ, console, synced>>,
           \/ UNCHANGED <<txAllowed, conn>>
           \/ conn \in {"up", "lost"} /\ conn' \in {"up", "lost", "ended", "raised"}
    PROVE  IInv'
<1>1. /\ job \in [Actor -> Job] /\ synced' \in BOOLEAN /\ conn' \in Conn
      /\ Loop \in Actor /\ Run \in Actor /\ Loop # Run
  BY Parts, SerialConstants DEF Actor, Conn
<1>2. Released(pc) /\ w \in Job /\ w # "reset" /\ l \in Place /\ lockQ' = lockQ
  BY Releases, SerialNames DEF Job, Reply, Place
<1>3. Closing' /\ PauseEndsWithConnection'
  <2>1. job'[Run] = job[Run] /\ Closing
    BY <1>1 DEF IInv
  <2>2. CASE UNCHANGED <<txAllowed, conn>>
    BY <2>1, <2>2, ClosingKept
  <2>3. CASE conn \in {"up", "lost"} /\ conn' \in {"up", "lost", "ended", "raised"}
    BY <2>1, <2>3 DEF Closing, PauseEndsWithConnection
  <2> QED BY <2>2, <2>3
<1>4. /\ l = "gate" => w \in Reply
      /\ l # "lock" /\ l # "woken" /\ l # "leaving" /\ l \notin {"wait", "backoff"}
  OBVIOUS
<1> QED BY <1>1, <1>2, <1>3, <1>4, OutsideGoes

\* The read loop writes w, or waits for the gate to write it.
LEMMA WritesIInv ==
    ASSUME IInv, pc[Loop] = "idle", conn = "up", NEW w \in Reply,
           NEW allowed \in BOOLEAN, Writes(w, pc, allowed), txAllowed' \in BOOLEAN,
           Same(current, current'), UNCHANGED <<lockQ, console, conn, synced>>
    PROVE  IInv'
<1>1. /\ pc \in [Actor -> Place] /\ job \in [Actor -> Job] /\ JobFits(Loop, pc, job, held)
      /\ Loop \in Actor /\ conn' \in {"up", "lost", "ended", "raised"}
  BY Parts DEF Actor
<1>2. Outside(Loop) /\ job[Loop] = None /\ w # None
  BY <1>1, SerialNames DEF Outside, JobFits, Reply
<1>3. CASE allowed
  <2>1. pc' = [pc EXCEPT ![Loop] = "idle"] /\ job' = [job EXCEPT ![Loop] = None]
    BY <1>1, <1>2, <1>3 DEF Writes
  <2> QED BY <1>1, <1>2, <2>1, LoopGoes
<1>4. CASE ~allowed
  <2>1. pc' = [pc EXCEPT ![Loop] = "gate"] /\ job' = [job EXCEPT ![Loop] = w]
    BY <1>4 DEF Writes
  <2> QED BY <1>1, <1>2, <2>1, LoopGoes
<1> QED BY <1>3, <1>4

\* The read loop waits outside the link before it writes w.
LEMMA AwaitsIInv ==
    ASSUME IInv, pc[Loop] = "idle", NEW w \in Reply \cup {None}, Awaits(w),
           Same(current, current'), UNCHANGED <<lockQ, txAllowed, console, conn, synced>>
    PROVE  IInv'
<1>1. Outside(Loop) /\ txAllowed' \in BOOLEAN
  BY Parts DEF Outside
<1> QED BY <1>1, LoopGoes DEF Awaits

\* CMD_XON: the gate opens, and the read loop itself flushes the console.
LEMMA XonIInv ==
    ASSUME IInv, pc[Loop] = "idle", conn = "up", handle_mcu_xon,
           Same(current, current'), UNCHANGED <<conn, synced>>
    PROVE  IInv'
<1> DEFINE p == Woken(pc)
<1>1. /\ job \in [Actor -> Job] /\ held \in [Actor -> Holding \cup {None}]
      /\ lockQ \in Seq(Actor) /\ queue \in Seq(Buffer) /\ Len(queue) <= QueueLimit
      /\ Len(queue) \in Nat /\ fate \in [Buffer -> Fate]
      /\ conn' \in Conn /\ synced' \in BOOLEAN
      /\ Loop \in Actor /\ Run \in Actor /\ Loop # Run
  BY Parts, SerialConstants DEF Actor
<1>2. Outside(Loop)
  BY DEF Outside
<1>3. /\ Lists(lockQ, Engaged(pc, job) \ {Loop})
      /\ Accounted(queue, [held EXCEPT ![Loop] = None], fate)
  BY <1>1, <1>2, OutsideFree
<1>4. Released(p)
  BY Releases
<1>5. /\ flush_console_queue(Loop, p, queue, lockQ, TRUE) /\ fate' = fate
      /\ txAllowed' = TRUE
  BY DEF handle_mcu_xon
<1> HIDE DEF p
<1>6. /\ Lists(lockQ, Engaged(p, job) \ {Loop}) /\ p \in [Actor -> Place]
      /\ \A c \in Actor : JobFits(c, p, job, held)
  BY <1>3, <1>4, ReleasedFits DEF Released
<1>7. /\ Moved(Loop, p, lockQ) /\ job'[Loop] # "reset" /\ queue' \in Seq(Buffer)
      /\ Len(queue') <= Len(queue) /\ Accounted(queue', held', fate)
  <2>1. \A c \in Actor : c # Loop => JobFits(c, p, job, held)
    BY <1>6
  <2>2. TRUE \in BOOLEAN
    OBVIOUS
  <2> QED BY <1>1, <1>3, <1>5, <1>6, <2>1, <2>2, Flush
<1>8. Len(queue') <= QueueLimit
  BY <1>1, <1>7, SerialConstants
<1>9. Closing' /\ PauseEndsWithConnection'
  <2>1. job[Run] # "reset"
    BY DEF IInv, Closing
  <2>2. job'[Run] = job[Run]
    BY <1>1, <1>7 DEF Moved
  <2> QED BY <1>5, <2>1, <2>2 DEF Closing, PauseEndsWithConnection
<1>10. txAllowed' \in BOOLEAN /\ fate' \in [Buffer -> Fate] /\ Accounted(queue', held', fate')
  BY <1>1, <1>5, <1>7
<1> QED BY <1>1, <1>2, <1>4, <1>7, <1>8, <1>9, <1>10, OutsideIInv

\* One packet of the read loop.
LEMMA ReadIInv == ASSUME IInv, Read PROVE IInv'
<1>1. PICK f \in Frame : current' = correlate_frame(current, f) /\ handle_mcu_frame(f)
  BY DEF Read
<1>2. pc[Loop] = "idle" /\ conn = "up" /\ UNCHANGED <<conn, synced>>
  BY DEF Read
<1>3. Same(current, current')
  BY <1>1, Correlated
<1>4. txAllowed \in BOOLEAN
  BY Parts
<1>5. CASE UNCHANGED <<pc, job, lockQ, txAllowed, console>>
  <2>1. Writes("STATUS_ACK", pc, TRUE)
    BY <1>5 DEF Writes
  <2>2. /\ txAllowed' \in BOOLEAN /\ TRUE \in BOOLEAN /\ UNCHANGED <<lockQ, console, conn, synced>>
        /\ "STATUS_ACK" \in Reply
    BY <1>2, <1>4, <1>5 DEF Reply
  <2> QED BY <1>2, <1>3, <2>1, <2>2, WritesIInv
<1>6. CASE \E w \in Reply :
              Writes(w, pc, txAllowed) /\ UNCHANGED <<lockQ, txAllowed, console>>
  <2>1. PICK w \in Reply :
              Writes(w, pc, txAllowed) /\ UNCHANGED <<lockQ, txAllowed, console>>
    BY <1>6
  <2>2. txAllowed' \in BOOLEAN /\ UNCHANGED <<lockQ, console, conn, synced>>
    BY <1>2, <1>4, <2>1
  <2> QED BY <1>2, <1>3, <1>4, <2>1, <2>2, WritesIInv
<1>7. CASE \E w \in Reply \cup {None} : Awaits(w) /\ UNCHANGED <<lockQ, txAllowed, console>>
  BY <1>2, <1>3, <1>7, AwaitsIInv
<1>8. CASE handle_mcu_xoff
  <2>1. /\ Writes("STATUS_ACK", pc, FALSE) /\ txAllowed' = FALSE
        /\ UNCHANGED <<lockQ, console, conn, synced>>
    BY <1>2, <1>8 DEF handle_mcu_xoff, acknowledge
  <2>2. /\ txAllowed' \in BOOLEAN /\ FALSE \in BOOLEAN
        /\ "STATUS_ACK" \in Reply
    BY <2>1 DEF Reply
  <2> QED BY <1>2, <1>3, <2>1, <2>2, WritesIInv
<1>9. CASE handle_mcu_xon
  BY <1>2, <1>3, <1>9, XonIInv
<1>10. \/ UNCHANGED <<pc, job, lockQ, txAllowed, console>>
       \/ \E w \in Reply : Writes(w, pc, txAllowed) /\ UNCHANGED <<lockQ, txAllowed, console>>
       \/ \E w \in Reply \cup {None} : Awaits(w) /\ UNCHANGED <<lockQ, txAllowed, console>>
       \/ handle_mcu_xoff \/ handle_mcu_xon
  <2>1. "STATUS_ACK" \in Reply
    BY DEF Reply
  <2> QED BY <1>1, <2>1, RegistryWrites DEF handle_mcu_frame, acknowledge
<1> QED BY <1>5, <1>6, <1>7, <1>8, <1>9, <1>10

\* The read loop is past the gate, with its frame written or given up, and goes on.
LEMMA LoopWrites ==
    ASSUME IInv, pc[Loop] \in {"gate", "woken"}, job[Loop] \in Reply,
           \/ pc' = [pc EXCEPT ![Loop] = "gate"] /\ job' = [job EXCEPT ![Loop] = "STATUS_ACK"]
           \/ pc' = [pc EXCEPT ![Loop] = "idle"] /\ job' = [job EXCEPT ![Loop] = None],
           UNCHANGED <<lockQ, current, link, console>>
    PROVE  IInv'
<1>1. Outside(Loop) /\ Same(current, current') /\ txAllowed' \in BOOLEAN
  BY SameStays, Parts DEF Outside, link
<1>2. "STATUS_ACK" \in Reply /\ "STATUS_ACK" # None /\ UNCHANGED <<lockQ, console, synced, txAllowed, conn>>
  BY SerialNames DEF Reply, link
<1> QED BY <1>1, <1>2, LoopGoes

\* The handler has what it waited for.
LEMMA ServedIInv == ASSUME IInv, Served PROVE IInv'
<1>1. /\ pc[Loop] = "service" /\ UNCHANGED <<lockQ, current, link, console>>
      /\ \/ /\ job[Loop] # None /\ pc' = [pc EXCEPT ![Loop] = "gate"] /\ job' = job
         \/ pc' = [pc EXCEPT ![Loop] = "idle"] /\ job' = [job EXCEPT ![Loop] = None]
  BY DEF Served
<1>2. /\ Outside(Loop) /\ Same(current, current') /\ txAllowed' \in BOOLEAN
      /\ job \in [Actor -> Job] /\ JobFits(Loop, pc, job, held) /\ Loop \in Actor
      /\ UNCHANGED <<lockQ, console, synced, txAllowed, conn>>
  BY <1>1, SameStays, Parts DEF Outside, link, Actor
<1>3. job[Loop] \in Reply \cup {None} /\ job = [job EXCEPT ![Loop] = job[Loop]]
  BY <1>1, <1>2 DEF JobFits
<1> QED BY <1>1, <1>2, <1>3, LoopGoes

\* A handler raises before it asks for the lock.
LEMMA HandlerRaisesIInv == ASSUME IInv, HandlerRaises PROVE IInv'
<1>1. /\ conn \in {"up", "lost"} /\ conn' \in {"up", "lost", "ended", "raised"}
      /\ pc[Loop] \in {"idle", "service"} \/ (pc[Loop] \in {"gate", "woken"} /\ job[Loop] = "RESPONSE")
      /\ pc' = [pc EXCEPT ![Loop] = "idle"] /\ job' = [job EXCEPT ![Loop] = None]
      /\ UNCHANGED <<lockQ, current, txAllowed, synced, console>>
  BY DEF HandlerRaises
<1>2. Outside(Loop) /\ Same(current, current') /\ txAllowed' \in BOOLEAN
  BY <1>1, SameStays, Parts DEF Outside, Reply
<1> QED BY <1>1, <1>2, LoopGoes

\* _connect_and_run, outside send(), goes on to place l.
LEMMA RunGoes ==
    ASSUME IInv, Outside(Run), NEW l \in {"idle", "leaving"},
           pc' = [pc EXCEPT ![Run] = l], job' = job,
           conn' \in Conn, conn' # "down" \/ UNCHANGED conn, synced' \in BOOLEAN,
           UNCHANGED <<lockQ, current, txAllowed, console>>
    PROVE  IInv'
<1>1. /\ job \in [Actor -> Job] /\ Run \in Actor /\ JobFits(Run, pc, job, held)
      /\ txAllowed' \in BOOLEAN /\ Released(pc) /\ Same(current, current') /\ Run # Loop
  BY Parts, Releases, SameStays, SerialConstants DEF Actor
<1>2. job[Run] = None /\ None \in Job /\ None # "reset" /\ l \in Place
  BY <1>1, SerialNames DEF Outside, JobFits, Job, Place, Reply
<1>3. job' = [job EXCEPT ![Run] = None] /\ lockQ' = lockQ
  BY <1>1, <1>2
<1>4. Closing' /\ PauseEndsWithConnection'
  <2>1. PauseEndsWithConnection /\ job'[Run] # "reset"
    BY <1>2 DEF IInv
  <2> QED BY <2>1 DEF Closing, PauseEndsWithConnection
<1> QED BY <1>1, <1>2, <1>3, <1>4, OutsideGoes

\* The port opens, with or without a synchronized link, or on_serial_connected raises.
LEMMA ConnectIInv == ASSUME IInv, Connect PROVE IInv'
<1>1. /\ pc[Run] = "idle" /\ conn' = "up" /\ synced' \in BOOLEAN
      /\ \/ Enqueue(Run, "CMD_GET_VERSION")
         \/ UNCHANGED <<pc, job, lockQ>>
         \/ pc' = [pc EXCEPT ![Run] = "leaving"] /\ UNCHANGED <<job, lockQ>>
      /\ UNCHANGED <<current, txAllowed, console>>
  BY Parts DEF Connect
<1>2. /\ pc \in [Actor -> Place] /\ job \in [Actor -> Job]
      /\ Run \in Actor /\ txAllowed' \in BOOLEAN /\ conn' \in Conn
  BY <1>1, Parts DEF Actor, Conn
<1>3. Outside(Run) /\ Released(pc) /\ Same(current, current')
  BY <1>1, <1>2, Releases, SameStays DEF Outside
<1>4. CASE Enqueue(Run, "CMD_GET_VERSION")
  <2>1. /\ pc' = [pc EXCEPT ![Run] = "lock"] /\ job' = [job EXCEPT ![Run] = "CMD_GET_VERSION"]
        /\ lockQ' = Append(lockQ, Run) /\ UNCHANGED console
    BY <1>1, <1>4 DEF Enqueue
  <2>2. /\ "CMD_GET_VERSION" \in Job /\ "CMD_GET_VERSION" \in Command
        /\ "CMD_GET_VERSION" # "reset"
    BY SerialNames, SerialConstants DEF Job, Command
  <2>3. Closing' /\ PauseEndsWithConnection'
    BY <1>1, <1>2, <2>1, <2>2 DEF Closing, PauseEndsWithConnection
  <2> QED BY <1>1, <1>2, <1>3, <2>1, <2>2, <2>3, OutsideGoes DEF Place
<1>5. CASE UNCHANGED <<pc, job, lockQ>>
  <2>1. pc' = [pc EXCEPT ![Run] = "idle"]
    BY <1>1, <1>2, <1>5
  <2> QED BY <1>1, <1>2, <1>3, <1>5, <2>1, RunGoes
<1>6. CASE pc' = [pc EXCEPT ![Run] = "leaving"] /\ UNCHANGED <<job, lockQ>>
  BY <1>1, <1>2, <1>3, <1>6, RunGoes
<1> QED BY <1>1, <1>4, <1>5, <1>6

\* The version is published and the console flushed, or _connect_and_run is left.
LEMMA PublishVersionIInv == ASSUME IInv, PublishVersion PROVE IInv'
<1>1. /\ pc[Run] = "service" /\ UNCHANGED <<current, fate, txAllowed, conn, synced>>
      /\ \/ flush_console_queue(Run, pc, queue, lockQ, txAllowed)
         \/ pc' = [pc EXCEPT ![Run] = "leaving"] /\ UNCHANGED <<job, lockQ, queue, held>>
  BY DEF PublishVersion, link
<1>2. /\ pc \in [Actor -> Place] /\ job \in [Actor -> Job]
      /\ held \in [Actor -> Holding \cup {None}] /\ lockQ \in Seq(Actor)
      /\ queue \in Seq(Buffer) /\ Len(queue) <= QueueLimit /\ Len(queue) \in Nat
      /\ fate \in [Buffer -> Fate] /\ txAllowed \in BOOLEAN /\ Run \in Actor
      /\ conn' \in Conn /\ synced' \in BOOLEAN
      /\ \A c \in Actor : JobFits(c, pc, job, held)
  BY <1>1, Parts DEF Actor
<1>3. Outside(Run) /\ Released(pc) /\ Same(current, current')
  BY <1>1, Releases, SameStays DEF Outside
<1>4. CASE flush_console_queue(Run, pc, queue, lockQ, txAllowed)
  <2>1. /\ Lists(lockQ, Engaged(pc, job) \ {Run})
        /\ Accounted(queue, [held EXCEPT ![Run] = None], fate)
    BY <1>2, <1>3, OutsideFree
  <2>2. /\ Moved(Run, pc, lockQ) /\ job'[Run] # "reset" /\ queue' \in Seq(Buffer)
        /\ Len(queue') <= Len(queue) /\ Accounted(queue', held', fate)
    BY <1>2, <1>4, <2>1, Flush
  <2>3. Len(queue') <= QueueLimit
    BY <1>2, <2>2, SerialConstants
  <2>4. Closing' /\ PauseEndsWithConnection'
    BY <1>1, <2>2, ClosingKept
  <2> QED BY <1>1, <1>2, <1>3, <2>2, <2>3, <2>4, OutsideIInv
<1>5. CASE pc' = [pc EXCEPT ![Run] = "leaving"] /\ UNCHANGED <<job, lockQ, queue, held>>
  BY <1>1, <1>2, <1>3, <1>5, RunGoes DEF console
<1> QED BY <1>1, <1>4, <1>5

\* The port is closed by an exception.
LEMMA EscapeIInv == ASSUME IInv, Escape PROVE IInv'
<1>1. /\ pc[Run] \in {"idle", "leaving"} /\ conn' = "escaped"
      /\ pc' = [pc EXCEPT ![Run] = "idle"]
      /\ UNCHANGED <<job, lockQ, current, txAllowed, synced, console>>
  BY DEF Escape, Leaves
<1>2. Outside(Run) /\ conn' \in Conn /\ synced' \in BOOLEAN
  BY <1>1, Parts DEF Outside, Conn
<1> QED BY <1>1, <1>2, RunGoes

----------------------------------------------------------------------------
(* Exceptions and cancellations inside send() *)

\* The payload of an actor that is interrupted is gone, and nothing else of the console.
LEMMA InterruptedConsole ==
    ASSUME IInv, NEW a \in Actor, NEW end \in Fate, end # "in", Interrupted(a, end)
    PROVE  /\ queue' = queue /\ held' = [held EXCEPT ![a] = None]
           /\ held' \in [Actor -> Holding \cup {None}] /\ fate' \in [Buffer -> Fate]
           /\ Accounted(queue', held', fate')
<1>1. /\ held \in [Actor -> Holding \cup {None}] /\ queue \in Seq(Buffer)
      /\ fate \in [Buffer -> Fate] /\ Accounted(queue, held, fate)
  BY Parts
<1>2. /\ queue' = queue /\ held' = [held EXCEPT ![a] = None]
      /\ fate' = IF held[a] = None THEN fate ELSE [fate EXCEPT ![held[a].buf] = end]
  BY DEF Interrupted
<1>3. CASE held[a] = None
  <2>1. held' = held /\ fate' = fate
    BY <1>1, <1>2, <1>3
  <2> QED BY <1>1, <1>2, <2>1
<1>4. CASE held[a] # None
  <2>1. Accounted(queue, [held EXCEPT ![a] = None], [fate EXCEPT ![held[a].buf] = end])
    BY <1>1, <1>4, Ended
  <2>2. held' \in [Actor -> Holding \cup {None}] /\ fate' \in [Buffer -> Fate]
    BY <1>1, <1>2, <1>4 DEF Holding
  <2> QED BY <1>2, <1>4, <2>1, <2>2
<1> QED BY <1>3, <1>4

\* The command of an actor that is interrupted is no longer pending, and another one's still
\* is.
LEMMA InterruptedFlow ==
    ASSUME IInv, NEW a \in Actor, NEW end, Interrupted(a, end), ~Tracked(pc', job', a),
           \A c \in Actor : c # a =>
              /\ Tracked(pc', job', c) <=> Tracked(pc, job, c)
              /\ Tracked(pc, job, c) => /\ job'[c] = job[c]
                                        /\ pc'[c] = "backoff" => pc[c] = "backoff",
           lockQ # <<>> /\ Head(lockQ) # a => lockQ' # <<>> /\ Head(lockQ') = Head(lockQ)
    PROVE  OneInFlight' /\ current' \in PendingCommand \cup {None}
<1>1. OneInFlight /\ current \in PendingCommand \cup {None}
  BY Parts DEF IInv
<1>2. current' = IF Tracked(pc, job, a) THEN None ELSE current
  BY DEF Interrupted, InFlight, Tracked
<1>3. CASE Tracked(pc, job, a)
  <2>1. \A c \in Actor : ~Tracked(pc', job', c)
    BY <1>1, <1>3 DEF OneInFlight
  <2>2. OneInFlight'
    BY <1>2, <1>3, <2>1 DEF OneInFlight, Tracked
  <2> QED BY <1>2, <1>3, <2>2
<1>4. CASE ~Tracked(pc, job, a)
  <2>1. current' = current
    BY <1>2, <1>4
  <2>2. \A c \in Actor : Tracked(pc', job', c) =>
           /\ lockQ' # <<>> /\ Head(lockQ') = c
           /\ current' # None /\ current'.cmd = job'[c]
           /\ pc'[c] = "backoff" => current'.attempts < MaxAttempts
    BY <1>1, <1>4, <2>1 DEF OneInFlight
  <2>3. current' # None => \E c \in Actor : Tracked(pc', job', c)
    BY <1>1, <1>4, <2>1 DEF OneInFlight
  <2>4. OneInFlight'
    BY <2>2, <2>3 DEF OneInFlight, Tracked
  <2> QED BY <1>1, <2>1, <2>4
<1> QED BY <1>3, <1>4

\* An actor is taken out of send(), or out of the queue for it, and leaves the lock to w.
LEMMA InterruptedIInv ==
    ASSUME IInv, NEW a \in Actor, NEW end \in Fate, end # "in", Interrupted(a, end),
           NEW w \in Seq(Actor), lockQ' = w, Lists(w, Engaged(pc, job) \ {a}),
           lockQ # <<>> /\ Head(lockQ) # a => w # <<>> /\ Head(w) = Head(lockQ),
           NEW l \in {"idle", "leaving"}, l = "leaving" => a = Run,
           pc' = [pc EXCEPT ![a] = l], job' = [job EXCEPT ![a] = None],
           txAllowed' = txAllowed, synced' = synced, conn' = conn \/ conn' = "ended"
    PROVE  IInv'
<1>1. /\ pc \in [Actor -> Place] /\ job \in [Actor -> Job]
      /\ held \in [Actor -> Holding \cup {None}] /\ queue \in Seq(Buffer)
      /\ Len(queue) <= QueueLimit /\ txAllowed' \in BOOLEAN /\ synced' \in BOOLEAN
      /\ conn' \in Conn /\ Run \in Actor /\ \A c \in Actor : JobFits(c, pc, job, held)
  BY Parts DEF Conn, Actor
<1>2. /\ queue' = queue /\ held' = [held EXCEPT ![a] = None] /\ fate' \in [Buffer -> Fate]
      /\ Accounted(queue', held', fate')
  BY InterruptedConsole
<1>3. None \in Job /\ None \notin Command /\ None # "reset" /\ l \in Place
  BY SerialNames DEF Job, Place
<1>4. Moved(a, pc, w) /\ job'[a] = None
  <2> DEFINE x == None
  <2>1. /\ x \in Holding \cup {None} /\ held' = [held EXCEPT ![a] = x]
        /\ (x # None => None = "CMD_CONSOLE_WRITE")
    BY <1>2
  <2> QED BY <1>1, <1>3, <2>1, ActorGoes
<1>5. OneInFlight' /\ current' \in PendingCommand \cup {None}
  <2>1. ~Tracked(pc', job', a) /\ \A c \in Actor : c # a => pc'[c] = pc[c] /\ job'[c] = job[c]
    BY <1>4 DEF Moved
  <2>2. \A c \in Actor : c # a => (Tracked(pc', job', c) <=> Tracked(pc, job, c))
    BY <2>1 DEF Tracked
  <2> QED BY <2>1, <2>2, InterruptedFlow
<1>6. Closing' /\ PauseEndsWithConnection'
  <2>1. Closing /\ PauseEndsWithConnection
    BY DEF IInv
  <2>2. job'[Run] = "reset" => job[Run] = "reset"
    BY <1>1, <1>3, <1>4 DEF Moved
  <2> QED BY <2>1, <2>2 DEF Closing, PauseEndsWithConnection
<1> QED BY <1>1, <1>2, <1>4, <1>5, <1>6, MovedIInv

\* build_frame raises.
LEMMA TooLargeIInv == ASSUME IInv, NEW a \in Actor, TooLarge(a) PROVE IInv'
<1>1. /\ Interrupted(a, "refused") /\ lockQ' = Tail(lockQ)
      /\ pc' = [pc EXCEPT ![a] = IF a = Run THEN "leaving" ELSE "idle"]
      /\ job' = [job EXCEPT ![a] = None] /\ txAllowed' = txAllowed /\ synced' = synced
      /\ conn' = conn \/ conn' = "ended"
      /\ held[a] # None
      /\ (pc[a] = "lock" /\ Head(lockQ) = a) \/ pc[a] \in {"backoff", "gate", "woken"}
  BY DEF TooLarge, Fits
<1>2. job[a] \in Command /\ lockQ \in Seq(Actor) /\ Lists(lockQ, Engaged(pc, job))
  <2>1. held[a] # None
    BY DEF TooLarge, Fits
  <2>2. JobFits(a, pc, job, held) /\ "CMD_CONSOLE_WRITE" \in Command
    BY Parts, SerialConstants DEF Command
  <2> QED BY <2>1, <2>2, Parts DEF JobFits
<1>3. Head(lockQ) = a /\ lockQ # <<>>
  <2>1. CASE pc[a] = "lock" /\ Head(lockQ) = a
    <3>1. a \in Engaged(pc, job)
      BY <2>1 DEF Engaged
    <3> QED BY <1>2, <2>1, <3>1 DEF Lists
  <2>2. CASE pc[a] \in {"backoff", "gate", "woken"}
    <3>1. Tracked(pc, job, a)
      BY <1>2, <2>2 DEF Tracked
    <3> QED BY <3>1, Holder
  <2> QED BY <1>1, <2>1, <2>2
<1> DEFINE w == Tail(lockQ)
           l == IF a = Run THEN "leaving" ELSE "idle"
<1>4. w \in Seq(Actor) /\ Lists(w, Engaged(pc, job) \ {a}) /\ lockQ' = w
  BY <1>1, <1>2, <1>3, ListsTail
<1>5. l \in {"idle", "leaving"} /\ (l = "leaving" => a = Run) /\ pc' = [pc EXCEPT ![a] = l]
  BY <1>1
<1>6. "refused" \in Fate
  BY DEF Fate
<1> HIDE DEF w, l
<1> QED BY <1>1, <1>3, <1>4, <1>5, <1>6, InterruptedIInv

\* A worker of the cloud is cancelled.
LEMMA CancelIInv == ASSUME IInv, NEW t \in Task, Cancel(t) PROVE IInv'
<1> DEFINE w == RemoveFirst(lockQ, t)
<1>1. /\ Interrupted(t, "cancelled") /\ lockQ' = w
      /\ pc' = [pc EXCEPT ![t] = "idle"] /\ job' = [job EXCEPT ![t] = None]
      /\ txAllowed' = txAllowed /\ synced' = synced /\ conn' = conn /\ t \in Actor
  BY DEF Cancel, link, Actor
<1>2. lockQ \in Seq(Actor) /\ Lists(lockQ, Engaged(pc, job)) /\ "cancelled" \in Fate
  BY Parts DEF Fate
<1>3. /\ w \in Seq(Actor) /\ Lists(w, Engaged(pc, job) \ {t})
      /\ lockQ # <<>> /\ Head(lockQ) # t => w # <<>> /\ Head(w) = Head(lockQ)
  BY <1>2, ListsRemove
<1> HIDE DEF w
<1> QED BY <1>1, <1>2, <1>3, InterruptedIInv

\* The read loop is cancelled; on_serial_disconnected opens the gate for good and asks for
\* the lock.
LEMMA DisconnectIInv == ASSUME IInv, Disconnect PROVE IInv'
<1> DEFINE p == Woken(pc)
           w == RemoveFirst(lockQ, Loop)
<1>1. /\ pc[Run] \in {"idle", "leaving"} /\ conn' = "ended" /\ Interrupted(Loop, "cancelled")
      /\ synced' = FALSE /\ txAllowed' = TRUE
      /\ pc' = [p EXCEPT ![Loop] = "idle", ![Run] = "lock"]
      /\ job' = [job EXCEPT ![Loop] = None, ![Run] = "reset"]
      /\ lockQ' = Append(w, Run)
  BY DEF Disconnect, Leaves
<1>2. /\ pc \in [Actor -> Place] /\ job \in [Actor -> Job]
      /\ held \in [Actor -> Holding \cup {None}] /\ lockQ \in Seq(Actor)
      /\ queue \in Seq(Buffer) /\ Len(queue) <= QueueLimit
      /\ Lists(lockQ, Engaged(pc, job)) /\ \A c \in Actor : JobFits(c, pc, job, held)
      /\ Loop \in Actor /\ Run \in Actor /\ Loop # Run /\ "cancelled" \in Fate
  BY Parts, SerialConstants DEF Actor, Fate
<1>3. Released(p) /\ Outside(Run)
  BY <1>1, Releases DEF Outside
<1> HIDE DEF p
<1>4. /\ w \in Seq(Actor) /\ Lists(w, Engaged(pc, job) \ {Loop})
      /\ lockQ # <<>> /\ Head(lockQ) # Loop => w # <<>> /\ Head(w) = Head(lockQ)
  <2>1. lockQ \in Seq(Actor) /\ Lists(lockQ, Engaged(pc, job))
    BY <1>2
  <2> QED BY <2>1, ListsRemove
<1> HIDE DEF w
<1>5. /\ pc'[Loop] = "idle" /\ pc'[Run] = "lock" /\ job'[Loop] = None /\ job'[Run] = "reset"
      /\ \A c \in Actor : c \notin {Loop, Run} => pc'[c] = p[c] /\ job'[c] = job[c]
      /\ pc' \in [Actor -> Place] /\ job' \in [Actor -> Job]
  BY <1>1, <1>2, <1>3 DEF Released, Place, Job
<1>6. /\ queue' = queue /\ held' = [held EXCEPT ![Loop] = None]
      /\ held' \in [Actor -> Holding \cup {None}] /\ fate' \in [Buffer -> Fate]
      /\ Accounted(queue', held', fate')
  BY <1>1, <1>2, InterruptedConsole, SMTT(30) DEF Fate
<1>7. ~Tracked(pc, job, Run) /\ held[Run] = None /\ pc[Run] # "lock"
  BY <1>1, <1>2, <1>3, OutsideFree
<1>8. "reset" \notin Command /\ None \notin Command /\ None # "reset"
  BY SerialNames
<1>9. \A c \in Actor : c # Loop => (Tracked(pc', job', c) <=> Tracked(pc, job, c))
  BY <1>3, <1>5, <1>7, <1>8 DEF Tracked, Released
<1>10. ~Tracked(pc', job', Loop)
  BY <1>5 DEF Tracked
<1>11. LockOrdered' /\ lockQ' \in Seq(Actor)
  <2> DEFINE S == Engaged(pc, job) \ {Loop}
  <2>1. Engaged(pc', job') = S \cup {Run}
    BY <1>2, <1>3, <1>5, <1>9, <1>10 DEF Engaged, Released
  <2>2. Run \notin S
    BY <1>7 DEF Engaged
  <2> HIDE DEF S
  <2>3. Append(w, Run) \in Seq(Actor) /\ Lists(Append(w, Run), S \cup {Run})
    BY <1>2, <1>4, <2>2, ListsAppend DEF S
  <2>4. Lists(lockQ', Engaged(pc', job'))
    BY <1>1, <2>1, <2>3
  <2> QED BY <1>1, <2>3, <2>4 DEF LockOrdered, Lists, Engaged, Tracked
<1>12. JobsFit'
  <2>1. JobFits(Loop, pc', job', held')
    BY <1>2, <1>5, <1>6, <1>8 DEF JobFits
  <2>2. JobFits(Run, pc', job', held')
    BY <1>2, <1>5, <1>6, <1>7, <1>8 DEF JobFits
  <2>3. ASSUME NEW c \in Actor, c \notin {Loop, Run} PROVE JobFits(c, pc', job', held')
    <3>1. JobFits(c, p, job, held)
      BY <1>3, ReleasedFits
    <3>2. pc'[c] = p[c] /\ job'[c] = job[c] /\ held'[c] = held[c]
      BY <1>2, <1>5, <1>6, <2>3
    <3> QED BY <3>1, <3>2 DEF JobFits
  <2> QED BY <2>1, <2>2, <2>3 DEF JobsFit, JobFits
<1>13. OneInFlight' /\ current' \in PendingCommand \cup {None}
  <2>1. \A c \in Actor : c # Loop /\ Tracked(pc, job, c) =>
           job'[c] = job[c] /\ (pc'[c] = "backoff" => pc[c] = "backoff")
    BY <1>3, <1>5, <1>7 DEF Released
  <2>2. lockQ # <<>> /\ Head(lockQ) # Loop => lockQ' # <<>> /\ Head(lockQ') = Head(lockQ)
    BY <1>1, <1>2, <1>4
  <2> QED BY <1>1, <1>2, <1>9, <1>10, <2>1, <2>2, InterruptedFlow
<1>14. Closing' /\ PauseEndsWithConnection'
  BY <1>1 DEF Closing, PauseEndsWithConnection
<1>15. TypeOK'
  BY <1>1, <1>2, <1>5, <1>6, <1>11, <1>13 DEF TypeOK, Place, Job, Fate
<1>16. ConsoleAccounted'
  BY <1>6 DEF ConsoleAccounted, Accounted
<1> QED BY <1>11, <1>12, <1>13, <1>14, <1>15, <1>16 DEF IInv

\* reset() holds the lock, so no command is in flight; the port closes.
LEMMA ResetIInv == ASSUME IInv, Reset PROVE IInv'
<1>1. /\ pc[Run] = "lock" /\ job[Run] = "reset" /\ Head(lockQ) = Run /\ current' = None
      /\ lockQ' = Tail(lockQ) /\ pc' = [pc EXCEPT ![Run] = "idle"]
      /\ job' = [job EXCEPT ![Run] = None] /\ conn' = "down"
      /\ txAllowed' = txAllowed /\ synced' = synced
      /\ queue' = queue /\ held' = held /\ fate' = fate
  BY DEF Reset, console
<1>2. /\ pc \in [Actor -> Place] /\ job \in [Actor -> Job]
      /\ held \in [Actor -> Holding \cup {None}] /\ lockQ \in Seq(Actor)
      /\ queue \in Seq(Buffer) /\ Len(queue) <= QueueLimit /\ fate \in [Buffer -> Fate]
      /\ txAllowed \in BOOLEAN /\ synced \in BOOLEAN /\ Run \in Actor
      /\ Lists(lockQ, Engaged(pc, job))
      /\ \A c \in Actor : JobFits(c, pc, job, held)
      /\ Accounted(queue, held, fate)
  BY Parts DEF Actor
<1>3. lockQ # <<>>
  <2>1. Run \in Engaged(pc, job)
    BY <1>1, <1>2 DEF Engaged
  <2> QED BY <1>2, <2>1 DEF Lists
<1>4. Tail(lockQ) \in Seq(Actor) /\ Lists(Tail(lockQ), Engaged(pc, job) \ {Run})
  BY <1>1, <1>2, <1>3, ListsTail
<1>5. held[Run] = None /\ held' = [held EXCEPT ![Run] = None]
  <2>1. "CMD_CONSOLE_WRITE" # "reset"
    BY SerialNames, SerialConstants DEF Command
  <2>2. held[Run] = None
    BY <1>1, <1>2, <2>1 DEF JobFits
  <2> QED BY <1>1, <1>2, <2>2
<1>6. None \in Job /\ None \notin Command /\ None # "reset"
  BY SerialNames DEF Job
<1>7. Moved(Run, pc, Tail(lockQ)) /\ job'[Run] = None
  <2> DEFINE w == Tail(lockQ)
  <2>1. w \in Seq(Actor) /\ Lists(w, Engaged(pc, job) \ {Run}) /\ lockQ' = w
    BY <1>1, <1>4
  <2> HIDE DEF w
  <2>2. Moved(Run, pc, w) /\ job'[Run] = None
    BY <1>1, <1>2, <1>5, <1>6, <2>1, ActorGoes DEF Place
  <2> QED BY <2>2 DEF w
<1>8. OneInFlight'
  BY <1>1, <1>2, <1>3, <1>7, NothingInFlight DEF Moved
<1>9. Closing' /\ PauseEndsWithConnection'
  <2>1. Closing
    BY DEF IInv
  <2> QED BY <1>1, <1>6, <1>7, <2>1 DEF Closing, PauseEndsWithConnection
<1>10. /\ current' \in PendingCommand \cup {None} /\ conn' \in Conn
       /\ Accounted(queue', held', fate')
  BY <1>1, <1>2 DEF Conn
<1> QED BY <1>1, <1>2, <1>7, <1>8, <1>9, <1>10, MovedIInv
----------------------------------------------------------------------------
(* The specification *)

\* Before the first connection every actor is idle and no payload has come.
LEMMA InitIInv == Init => IInv
<1> SUFFICES ASSUME Init PROVE IInv
  OBVIOUS
<1>1. \A a \in Actor : pc[a] = "idle" /\ job[a] = None /\ held[a] = None
  BY DEF Init
<1>2. lockQ = <<>> /\ Len(lockQ) = 0 /\ queue = <<>> /\ Len(queue) = 0 /\ 0 <= QueueLimit
  BY SerialConstants DEF Init
<1>3. TypeOK
  <2>1. /\ pc \in [Actor -> Place] /\ job \in [Actor -> Job]
        /\ held \in [Actor -> Holding \cup {None}] /\ fate \in [Buffer -> Fate]
    BY DEF Init, Place, Job, Fate
  <2>2. lockQ \in Seq(Actor) /\ queue \in Seq(Buffer) /\ Len(queue) <= QueueLimit
    BY <1>2
  <2>3. /\ current \in PendingCommand \cup {None} /\ txAllowed \in BOOLEAN
        /\ conn \in Conn /\ synced \in BOOLEAN
    BY DEF Init, Conn
  <2> QED BY <2>1, <2>2, <2>3, TypeParts
<1>4. Engaged(pc, job) = {}
  BY <1>1, SerialNames DEF Engaged, Tracked
<1>5. LockOrdered
  BY <1>2, <1>4 DEF LockOrdered, Lists
<1>6. JobsFit
  BY <1>1, SerialNames DEF JobsFit, JobFits
<1>7. ConsoleAccounted
  BY <1>1, <1>2 DEF ConsoleAccounted, Accounted, Init
<1>8. OneInFlight
  BY <1>1, SerialNames DEF OneInFlight, Tracked, Init
<1>9. Closing /\ PauseEndsWithConnection
  BY <1>1, SerialNames DEF Closing, PauseEndsWithConnection, Init, Actor
<1> QED BY <1>3, <1>5, <1>6, <1>7, <1>8, <1>9 DEF IInv

\* Every step of the daemon or of its environment preserves the invariant.
LEMMA NextIInv == IInv /\ [Next]_vars => IInv'
<1> SUFFICES ASSUME IInv, [Next]_vars PROVE IInv'
  OBVIOUS
<1>1. ASSUME NEW t \in Task, Request(t) PROVE IInv'
  BY <1>1, RequestIInv
<1>2. ASSUME NEW t \in Task, ConsoleRequest(t) PROVE IInv'
  BY <1>2, ConsoleRequestIInv
<1>3. ASSUME NEW a \in Actor, Send(a) PROVE IInv'
  BY <1>3, BeginIInv, PassGateIInv, CompleteIInv, ResponseTimeoutIInv, ResumeIInv, TooLargeIInv
     DEF Send
<1>4. ASSUME NEW t \in Task, Cancel(t) PROVE IInv'
  BY <1>4, CancelIInv
<1>5. CASE Read \/ Served
  BY <1>5, ReadIInv, ServedIInv
<1>6. CASE WriteAck \/ WriteResponse
  BY <1>6, LoopWrites DEF WriteAck, WriteResponse, Reply
<1>7. CASE Lose \/ LoopEnds
  BY <1>7, ConnOnly DEF Lose, LoopEnds
<1>8. CASE HandlerRaises
  BY <1>8, HandlerRaisesIInv
<1>9. CASE Connect \/ PublishVersion
  BY <1>9, ConnectIInv, PublishVersionIInv
<1>10. CASE Disconnect
  BY <1>10, DisconnectIInv
<1>11. CASE Escape
  BY <1>11, EscapeIInv
<1>12. CASE Reset
  BY <1>12, ResetIInv
<1>13. CASE UNCHANGED vars
  <2>1. /\ UNCHANGED <<pc, job, lockQ, current, txAllowed, conn, synced>>
        /\ UNCHANGED <<queue, held, fate>>
    BY <1>13 DEF vars
  <2> QED BY <2>1, SMTT(30) DEF IInv, TypeOK, LockOrdered, JobsFit, ConsoleAccounted, OneInFlight,
                      Closing, PauseEndsWithConnection, Lists, Engaged, Tracked, JobFits, Accounted
<1> QED BY <1>1, <1>2, <1>3, <1>4, <1>5, <1>6, <1>7, <1>8, <1>9, <1>10, <1>11, <1>12, <1>13
        DEF Next

\* The inductive invariant holds in every reachable state.
THEOREM SerialInvariant == Spec => []IInv
  BY InitIInv, NextIInv, PTL DEF Spec

\* Types: in particular console_to_mcu_queue never exceeds its maxlen.
THEOREM SerialTypeOK == Spec => []TypeOK
<1>1. IInv => TypeOK
  BY DEF IInv
<1> QED BY <1>1, SerialInvariant, PTL

\* send() keeps one tracked command in flight, whose sender holds _flow_lock and which
\* _current describes, for any number of callers and any interleaving with the flush inside
\* the read loop, with exceptions and cancellations, and with reset().
THEOREM OneCommandInFlight == Spec => []SequentialFlow
<1>1. IInv => SequentialFlow
  <2> SUFFICES ASSUME IInv PROVE SequentialFlow
    OBVIOUS
  <2>1. OneInFlight
    BY DEF IInv
  <2> QED BY <2>1 DEF OneInFlight, SequentialFlow, InFlight, Tracked
<1> QED BY <1>1, SerialInvariant, PTL

\* No console payload is forked between console_to_mcu_queue and the flushes, and none is lost
\* but one whose chunk send() refuses or whose flush is cancelled, for any bound of the deque
\* and any number of frames per payload.
THEOREM ConsolePayloadsConserved == Spec => []ConsoleConserved
<1>1. IInv => ConsoleConserved
  <2> SUFFICES ASSUME IInv, NEW b \in Buffer
               PROVE  LET queued == {i \in DOMAIN queue : queue[i] = b}
                          holders == {a \in Actor : held[a] # None /\ held[a].buf = b}
                      IN IF fate[b] = "in"
                         THEN \/ holders = {} /\ \E i \in DOMAIN queue : queued = {i}
                              \/ queued = {} /\ \E a \in Actor : holders = {a}
                         ELSE queued = {} /\ holders = {}
    BY DEF ConsoleConserved
  <2> DEFINE queued == {i \in DOMAIN queue : queue[i] = b}
             holders == {a \in Actor : held[a] # None /\ held[a].buf = b}
  <2>1. Accounted(queue, held, fate) /\ DOMAIN queue = 1 .. Len(queue)
    BY Parts
  <2>2. ASSUME NEW i \in DOMAIN queue, queue[i] = b
        PROVE  queued = {i} /\ holders = {} /\ fate[b] = "in"
    BY <2>1, <2>2 DEF Accounted
  <2>3. ASSUME NEW a \in Actor, held[a] # None, held[a].buf = b
        PROVE  holders = {a} /\ queued = {} /\ fate[b] = "in"
    BY <2>1, <2>3 DEF Accounted
  <2>4. fate[b] = "in" => (\E i \in DOMAIN queue : queue[i] = b)
                          \/ (\E a \in Actor : held[a] # None /\ held[a].buf = b)
    BY <2>1 DEF Accounted
  <2>5. CASE fate[b] = "in"
    BY <2>2, <2>3, <2>4, <2>5
  <2>6. CASE fate[b] # "in"
    BY <2>2, <2>3, <2>6
  <2> QED BY <2>5, <2>6
<1> QED BY <1>1, SerialInvariant, PTL

\* After a connection that was cleaned up, the port is opened again without a pause:
\* on_serial_disconnected clears it before reset() waits for the lock, and nothing, not even a
\* read loop that it had to cancel, sets it again until the port is closed.
THEOREM PauseEnds == Spec => []PauseEndsWithConnection
<1>1. IInv => PauseEndsWithConnection
  BY DEF IInv
<1> QED BY <1>1, SerialInvariant, PTL
============================================================================
