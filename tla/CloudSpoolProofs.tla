-------------------------- MODULE CloudSpoolProofs --------------------------
(***************************************************************************)
(* Proofs about CloudSpool, for any tasks, messages, leftovers of an earlier *)
(* run and bounds, and that it implements Outbox.                            *)
(***************************************************************************)
EXTENDS CloudSpool, QueueLemmas, FiniteSetTheorems

Place == {"idle", "lock", "flush", "resend", "corrupt", "pop", "flushed",
          "publish", "spool", "append", "event", "read", "ended"}
Row == Msg \cup {Bad}
Fate == {"new", "hand", "kept", "sent"} \cup Given

\* Outside _cloud_publish_lock.
Away == {"idle", "event", "read", "ended"}

\* The coroutines that wait for the lock or hold it.
Engaged(p) == {a \in Actor : p[a] \notin Away}

\* The lock's queue w and the places p of the coroutines: the queue lists those that wait
\* or hold, only its head is past "lock", a publisher and the connection keep to their own
\* places, and the worker lives while the connection reads.
Control(p, w) ==
    /\ Lists(w, Engaged(p))
    /\ \A a \in Actor : p[a] \notin Away \cup {"lock"} => w # <<>> /\ Head(w) = a
    /\ \A x \in Publisher : p[x] \notin {"event", "read", "ended"}
    /\ p[Conn] \notin {"publish", "spool", "append"}
    /\ p[Worker] # "idle" => p[Conn] = "read"

\* A message accepted is in the hands of exactly one publisher until its fate is settled.
Hands(p, g, f) ==
    /\ \A x \in Publisher : p[x] = "idle" <=> g[x] = NoItem
    /\ \A x \in Publisher : g[x] # NoItem => f[g[x]] = "hand"
    /\ \A x, y \in Publisher : g[x] = g[y] /\ g[x] # NoItem => x = y
    /\ \A m \in Msg : f[m] = "hand" => \E x \in Publisher : g[x] = m

\* A message is a row of the spool at most once, and is one while its fate is "kept".
Stored(r, f) ==
    /\ \A i, k \in 1 .. Len(r) : r[i] = r[k] /\ r[i] # Bad => i = k
    /\ \A i \in 1 .. Len(r) : r[i] # Bad => f[r[i]] \in {"kept", "sent"}
    /\ \A m \in Msg : f[m] = "kept" => \E i \in 1 .. Len(r) : r[i] = m

\* The history of the sends and the fates agree.
Recorded(s, f) == \A m \in Msg : f[m] = "sent" <=> \E i \in 1 .. Len(s) : s[i] = m

\* What a coroutine at place l knows of the head of the spool and of the room in it.
Knows(l, d, f) ==
    /\ l = "resend" => d.rows # <<>> /\ Head(d.rows) # Bad
    /\ l = "pop" => d.rows # <<>> /\ Head(d.rows) # Bad /\ f[Head(d.rows)] = "sent"
    /\ l = "corrupt" => d.rows # <<>> /\ Head(d.rows) = Bad
    /\ l = "append" => MaxLen = 0 \/ d.length < MaxLen \/ d.rows = <<>>

Ready(p, d, f) == \A a \in Actor : Knows(p[a], d, f)

\* The count kept in memory exceeds the rows by that of one failed append at most.
Counted(d) == d.length <= Len(d.rows) + 1

IInv ==
    /\ TypeOK /\ Control(pc, lockQ) /\ Hands(pc, msg, fate)
    /\ Stored(spool.rows, fate) /\ Recorded(sends, fate) /\ Ready(pc, spool, fate)
    /\ Counted(spool)
----------------------------------------------------------------------------
(* The operations of the spool *)

Untouched(d, o) ==
    o.d.rows = d.rows /\ o.lost = {} /\ (o.d.length = d.length \/ o.d.length = 0)

Shortened(d, o) ==
    /\ d.rows # <<>> /\ o.d.rows = Tail(d.rows) /\ o.lost = {}
    /\ o.res = "ok" /\ o.item = Head(d.rows)
    /\ o.d.length = 0 \/ (d.length > 0 /\ o.d.length = d.length - 1)

Emptied(d, o) == o.d.rows = <<>> /\ o.lost = ToSet(d.rows) /\ o.d.length = 0

\* Outcome o of the second attempt, on the database r that _recreate_db left: the operation
\* ended as i, or with an error.
Again(d, r, i) == [i EXCEPT !.fault = TRUE, !.lost = ToSet(d.rows) \ ToSet(r.rows)]
Failed(d, r, n) == Again(d, r, Success([r EXCEPT !.length = @ + n], "error", NoItem))
Second(d, r, i, added, o) == o = Again(d, r, i) \/ \E n \in 0 .. added : o = Failed(d, r, n)

NoRows == [rows |-> <<>>, length |-> 0]
OldRows(d) == [rows |-> d.rows, length |-> 0]

\* The ways in which _execute can end.
LEMMA Outcomes ==
    ASSUME NEW d, NEW impl, NEW added, NEW o \in execute(d, impl, added)
    PROVE  \/ o = impl[d] \/ Second(d, NoRows, impl[NoRows], added, o)
           \/ Second(d, OldRows(d), impl[OldRows(d)], added, o)
<1>1. o = impl[d] \/ \E r \in recreate_db(d) : Second(d, r, impl[r], added, o)
  BY DEF execute, Second, Again, Failed
<1>2. recreate_db(d) = {NoRows, OldRows(d)}
  BY DEF recreate_db, NoRows, OldRows
<1> QED BY <1>1, <1>2

\* An empty sequence has no elements.
LEMMA ToSetEmpty == ToSet(<<>>) = {}
  BY DEF ToSet

\* popleft deletes the first row, finds none, or fails.
LEMMA PopCases ==
    ASSUME NEW d, d.rows \in Seq(Row), d.length \in Nat, NEW o \in popleft(d)
    PROVE  /\ o.fault \in BOOLEAN
           /\ \/ Shortened(d, o)
              \/ Untouched(d, o) /\ o.res # "ok" /\ (o.d.length = 0 \/ d.rows = <<>>)
              \/ Emptied(d, o) /\ o.res # "ok"
           /\ ~o.fault => \/ Shortened(d, o) /\ (d.length > 0 => o.d.length = d.length - 1)
                          \/ d.rows = <<>> /\ o.d = d
<1> DEFINE impl == [e \in Found(d) |-> popleft_impl(e)]
<1>1. d \in Found(d) /\ NoRows \in Found(d) /\ OldRows(d) \in Found(d)
  BY DEF Found, recreate_db, NoRows, OldRows
<1>2. /\ impl[d] = popleft_impl(d) /\ impl[NoRows] = popleft_impl(NoRows)
      /\ impl[OldRows(d)] = popleft_impl(OldRows(d))
  BY <1>1
<1>3. o \in execute(d, impl, 0)
  BY DEF popleft
<1> HIDE DEF impl
<1>4. CASE o = impl[d]
  BY <1>2, <1>4 DEF popleft_impl, Success, Shortened, Untouched
<1>5. CASE Second(d, NoRows, impl[NoRows], 0, o)
  <2>1. impl[NoRows] = Success(NoRows, "index", NoItem)
    BY <1>2 DEF popleft_impl, NoRows
  <2>2. ToSet(d.rows) \ ToSet(<<>>) = ToSet(d.rows)
    BY ToSetEmpty
  <2>3. CASE o = Again(d, NoRows, impl[NoRows])
    BY <2>1, <2>2, <2>3 DEF Again, Success, NoRows, Emptied
  <2>4. ASSUME NEW n \in 0 .. 0, o = Failed(d, NoRows, n)
        PROVE  Emptied(d, o) /\ o.res # "ok" /\ o.fault = TRUE
    BY <2>2, <2>4 DEF Again, Failed, Success, NoRows, Emptied
  <2> QED BY <1>5, <2>3, <2>4 DEF Second
<1>6. CASE Second(d, OldRows(d), impl[OldRows(d)], 0, o)
  <2>1. CASE o = Again(d, OldRows(d), impl[OldRows(d)])
    BY <1>2, <2>1 DEF Again, popleft_impl, Success, OldRows, Shortened, Untouched
  <2>2. ASSUME NEW n \in 0 .. 0, o = Failed(d, OldRows(d), n)
        PROVE  Untouched(d, o) /\ o.d.length = 0 /\ o.res # "ok" /\ o.fault = TRUE
    BY <2>2 DEF Again, Failed, Success, OldRows, Untouched
  <2> QED BY <1>6, <2>1, <2>2 DEF Second
<1> QED BY <1>3, <1>4, <1>5, <1>6, Outcomes

\* peek returns the first row, finds none, or fails.
LEMMA PeekCases ==
    ASSUME NEW d, d.rows \in Seq(Row), d.length \in Nat, NEW o \in peek(d)
    PROVE  /\ o.fault \in BOOLEAN
           /\ \/ Untouched(d, o) /\ (o.res = "ok" => d.rows # <<>> /\ o.item = Head(d.rows))
              \/ Emptied(d, o) /\ o.res # "ok"
           /\ ~o.fault => o.d = d /\ (o.res # "ok" => d.rows = <<>>)
<1> DEFINE impl == [e \in Found(d) |-> peek_impl(e)]
<1>1. d \in Found(d) /\ NoRows \in Found(d) /\ OldRows(d) \in Found(d)
  BY DEF Found, recreate_db, NoRows, OldRows
<1>2. /\ impl[d] = peek_impl(d) /\ impl[NoRows] = peek_impl(NoRows)
      /\ impl[OldRows(d)] = peek_impl(OldRows(d))
  BY <1>1
<1>3. o \in execute(d, impl, 0)
  BY DEF peek
<1> HIDE DEF impl
<1>4. CASE o = impl[d]
  BY <1>2, <1>4 DEF peek_impl, Success, Untouched
<1>5. CASE Second(d, NoRows, impl[NoRows], 0, o)
  <2>1. impl[NoRows] = Success(NoRows, "index", NoItem)
    BY <1>2 DEF peek_impl, NoRows
  <2>2. ToSet(d.rows) \ ToSet(<<>>) = ToSet(d.rows)
    BY ToSetEmpty
  <2>3. CASE o = Again(d, NoRows, impl[NoRows])
    BY <2>1, <2>2, <2>3 DEF Again, Success, NoRows, Emptied
  <2>4. ASSUME NEW n \in 0 .. 0, o = Failed(d, NoRows, n)
        PROVE  Emptied(d, o) /\ o.res # "ok" /\ o.fault = TRUE
    BY <2>2, <2>4 DEF Again, Failed, Success, NoRows, Emptied
  <2> QED BY <1>5, <2>3, <2>4 DEF Second
<1>6. CASE Second(d, OldRows(d), impl[OldRows(d)], 0, o)
  <2>1. CASE o = Again(d, OldRows(d), impl[OldRows(d)])
    BY <1>2, <2>1 DEF Again, peek_impl, Success, OldRows, Untouched
  <2>2. ASSUME NEW n \in 0 .. 0, o = Failed(d, OldRows(d), n)
        PROVE  Untouched(d, o) /\ o.d.length = 0 /\ o.res # "ok" /\ o.fault = TRUE
    BY <2>2 DEF Again, Failed, Success, OldRows, Untouched
  <2> QED BY <1>6, <2>1, <2>2 DEF Second
<1> QED BY <1>3, <1>4, <1>5, <1>6, Outcomes

\* vacuum changes nothing, unless it fails.
LEMMA VacuumCases ==
    ASSUME NEW d, d.rows \in Seq(Row), d.length \in Nat, NEW o \in vacuum(d)
    PROVE  /\ o.fault \in BOOLEAN /\ (Untouched(d, o) \/ Emptied(d, o))
           /\ ~o.fault => o.d = d
<1> DEFINE impl == [e \in Found(d) |-> Success(e, "ok", NoItem)]
<1>1. d \in Found(d) /\ NoRows \in Found(d) /\ OldRows(d) \in Found(d)
  BY DEF Found, recreate_db, NoRows, OldRows
<1>2. /\ impl[d] = Success(d, "ok", NoItem) /\ impl[NoRows] = Success(NoRows, "ok", NoItem)
      /\ impl[OldRows(d)] = Success(OldRows(d), "ok", NoItem)
  BY <1>1
<1>3. o \in execute(d, impl, 0)
  BY DEF vacuum
<1> HIDE DEF impl
<1>4. CASE o = impl[d]
  BY <1>2, <1>4 DEF Success, Untouched
<1>5. CASE Second(d, NoRows, impl[NoRows], 0, o)
  <2>1. ToSet(d.rows) \ ToSet(<<>>) = ToSet(d.rows)
    BY ToSetEmpty
  <2>3. CASE o = Again(d, NoRows, impl[NoRows])
    BY <1>2, <2>1, <2>3 DEF Again, Success, NoRows, Emptied
  <2>4. ASSUME NEW n \in 0 .. 0, o = Failed(d, NoRows, n)
        PROVE  Emptied(d, o) /\ o.fault = TRUE
    BY <2>1, <2>4 DEF Again, Failed, Success, NoRows, Emptied
  <2> QED BY <1>5, <2>3, <2>4 DEF Second
<1>6. CASE Second(d, OldRows(d), impl[OldRows(d)], 0, o)
  <2>1. CASE o = Again(d, OldRows(d), impl[OldRows(d)])
    BY <1>2, <2>1 DEF Again, Success, OldRows, Untouched
  <2>2. ASSUME NEW n \in 0 .. 0, o = Failed(d, OldRows(d), n)
        PROVE  Untouched(d, o) /\ o.fault = TRUE
    BY <2>2 DEF Again, Failed, Success, OldRows, Untouched
  <2> QED BY <1>6, <2>1, <2>2 DEF Second
<1> QED BY <1>3, <1>4, <1>5, <1>6, Outcomes

\* A sequence without its first k elements, and how many of the oldest rows an append deletes
\* when the count was n.
Beyond(s, k) == SubSeq(s, k + 1, Len(s))
Over(n) == IF n + 1 > MaxLen THEN n + 1 - MaxLen ELSE 0

\* What is left is the end of the sequence.
LEMMA BeyondIndex ==
    ASSUME NEW S, NEW s \in Seq(S), NEW k \in Nat
    PROVE  /\ Beyond(s, k) \in Seq(S) /\ Len(s) \in Nat
           /\ Len(Beyond(s, k)) = IF k <= Len(s) THEN Len(s) - k ELSE 0
           /\ \A i \in 1 .. Len(Beyond(s, k)) : i + k \in 1 .. Len(s) /\ Beyond(s, k)[i] = s[i + k]
           /\ k = 0 => Beyond(s, k) = s
           /\ k >= Len(s) => Beyond(s, k) = <<>>
<1> DEFINE b == SubSeq(s, k + 1, Len(s))
<1>1. /\ b \in Seq(S) /\ Len(b) = IF k <= Len(s) THEN Len(s) - k ELSE 0
      /\ \A i \in 1 .. Len(b) : i + k \in 1 .. Len(s) /\ b[i] = s[i + k]
  BY DropFront
<1> HIDE DEF b
<1>2. Len(s) \in Nat /\ Len(b) \in Nat
  BY <1>1
<1>3. k = 0 => b = s
  <2>1. SUFFICES ASSUME k = 0 PROVE b = s
    OBVIOUS
  <2>2. Len(b) = Len(s) /\ \A i \in 1 .. Len(s) : b[i] = s[i]
    BY <1>1, <1>2, <2>1
  <2> QED BY <1>1, <2>2
<1>4. k >= Len(s) => b = <<>>
  <2>1. SUFFICES ASSUME k >= Len(s) PROVE b = <<>>
    OBVIOUS
  <2>2. Len(b) = 0
    BY <1>1, <1>2, <2>1
  <2> QED BY <1>1, <2>2
<1> QED BY <1>1, <1>2, <1>3, <1>4 DEF b, Beyond

\* Nothing is deleted.
LEMMA BeyondNone ==
    ASSUME NEW S, NEW s \in Seq(S)
    PROVE  Beyond(s, 0) = s
<1>1. 0 \in Nat
  OBVIOUS
<1> QED BY <1>1, BeyondIndex

\* The insertion and the deletion of what is beyond the limit.
LEMMA AppendedDeque ==
    ASSUME NEW e, e.rows \in Seq(Row), e.length \in Nat, NEW x \in Row
    PROVE  append_impl(e, x) = [rows   |-> Beyond(Append(e.rows, x), Over(e.length)),
                                length |-> e.length + 1 - Over(e.length)]
<1> DEFINE a == Append(e.rows, x)
<1>1. /\ MaxLen \in Nat /\ a \in Seq(Row) /\ Len(a) = Len(e.rows) + 1 /\ e.rows \o <<x>> = a
  BY DequeConstants
<1>2. CASE e.length + 1 > MaxLen
  <2>1. Over(e.length) + 1 = e.length + 2 - MaxLen /\ e.length + 1 - Over(e.length) = MaxLen
    BY <1>1, <1>2 DEF Over
  <2> QED BY <1>1, <1>2, <2>1 DEF append_impl, Beyond
<1>3. CASE ~(e.length + 1 > MaxLen)
  <2>1. Over(e.length) = 0
    BY <1>3 DEF Over
  <2>2. e.length + 1 - 0 = e.length + 1
    OBVIOUS
  <2>4. a \in Seq(Row) /\ 0 \in Nat
    BY <1>1
  <2> HIDE DEF a
  <2>5. Beyond(a, 0) = a
    BY <2>4, BeyondNone
  <2>3. append_impl(e, x) = [rows |-> a, length |-> e.length + 1]
    BY <1>3 DEF append_impl, a
  <2> QED BY <2>1, <2>2, <2>3, <2>5 DEF a
<1> QED BY <1>2, <1>3

\* append inserts the message, on the rows or on what a failure left of them, and deletes the
\* oldest beyond the limit, or fails.
LEMMA AppendCases ==
    ASSUME NEW d, d.rows \in Seq(Row), d.length \in Nat, NEW x \in Row, NEW o \in append(d, x)
    PROVE  /\ o.fault \in BOOLEAN
           /\ \/ /\ o.res = "ok" /\ o.lost = {}
                 /\ \E n \in {d.length, 0} : /\ o.d.rows = Beyond(Append(d.rows, x), Over(n))
                                             /\ o.d.length = n + 1 - Over(n)
              \/ /\ o.res = "ok" /\ o.lost = ToSet(d.rows) /\ o.d.rows = Beyond(<<x>>, Over(0))
                 /\ o.d.length = 1 - Over(0)
              \/ /\ o.res # "ok" /\ o.d.rows = d.rows /\ o.lost = {}
                 /\ o.d.length \in {0, 1}
              \/ /\ o.res # "ok" /\ o.d.rows = <<>> /\ o.lost = ToSet(d.rows)
                 /\ o.d.length \in {0, 1}
           /\ ~o.fault => /\ o.res = "ok" /\ o.d.rows = Beyond(Append(d.rows, x), Over(d.length))
                          /\ o.d.length = d.length + 1 - Over(d.length) /\ o.lost = {}
<1> DEFINE impl == [e \in Found(d) |-> Success(append_impl(e, x), "ok", NoItem)]
<1>1. d \in Found(d) /\ NoRows \in Found(d) /\ OldRows(d) \in Found(d)
  BY DEF Found, recreate_db, NoRows, OldRows
<1>3. /\ impl[d] = Success([rows   |-> Beyond(Append(d.rows, x), Over(d.length)),
                            length |-> d.length + 1 - Over(d.length)], "ok", NoItem)
      /\ impl[NoRows] = Success([rows   |-> Beyond(Append(<<>>, x), Over(0)),
                                 length |-> 0 + 1 - Over(0)], "ok", NoItem)
      /\ impl[OldRows(d)] = Success([rows   |-> Beyond(Append(d.rows, x), Over(0)),
                                     length |-> 0 + 1 - Over(0)], "ok", NoItem)
  <2>1. /\ impl[d] = Success(append_impl(d, x), "ok", NoItem)
        /\ impl[NoRows] = Success(append_impl(NoRows, x), "ok", NoItem)
        /\ impl[OldRows(d)] = Success(append_impl(OldRows(d), x), "ok", NoItem)
    BY <1>1
  <2>2. /\ NoRows.rows = <<>> /\ NoRows.length = 0 /\ OldRows(d).rows = d.rows
        /\ OldRows(d).length = 0 /\ <<>> \in Seq(Row) /\ 0 \in Nat
    BY DEF NoRows, OldRows
  <2>3. append_impl(d, x) = [rows   |-> Beyond(Append(d.rows, x), Over(d.length)),
                             length |-> d.length + 1 - Over(d.length)]
    BY AppendedDeque
  <2>4. append_impl(NoRows, x) = [rows   |-> Beyond(Append(NoRows.rows, x), Over(NoRows.length)),
                                  length |-> NoRows.length + 1 - Over(NoRows.length)]
    BY <2>2, AppendedDeque
  <2> DEFINE e == OldRows(d)
  <2>5. e.rows \in Seq(Row) /\ e.length \in Nat
    BY <2>2
  <2> HIDE DEF e
  <2>6. append_impl(e, x) = [rows   |-> Beyond(Append(e.rows, x), Over(e.length)),
                             length |-> e.length + 1 - Over(e.length)]
    BY <2>5, AppendedDeque
  <2>7. append_impl(OldRows(d), x) = [rows   |-> Beyond(Append(d.rows, x), Over(0)),
                                      length |-> 0 + 1 - Over(0)]
    BY <2>2, <2>6 DEF e
  <2> QED BY <2>1, <2>2, <2>3, <2>4, <2>7
<1>4. o \in execute(d, impl, 1)
  BY DEF append
<1> HIDE DEF impl
<1>5. Append(<<>>, x) = <<x>> /\ ToSet(d.rows) \ ToSet(<<>>) = ToSet(d.rows)
  BY ToSetEmpty
<1>6. CASE o = impl[d]
  BY <1>3, <1>6 DEF Success
<1>7. CASE Second(d, NoRows, impl[NoRows], 1, o)
  <2>1. CASE o = Again(d, NoRows, impl[NoRows])
    <3>1. o.res = "ok" /\ o.lost = ToSet(d.rows) /\ o.fault = TRUE
      BY <1>3, <1>5, <2>1 DEF Again, Success, NoRows
    <3>2. o.d.rows = Beyond(<<x>>, Over(0)) /\ o.d.length = 0 + 1 - Over(0)
      BY <1>3, <1>5, <2>1 DEF Again, Success
    <3>3. 0 + 1 - Over(0) = 1 - Over(0)
      BY DequeConstants DEF Over
    <3> QED BY <3>1, <3>2, <3>3
  <2>2. ASSUME NEW n \in 0 .. 1, o = Failed(d, NoRows, n)
        PROVE  /\ o.res # "ok" /\ o.d.rows = <<>> /\ o.lost = ToSet(d.rows)
               /\ o.d.length \in {0, 1} /\ o.fault = TRUE
    <3>1. n = 0 \/ n = 1
      OBVIOUS
    <3> QED BY <1>5, <2>2, <3>1 DEF Again, Failed, Success, NoRows
  <2> QED BY <1>7, <2>1, <2>2 DEF Second
<1>8. CASE Second(d, OldRows(d), impl[OldRows(d)], 1, o)
  <2>1. CASE o = Again(d, OldRows(d), impl[OldRows(d)])
    BY <1>3, <2>1 DEF Again, Success, OldRows
  <2>2. ASSUME NEW n \in 0 .. 1, o = Failed(d, OldRows(d), n)
        PROVE  /\ o.res # "ok" /\ o.d.rows = d.rows /\ o.lost = {}
               /\ o.d.length \in {0, 1} /\ o.fault = TRUE
    <3>1. n = 0 \/ n = 1
      OBVIOUS
    <3> QED BY <2>2, <3>1 DEF Again, Failed, Success, OldRows
  <2> QED BY <1>8, <2>1, <2>2 DEF Second
<1> QED BY <1>4, <1>6, <1>7, <1>8, Outcomes
----------------------------------------------------------------------------
(* The lock *)

\* While one coroutine holds the lock no other is past it.
LEMMA OthersOut ==
    ASSUME NEW p, NEW w, Control(p, w), NEW a, Head(w) = a
    PROVE  \A b \in Actor : b # a => p[b] \in Away \cup {"lock"}
  BY DEF Control

\* The holder goes on.
LEMMA HolderMoves ==
    ASSUME NEW p \in [Actor -> Place], NEW w \in Seq(Actor), Control(p, w),
           NEW a \in Actor, w # <<>>, Head(w) = a, NEW l \in Place, l \notin Away,
           a = Conn => l \notin {"publish", "spool", "append"}
    PROVE  /\ Control([p EXCEPT ![a] = l], w) /\ [p EXCEPT ![a] = l] \in [Actor -> Place]
           /\ p[a] \notin Away
<1> DEFINE q == [p EXCEPT ![a] = l]
<1>1. q \in [Actor -> Place] /\ q[a] = l /\ \A b \in Actor : b # a => q[b] = p[b]
  OBVIOUS
<1>2. p[a] \notin Away
  <2>1. a = w[1] /\ 1 \in 1 .. Len(w)
    BY TailIndex
  <2> QED BY <2>1 DEF Control, Lists, Engaged
<1> HIDE DEF q
<1>3. Engaged(q) = Engaged(p)
  BY <1>1, <1>2 DEF Engaged
<1>4. Conn \in Actor /\ Worker \in Actor /\ Worker \in Publisher /\ Conn \notin Publisher
      /\ Conn # Worker
  BY SpoolConstants DEF Actor, Publisher
<1>5. Control(q, w)
  <2>1. \A b \in Actor : q[b] \notin Away \cup {"lock"} => w # <<>> /\ Head(w) = b
    BY <1>1 DEF Control
  <2>2. /\ \A x \in Publisher : q[x] \notin {"event", "read", "ended"}
        /\ q[Conn] \notin {"publish", "spool", "append"}
    BY <1>1, <1>4 DEF Control, Away, Actor
  <2>3. q[Worker] # "idle" => q[Conn] = "read"
    BY <1>1, <1>2, <1>4 DEF Control, Away
  <2> QED BY <1>3, <2>1, <2>2, <2>3 DEF Control
<1> QED BY <1>1, <1>2, <1>5 DEF q

\* The holder releases the lock; the connection ends with an exception of the worker.
LEMMA HolderLeaves ==
    ASSUME NEW p \in [Actor -> Place], NEW w \in Seq(Actor), Control(p, w),
           NEW a \in Actor, w # <<>>, Head(w) = a, NEW q \in [Actor -> Place],
           q[a] \in Away, a \in Publisher => q[a] = "idle",
           \A b \in Actor \ {a} : q[b] = p[b] \/ (b = Conn /\ a = Worker /\ q[b] = "idle")
    PROVE  Control(q, Tail(w)) /\ Tail(w) \in Seq(Actor) /\ p[a] \notin Away
<1>1. p[a] \notin Away
  <2>1. a = w[1] /\ 1 \in 1 .. Len(w)
    BY TailIndex
  <2> QED BY <2>1 DEF Control, Lists, Engaged
<1>2. Conn \in Actor /\ Worker \in Actor /\ Worker \in Publisher /\ Conn \notin Publisher
      /\ Conn # Worker
  BY SpoolConstants DEF Actor, Publisher
<1>3. Tail(w) \in Seq(Actor) /\ Lists(Tail(w), Engaged(p) \ {a})
  BY ListsTail DEF Control
<1>4. a = Worker => p[Conn] = "read"
  BY <1>1 DEF Control, Away
<1>5. Engaged(q) = Engaged(p) \ {a}
  BY <1>2, <1>4 DEF Engaged, Away
<1>6. \A b \in Actor : q[b] \in Away \cup {"lock"}
  BY OthersOut DEF Away
<1>7. /\ \A x \in Publisher : q[x] \notin {"event", "read", "ended"}
      /\ q[Conn] \notin {"publish", "spool", "append"}
  BY <1>2, <1>6 DEF Control, Away, Actor
<1>8. q[Worker] # "idle" => q[Conn] = "read"
  BY <1>1, <1>2, <1>4 DEF Control, Away
<1> QED BY <1>1, <1>3, <1>5, <1>6, <1>7, <1>8 DEF Control

\* A coroutine asks for the lock.
LEMMA AsksForLock ==
    ASSUME NEW p \in [Actor -> Place], NEW w \in Seq(Actor), Control(p, w),
           NEW a \in Actor, p[a] \in {"idle", "event"}, a = Worker => p[Conn] = "read"
    PROVE  /\ Control([p EXCEPT ![a] = "lock"], Append(w, a)) /\ Append(w, a) \in Seq(Actor)
           /\ [p EXCEPT ![a] = "lock"] \in [Actor -> Place]
<1> DEFINE q == [p EXCEPT ![a] = "lock"]
           S == Engaged(p)
<1>1. q \in [Actor -> Place] /\ q[a] = "lock" /\ \A b \in Actor : b # a => q[b] = p[b]
  BY DEF Place
<1>2. Conn \in Actor /\ Worker \in Actor /\ Worker \in Publisher /\ Conn \notin Publisher
      /\ Conn # Worker
  BY SpoolConstants DEF Actor, Publisher
<1> HIDE DEF q
<1>3. a \notin S /\ Engaged(q) = S \cup {a} /\ Lists(w, S)
  BY <1>1 DEF Engaged, Away, Control
<1> HIDE DEF S
<1>4. Append(w, a) \in Seq(Actor) /\ Lists(Append(w, a), S \cup {a})
  BY <1>3, ListsAppend
<1>5. \A b \in Actor : q[b] \notin Away \cup {"lock"} => Append(w, a) # <<>> /\ Head(Append(w, a)) = b
  <2>1. SUFFICES ASSUME NEW b \in Actor, q[b] \notin Away \cup {"lock"}
                 PROVE  Append(w, a) # <<>> /\ Head(Append(w, a)) = b
    OBVIOUS
  <2>2. w # <<>> /\ Head(w) = b
    BY <1>1, <2>1 DEF Control
  <2> QED BY <2>2
<1>6. /\ \A x \in Publisher : q[x] \notin {"event", "read", "ended"}
      /\ q[Conn] \notin {"publish", "spool", "append"}
      /\ q[Worker] # "idle" => q[Conn] = "read"
  BY <1>1, <1>2 DEF Control, Actor
<1>7. Control(q, Append(w, a))
  BY <1>3, <1>4, <1>5, <1>6 DEF Control
<1> QED BY <1>1, <1>4, <1>7 DEF q

\* The connection begins or ends outside the lock, without a worker.
LEMMA ConnMoves ==
    ASSUME NEW p \in [Actor -> Place], NEW w, Control(p, w), p[Conn] \in {"idle", "event"},
           NEW l \in {"idle", "event"}
    PROVE  Control([p EXCEPT ![Conn] = l], w) /\ [p EXCEPT ![Conn] = l] \in [Actor -> Place]
<1> DEFINE q == [p EXCEPT ![Conn] = l]
<1>1. Conn \in Actor /\ Worker \in Actor /\ Worker \in Publisher /\ Conn \notin Publisher
      /\ Conn # Worker
  BY SpoolConstants DEF Actor, Publisher
<1>2. q \in [Actor -> Place] /\ q[Conn] = l /\ \A b \in Actor : b # Conn => q[b] = p[b]
  BY <1>1 DEF Place
<1> HIDE DEF q
<1>3. Engaged(q) = Engaged(p)
  BY <1>2 DEF Engaged, Away
<1>4. \A b \in Actor : q[b] \notin Away \cup {"lock"} => w # <<>> /\ Head(w) = b
  BY <1>2 DEF Control, Away
<1>5. Control(q, w)
  BY <1>1, <1>2, <1>3, <1>4 DEF Control, Actor
<1> QED BY <1>2, <1>5 DEF q

\* The lock's queue without one of its coroutines.
LEMMA QueueWithout ==
    ASSUME NEW w \in Seq(Actor), NEW S, NEW a, Lists(w, S)
    PROVE  /\ RemoveFirst(w, a) \in Seq(Actor) /\ Lists(RemoveFirst(w, a), S \ {a})
           /\ w # <<>> /\ Head(w) # a => RemoveFirst(w, a) # <<>> /\ Head(RemoveFirst(w, a)) = Head(w)
  BY ListsRemove

\* The session ends, and the worker is cancelled wherever it is.
LEMMA WorkerCancelled ==
    ASSUME NEW p \in [Actor -> Place], NEW w \in Seq(Actor), Control(p, w), p[Conn] = "read",
           NEW q \in [Actor -> Place], q[Conn] \in {"idle", "ended"}, q[Worker] = "idle",
           \A b \in Actor : b # Conn /\ b # Worker => q[b] = p[b]
    PROVE  Control(q, RemoveFirst(w, Worker)) /\ RemoveFirst(w, Worker) \in Seq(Actor)
<1>1. Conn \in Actor /\ Worker \in Actor /\ Worker \in Publisher /\ Conn \notin Publisher
      /\ Conn # Worker
  BY SpoolConstants DEF Actor, Publisher
<1> DEFINE v == RemoveFirst(w, Worker)
           S == Engaged(p)
<1>3. Lists(w, S) /\ Engaged(q) = S \ {Worker}
  BY <1>1 DEF Control, Engaged, Away
<1> HIDE DEF S
<1>4. /\ v \in Seq(Actor) /\ Lists(v, S \ {Worker})
      /\ w # <<>> /\ Head(w) # Worker => v # <<>> /\ Head(v) = Head(w)
  BY <1>3, QueueWithout
<1> HIDE DEF v
<1>5. \A b \in Actor : q[b] \notin Away \cup {"lock"} => v # <<>> /\ Head(v) = b
  BY <1>4 DEF Control, Away
<1>6. Control(q, v)
  BY <1>1, <1>3, <1>4, <1>5 DEF Control, Actor
<1> QED BY <1>4, <1>6 DEF v
----------------------------------------------------------------------------
(* The messages *)

\* The publishers in D let go of their messages; the others are as they were.
LEMMA HandsStep ==
    ASSUME NEW p, NEW g, NEW f, Hands(p, g, f), NEW D, NEW q, NEW h, NEW e,
           \A x \in Publisher : x \in D => q[x] = "idle" /\ h[x] = NoItem,
           \A x \in Publisher : x \notin D => h[x] = g[x] /\ (q[x] = "idle" <=> p[x] = "idle"),
           g \in [Publisher -> Msg \cup {NoItem}],
           \A m \in Msg : e[m] = "hand" <=> f[m] = "hand" /\ ~ \E x \in Publisher : x \in D /\ g[x] = m
    PROVE  Hands(q, h, e)
<1>1. \A x \in Publisher : q[x] = "idle" <=> h[x] = NoItem
  BY DEF Hands
<1>2. \A x \in Publisher : h[x] # NoItem => e[h[x]] = "hand"
  <2>1. SUFFICES ASSUME NEW x \in Publisher, h[x] # NoItem PROVE e[h[x]] = "hand"
    OBVIOUS
  <2>2. x \notin D /\ h[x] = g[x] /\ g[x] \in Msg /\ f[g[x]] = "hand"
    BY <2>1 DEF Hands
  <2>3. ~ \E y \in Publisher : y \in D /\ g[y] = g[x]
    BY <2>1, <2>2 DEF Hands
  <2> QED BY <2>2, <2>3
<1>3. \A x, y \in Publisher : h[x] = h[y] /\ h[x] # NoItem => x = y
  BY DEF Hands
<1>4. \A m \in Msg : e[m] = "hand" => \E x \in Publisher : h[x] = m
  BY DEF Hands
<1> QED BY <1>1, <1>2, <1>3, <1>4 DEF Hands

\* A publisher takes a new message.
LEMMA HandsTake ==
    ASSUME NEW p, NEW g \in [Publisher -> Msg \cup {NoItem}], NEW f \in [Msg -> Fate],
           Hands(p, g, f), NEW x \in Publisher, NEW m \in Msg, f[m] = "new", NEW q, q[x] # "idle",
           \A y \in Publisher : y # x => q[y] = p[y], p[x] = "idle"
    PROVE  Hands(q, [g EXCEPT ![x] = m], [f EXCEPT ![m] = "hand"])
<1> DEFINE h == [g EXCEPT ![x] = m]
           e == [f EXCEPT ![m] = "hand"]
<1>1. /\ h[x] = m /\ \A y \in Publisher : y # x => h[y] = g[y]
      /\ e[m] = "hand" /\ \A n \in Msg : n # m => e[n] = f[n]
      /\ m # NoItem
  BY SpoolConstants DEF Msg
<1>2. \A y \in Publisher : g[y] # m /\ g[y] \in Msg \cup {NoItem}
  BY <1>1 DEF Hands
<1>3. g[x] = NoItem
  BY DEF Hands
<1> HIDE DEF h, e
<1>4. \A y \in Publisher : h[y] # NoItem => e[h[y]] = "hand"
  BY <1>1, <1>2 DEF Hands
<1>5. \A y, z \in Publisher : h[y] = h[z] /\ h[y] # NoItem => y = z
  BY <1>1, <1>2 DEF Hands
<1>6. \A n \in Msg : e[n] = "hand" => \E y \in Publisher : h[y] = n
  BY <1>1, <1>3, SpoolConstants DEF Hands, Msg
<1>7. \A y \in Publisher : q[y] = "idle" <=> h[y] = NoItem
  BY <1>1 DEF Hands
<1>8. Hands(q, h, e)
  BY <1>4, <1>5, <1>6, <1>7 DEF Hands
<1> QED BY <1>8 DEF h, e

\* The rows stay; a message that was one may be sent.
LEMMA StoredKept ==
    ASSUME NEW r \in Seq(Row), NEW f, NEW e, Stored(r, f),
           \A m \in Msg : f[m] \in {"kept", "sent"} => e[m] \in {"kept", "sent"},
           \A m \in Msg : e[m] = "kept" => f[m] = "kept"
    PROVE  Stored(r, e)
<1>1. \A i \in 1 .. Len(r) : r[i] # Bad => r[i] \in Msg
  BY DEF Row
<1> QED BY <1>1 DEF Stored

\* The first row goes: it was sent, was no message, or is given up.
LEMMA StoredTail ==
    ASSUME NEW r \in Seq(Row), r # <<>>, NEW f, NEW e, Stored(r, f),
           \A m \in Msg : m # Head(r) => e[m] = f[m],
           Head(r) \in Msg => e[Head(r)] # "kept"
    PROVE  Stored(Tail(r), e)
<1> DEFINE t == Tail(r)
           b == Head(r)
<1>1. /\ b = r[1] /\ 1 \in 1 .. Len(r) /\ Len(t) \in Nat
      /\ \A i \in 1 .. Len(t) : i + 1 \in 1 .. Len(r) /\ t[i] = r[i + 1]
      /\ \A i \in 1 .. Len(r) : i = 1 \/ (i - 1 \in 1 .. Len(t) /\ t[i - 1] = r[i])
  BY TailIndex
<1>2. \A i \in 1 .. Len(r) : r[i] # Bad => r[i] \in Msg
  BY DEF Row
<1>3. (\A m \in Msg : m # b => e[m] = f[m]) /\ (b \in Msg => e[b] # "kept")
  OBVIOUS
<1> HIDE DEF t, b
<1>4. ASSUME NEW i \in 1 .. Len(t), NEW k \in 1 .. Len(t), t[i] = t[k], t[i] # Bad
      PROVE  i = k
  <2>1. i + 1 = k + 1
    BY <1>1, <1>4 DEF Stored
  <2> QED BY <2>1
<1>5. ASSUME NEW i \in 1 .. Len(t), t[i] # Bad
      PROVE  e[t[i]] \in {"kept", "sent"}
  <2>1. i + 1 # 1 /\ i + 1 \in 1 .. Len(r) /\ t[i] = r[i + 1]
    BY <1>1
  <2>2. t[i] # b /\ t[i] \in Msg
    BY <1>1, <1>2, <1>5, <2>1 DEF Stored
  <2> QED BY <1>3, <1>5, <2>1, <2>2 DEF Stored
<1>6. ASSUME NEW m \in Msg, e[m] = "kept"
      PROVE  \E i \in 1 .. Len(t) : t[i] = m
  <2>1. m # b /\ f[m] = "kept"
    BY <1>3, <1>6
  <2>2. PICK i \in 1 .. Len(r) : r[i] = m
    BY <2>1 DEF Stored
  <2>3. i - 1 \in 1 .. Len(t) /\ t[i - 1] = m
    BY <1>1, <2>1, <2>2
  <2> QED BY <2>3
<1>7. Stored(t, e)
  BY <1>4, <1>5, <1>6 DEF Stored
<1> QED BY <1>7 DEF t

\* A message that is no row becomes the last one.
LEMMA StoredAppend ==
    ASSUME NEW r \in Seq(Row), NEW f, NEW e, Stored(r, f), NEW m \in Msg,
           f[m] \notin {"kept", "sent"}, e[m] = "kept", \A n \in Msg : n # m => e[n] = f[n]
    PROVE  Stored(Append(r, m), e)
<1> DEFINE t == Append(r, m)
<1>1. /\ Len(r) \in Nat /\ Len(r) + 1 \in 1 .. Len(t) /\ t[Len(r) + 1] = m
      /\ \A i \in 1 .. Len(t) : (i \in 1 .. Len(r) /\ t[i] = r[i]) \/ i = Len(r) + 1
      /\ \A i \in 1 .. Len(r) : i \in 1 .. Len(t) /\ t[i] = r[i]
  BY AppendIndex DEF Row
<1>2. \A i \in 1 .. Len(r) : r[i] # m /\ (r[i] # Bad => r[i] \in Msg)
  BY SpoolConstants DEF Row, Stored, Msg
<1> HIDE DEF t
<1>3. \A i, k \in 1 .. Len(t) : t[i] = t[k] /\ t[i] # Bad => i = k
  BY <1>1, <1>2 DEF Stored
<1>4. \A i \in 1 .. Len(t) : t[i] # Bad => e[t[i]] \in {"kept", "sent"}
  BY <1>1, <1>2 DEF Stored
<1>5. \A n \in Msg : e[n] = "kept" => \E i \in 1 .. Len(t) : t[i] = n
  BY <1>1 DEF Stored
<1>6. Stored(t, e)
  BY <1>3, <1>4, <1>5 DEF Stored
<1> QED BY <1>6 DEF t

\* The oldest rows are deleted, and the messages that they were count as evicted.
LEMMA StoredEvicted ==
    ASSUME NEW r \in Seq(Row), NEW f \in [Msg -> Fate], Stored(r, f), NEW k \in Nat,
           NEW o, o.d.rows = Beyond(r, k)
    PROVE  /\ Stored(o.d.rows, Evicted(f, o)) /\ Evicted(f, o) \in [Msg -> Fate]
           /\ \A m \in Msg : \/ Evicted(f, o)[m] = f[m]
                             \/ f[m] = "kept" /\ Evicted(f, o)[m] = "evicted" /\ k > 0
<1> DEFINE t == o.d.rows
           e == Evicted(f, o)
<1>1. /\ t \in Seq(Row) /\ Len(t) \in Nat /\ Len(r) \in Nat /\ (k = 0 => t = r)
      /\ \A i \in 1 .. Len(t) : i + k \in 1 .. Len(r) /\ t[i] = r[i + k]
  BY BeyondIndex
<1>2. \A m \in Msg : e[m] = IF f[m] = "kept" /\ m \notin ToSet(t) THEN "evicted" ELSE f[m]
  BY DEF Evicted
<1>3. e \in [Msg -> Fate]
  BY DEF Evicted, Fate, Given
<1> HIDE DEF t, e
<1>4. \A x : x \in ToSet(t) <=> \E i \in 1 .. Len(t) : t[i] = x
  BY <1>1, ToSetIndex
<1>5. \A i \in 1 .. Len(t) : t[i] # Bad => t[i] \in Msg
  BY <1>1 DEF Row
<1>6. ASSUME NEW i \in 1 .. Len(t), NEW j \in 1 .. Len(t), t[i] = t[j], t[i] # Bad
      PROVE  i = j
  <2>1. /\ i + k \in 1 .. Len(r) /\ j + k \in 1 .. Len(r)
        /\ r[i + k] = r[j + k] /\ r[i + k] # Bad
    BY <1>1, <1>6
  <2>2. i + k = j + k
    BY <2>1 DEF Stored
  <2> QED BY <1>1, <2>2
<1>7. ASSUME NEW i \in 1 .. Len(t), t[i] # Bad
      PROVE  e[t[i]] \in {"kept", "sent"}
  <2>1. f[t[i]] \in {"kept", "sent"}
    BY <1>1, <1>7 DEF Stored
  <2> QED BY <1>2, <1>4, <1>5, <1>7, <2>1
<1>8. \A m \in Msg : e[m] = "kept" => \E i \in 1 .. Len(t) : t[i] = m
  BY <1>2, <1>4
<1>9. Stored(t, e)
  BY <1>6, <1>7, <1>8 DEF Stored
<1>10. k = 0 => \A m \in Msg : f[m] = "kept" => m \in ToSet(t)
  BY <1>1, <1>4 DEF Stored
<1>11. \A m \in Msg : e[m] = f[m] \/ (f[m] = "kept" /\ e[m] = "evicted" /\ k > 0)
  BY <1>2, <1>10
<1> QED BY <1>3, <1>9, <1>11 DEF t, e

\* No row is left, and no message counts as kept.
LEMMA StoredEmpty ==
    ASSUME NEW e, \A m \in Msg : e[m] # "kept"
    PROVE  Stored(<<>>, e)
<1>1. Len(<<>>) = 0
  OBVIOUS
<1> QED BY <1>1 DEF Stored

\* A message is sent.
LEMMA RecordedSend ==
    ASSUME NEW s \in Seq(Msg), NEW f \in [Msg -> Fate], Recorded(s, f), NEW m \in Msg
    PROVE  Recorded(Append(s, m), [f EXCEPT ![m] = "sent"])
<1> DEFINE t == Append(s, m)
           e == [f EXCEPT ![m] = "sent"]
<1>1. /\ Len(s) + 1 \in 1 .. Len(t) /\ t[Len(s) + 1] = m
      /\ \A i \in 1 .. Len(t) : (i \in 1 .. Len(s) /\ t[i] = s[i]) \/ i = Len(s) + 1
      /\ \A i \in 1 .. Len(s) : i \in 1 .. Len(t) /\ t[i] = s[i]
  BY AppendIndex
<1>2. e[m] = "sent" /\ \A n \in Msg : n # m => e[n] = f[n]
  OBVIOUS
<1> HIDE DEF t, e
<1>3. Recorded(t, e)
  BY <1>1, <1>2 DEF Recorded
<1> QED BY <1>3 DEF t, e

\* As many messages are sent as before.
LEMMA RecordedKept ==
    ASSUME NEW s, NEW f, NEW e, Recorded(s, f), \A m \in Msg : e[m] = "sent" <=> f[m] = "sent"
    PROVE  Recorded(s, e)
  BY DEF Recorded
----------------------------------------------------------------------------
(* The steps *)

\* The invariant, with the names of this module for the sets.
LEMMA Parts ==
    ASSUME IInv
    PROVE  /\ pc \in [Actor -> Place] /\ msg \in [Publisher -> Msg \cup {NoItem}]
           /\ lockQ \in Seq(Actor) /\ spool.rows \in Seq(Row) /\ spool.length \in Nat
           /\ fate \in [Msg -> Fate] /\ sends \in Seq(Msg) /\ faults \in 0 .. MaxFaults
           /\ Control(pc, lockQ) /\ Hands(pc, msg, fate) /\ Stored(spool.rows, fate)
           /\ Recorded(sends, fate) /\ Ready(pc, spool, fate) /\ Counted(spool)
  BY DEF IInv, TypeOK, Place, Row, Fate

\* The parts make the invariant.
LEMMA Assemble ==
    ASSUME pc' \in [Actor -> Place], msg' \in [Publisher -> Msg \cup {NoItem}],
           lockQ' \in Seq(Actor), (spool').rows \in Seq(Row), (spool').length \in Nat,
           fate' \in [Msg -> Fate], sends' \in Seq(Msg), faults' \in 0 .. MaxFaults,
           Control(pc', lockQ'), Hands(pc', msg', fate'), Stored((spool').rows, fate'),
           Recorded(sends', fate'), Ready(pc', spool', fate'), Counted(spool')
    PROVE  IInv'
  BY DEF IInv, TypeOK, Place, Row, Fate, Control, Hands, Stored, Recorded, Ready, Counted,
         Lists, Engaged, Knows, Away

\* A failure is counted.
LEMMA FaultType ==
    ASSUME faults \in 0 .. MaxFaults
    PROVE  /\ Fault => faults' \in 0 .. MaxFaults /\ faults' = faults + 1
           /\ UNCHANGED faults => faults' \in 0 .. MaxFaults
  BY SpoolConstants DEF Fault

\* An operation of the spool.
LEMMA DidSpool ==
    ASSUME faults \in 0 .. MaxFaults, NEW o, o.fault \in BOOLEAN, Did(o)
    PROVE  spool' = o.d /\ faults' \in 0 .. MaxFaults
<1>1. CASE o.fault = TRUE
  BY <1>1, FaultType DEF Did
<1>2. CASE o.fault = FALSE
  BY <1>2, FaultType DEF Did
<1> QED BY <1>1, <1>2

\* When no row was deleted no fate changes; when all were, no message counts as kept.
LEMMA WipedFates ==
    ASSUME NEW o, fate \in [Msg -> Fate], spool.rows \in Seq(Row), Stored(spool.rows, fate)
    PROVE  /\ Wiped(o) \in [Msg -> Fate]
           /\ \A m \in Msg : Wiped(o)[m] = fate[m] \/ (fate[m] = "kept" /\ Wiped(o)[m] = "wiped")
           /\ o.lost = {} => Wiped(o) = fate
           /\ o.lost = ToSet(spool.rows) => \A m \in Msg : Wiped(o)[m] # "kept"
<1> DEFINE e == Wiped(o)
<1>1. \A m \in Msg : e[m] = IF m \in o.lost /\ fate[m] = "kept" THEN "wiped" ELSE fate[m]
  BY DEF Wiped
<1>2. \A m \in Msg : fate[m] = "kept" => m \in ToSet(spool.rows)
  BY ToSetIndex DEF Stored
<1>3. e \in [Msg -> Fate] /\ (o.lost = {} => e = fate)
  BY DEF Wiped, Fate, Given
<1> QED BY <1>1, <1>2, <1>3

\* The holder of the lock goes on to l.
LEMMA MoveInv ==
    ASSUME IInv, NEW a \in Actor, Holds(a), NEW l \in Place, l \notin Away,
           a = Conn => l \notin {"publish", "spool", "append"},
           pc' = [pc EXCEPT ![a] = l], UNCHANGED <<msg, lockQ>>,
           (spool').rows \in Seq(Row), (spool').length \in Nat, fate' \in [Msg -> Fate],
           sends' \in Seq(Msg), faults' \in 0 .. MaxFaults,
           \A m \in Msg : fate'[m] = "hand" <=> fate[m] = "hand",
           Stored((spool').rows, fate'), Recorded(sends', fate'), Counted(spool'),
           Knows(l, spool', fate')
    PROVE  IInv'
<1>1. Control(pc', lockQ') /\ pc' \in [Actor -> Place] /\ pc[a] \notin Away
  BY Parts, HolderMoves DEF Holds
<1>2. pc'[a] = l /\ \A b \in Actor : b # a => pc'[b] = pc[b] /\ pc[b] \in Away \cup {"lock"}
  BY Parts, OthersOut DEF Holds
<1>3. Hands(pc', msg', fate')
  <2>1. /\ \A x \in Publisher : msg'[x] = msg[x] /\ (pc'[x] = "idle" <=> pc[x] = "idle")
        /\ Hands(pc, msg, fate) /\ \A m \in Msg : fate'[m] = "hand" <=> fate[m] = "hand"
    BY <1>1, <1>2, Parts DEF Away, Actor
  <2>2. msg \in [Publisher -> Msg \cup {NoItem}]
    BY Parts
  <2> QED BY <2>1, <2>2 DEF Hands
<1>4. Ready(pc', spool', fate')
  <2>1. \A b \in Actor : b # a => Knows(pc'[b], spool', fate')
    BY <1>2 DEF Knows, Away
  <2> QED BY <1>2, <2>1 DEF Ready
<1>5. msg' \in [Publisher -> Msg \cup {NoItem}] /\ lockQ' \in Seq(Actor)
  BY Parts
<1> QED BY <1>1, <1>3, <1>4, <1>5, Assemble

\* The holder releases the lock, and a publisher lets go of its message.
LEMMA LeaveInv ==
    ASSUME IInv, NEW a \in Actor, Holds(a), pc' \in [Actor -> Place], pc'[a] \in Away,
           a \in Publisher => pc'[a] = "idle" /\ msg' = [msg EXCEPT ![a] = NoItem],
           a = Conn => msg' = msg,
           \A b \in Actor \ {a} : pc'[b] = pc[b] \/ (b = Conn /\ a = Worker /\ pc'[b] = "idle"),
           lockQ' = Tail(lockQ),
           (spool').rows \in Seq(Row), (spool').length \in Nat, fate' \in [Msg -> Fate],
           sends' \in Seq(Msg), faults' \in 0 .. MaxFaults,
           \A m \in Msg : fate'[m] = "hand" <=> fate[m] = "hand" /\ ~(a \in Publisher /\ msg[a] = m),
           Stored((spool').rows, fate'), Recorded(sends', fate'), Counted(spool')
    PROVE  IInv'
<1>1. Control(pc', lockQ') /\ lockQ' \in Seq(Actor) /\ pc[a] \notin Away
  BY Parts, HolderLeaves, ZenonT(30) DEF Holds
<1>2. \A b \in Actor : pc'[b] \in Away \cup {"lock"}
  BY Parts, OthersOut DEF Holds, Away
<1>3. Ready(pc', spool', fate')
  BY <1>2 DEF Ready, Knows, Away
<1>4. Conn \notin Publisher /\ Actor = Publisher \cup {Conn}
  BY SpoolConstants DEF Actor, Publisher
<1> DEFINE D == {a}
<1>5. /\ msg' \in [Publisher -> Msg \cup {NoItem}]
      /\ \A x \in Publisher : x \in D => pc'[x] = "idle" /\ msg'[x] = NoItem
      /\ \A x \in Publisher : x \notin D => msg'[x] = msg[x] /\ (pc'[x] = "idle" <=> pc[x] = "idle")
  BY <1>4, Parts
<1>6. \A m \in Msg : fate'[m] = "hand" <=>
                       fate[m] = "hand" /\ ~ \E x \in Publisher : x \in D /\ msg[x] = m
  OBVIOUS
<1>7. Hands(pc, msg, fate) /\ msg \in [Publisher -> Msg \cup {NoItem}]
  BY Parts
<1> HIDE DEF D
<1>8. Hands(pc', msg', fate')
  BY <1>5, <1>6, <1>7, HandsStep
<1> QED BY <1>1, <1>3, <1>5, <1>8, Assemble

\* The rows stay and what was sent stays sent.
LEMMA ReadyKept ==
    ASSUME NEW p, NEW q, NEW d, NEW f, NEW e, Ready(p, d, f), d.rows \in Seq(Row),
           \A a \in Actor : q[a] = p[a] \/ q[a] \in Away \cup {"lock"},
           \A m \in Msg : f[m] = "sent" => e[m] = "sent"
    PROVE  Ready(q, d, e)
<1>1. SUFFICES ASSUME NEW a \in Actor PROVE Knows(q[a], d, e)
  BY DEF Ready
<1>2. CASE q[a] \in Away \cup {"lock"}
  BY <1>2 DEF Knows, Away
<1>3. CASE q[a] = p[a]
  <2>1. Knows(p[a], d, f)
    BY DEF Ready
  <2>2. d.rows # <<>> /\ Head(d.rows) # Bad => Head(d.rows) \in Msg
    BY TailIndex DEF Row
  <2> QED BY <1>3, <2>1, <2>2 DEF Knows
<1> QED BY <1>2, <1>3

\* The fate of a message that is neither kept nor sent concerns neither rows nor sends.
LEMMA OneFate ==
    ASSUME IInv, NEW m \in Msg, NEW e, fate[m] \notin {"kept", "sent"},
           e[m] \notin {"kept", "sent"}, \A n \in Msg : n # m => e[n] = fate[n]
    PROVE  Stored(spool.rows, e) /\ Recorded(sends, e)
<1>1. /\ \A n \in Msg : fate[n] \in {"kept", "sent"} => e[n] \in {"kept", "sent"}
      /\ \A n \in Msg : e[n] = "kept" => fate[n] = "kept"
      /\ \A n \in Msg : e[n] = "sent" <=> fate[n] = "sent"
  OBVIOUS
<1>2. Stored(spool.rows, fate) /\ Recorded(sends, fate) /\ spool.rows \in Seq(Row)
  BY Parts
<1>3. Stored(spool.rows, e)
  BY <1>1, <1>2, StoredKept
<1> QED BY <1>1, <1>2, <1>3, RecordedKept

\* A publisher that holds the lock has a message in hand.
LEMMA InHand ==
    ASSUME IInv, NEW p \in Publisher, Holds(p)
    PROVE  msg[p] \in Msg /\ fate[msg[p]] = "hand" /\ p \in Actor /\ p # Conn
<1>1. p \in Actor /\ p # Conn
  BY SpoolConstants DEF Actor, Publisher
<1>2. p = lockQ[1] /\ 1 \in 1 .. Len(lockQ)
  BY Parts, TailIndex DEF Holds
<1>3. pc[p] # "idle"
  BY <1>2, Parts DEF Control, Lists, Engaged, Away
<1> QED BY <1>1, <1>3, Parts DEF Hands

\* The fates after an operation that left the rows or deleted all of them.
LEMMA SpoolStep ==
    ASSUME IInv, NEW o, o.fault \in BOOLEAN, Did(o), Untouched(spool, o) \/ Emptied(spool, o),
           fate' = Wiped(o)
    PROVE  /\ (spool').rows \in Seq(Row) /\ (spool').length \in Nat /\ fate' \in [Msg -> Fate]
           /\ faults' \in 0 .. MaxFaults
           /\ \A m \in Msg : fate'[m] = "hand" <=> fate[m] = "hand"
           /\ Stored((spool').rows, fate') /\ Recorded(sends, fate') /\ Counted(spool')
           /\ Untouched(spool, o) => (spool').rows = spool.rows /\ fate' = fate
<1>1. spool' = o.d /\ faults' \in 0 .. MaxFaults
  BY Parts, DidSpool
<1>2. /\ fate' \in [Msg -> Fate]
      /\ \A m \in Msg : fate'[m] = fate[m] \/ (fate[m] = "kept" /\ fate'[m] = "wiped")
      /\ o.lost = {} => fate' = fate
      /\ o.lost = ToSet(spool.rows) => \A m \in Msg : fate'[m] # "kept"
  BY Parts, WipedFates
<1>3. Recorded(sends, fate')
  BY <1>2, Parts, RecordedKept
<1>4. CASE Untouched(spool, o)
  <2>1. (spool').rows = spool.rows /\ fate' = fate /\ (spool').length \in {spool.length, 0}
    BY <1>1, <1>2, <1>4 DEF Untouched
  <2>2. Counted(spool') /\ (spool').length \in Nat
    BY <2>1, Parts DEF Counted
  <2> QED BY <1>1, <1>2, <1>3, <2>1, <2>2, Parts
<1>5. CASE Emptied(spool, o) /\ ~Untouched(spool, o)
  <2>1. (spool').rows = <<>> /\ (spool').length = 0 /\ \A m \in Msg : fate'[m] # "kept"
    BY <1>1, <1>2, <1>5 DEF Emptied
  <2>2. Stored((spool').rows, fate')
    BY <2>1, StoredEmpty
  <2>3. Counted(spool') /\ (spool').rows \in Seq(Row)
    BY <2>1 DEF Counted
  <2> QED BY <1>1, <1>2, <1>3, <1>5, <2>1, <2>2, <2>3
<1> QED BY <1>4, <1>5

\* An exception leaves the call of the holder.
LEMMA RaiseInv ==
    ASSUME IInv, NEW a \in Actor, Holds(a), Raise(a)
    PROVE  IInv'
<1>1. Conn \notin Publisher /\ Actor = Publisher \cup {Conn} /\ Worker \in Publisher
  BY SpoolConstants DEF Actor, Publisher
<1>2. /\ pc' \in [Actor -> Place] /\ pc'[a] = "idle" /\ lockQ' = Tail(lockQ)
      /\ \A b \in Actor \ {a} : pc'[b] = pc[b] \/ (b = Conn /\ a = Worker /\ pc'[b] = "idle")
      /\ spool' = spool /\ sends' = sends /\ faults' \in 0 .. MaxFaults
  BY Parts, FaultType DEF Raise, Place
<1>3. CASE a = Conn
  <2>1. msg' = msg /\ fate' = fate /\ a \notin Publisher
    BY <1>1, <1>3 DEF Raise
  <2> QED BY <1>2, <2>1, <1>3, Parts, LeaveInv DEF Away
<1>4. CASE a \in Publisher
  <2>1. a # Conn /\ msg[a] \in Msg /\ fate[msg[a]] = "hand"
    BY <1>4, InHand
  <2>2. msg' = [msg EXCEPT ![a] = NoItem] /\ fate' = [fate EXCEPT ![msg[a]] = "escaped"]
    BY <2>1 DEF Raise
  <2>3. /\ fate' \in [Msg -> Fate] /\ fate'[msg[a]] = "escaped"
        /\ \A m \in Msg : m # msg[a] => fate'[m] = fate[m]
    BY <2>1, <2>2, Parts DEF Fate, Given
  <2>4. Stored(spool.rows, fate') /\ Recorded(sends, fate')
    BY <2>1, <2>3, OneFate
  <2>5. \A m \in Msg : fate'[m] = "hand" <=> fate[m] = "hand" /\ ~(a \in Publisher /\ msg[a] = m)
    BY <1>4, <2>1, <2>3
  <2> QED BY <1>2, <2>1, <2>2, <2>3, <2>4, <2>5, Parts, LeaveInv DEF Away
<1> QED BY <1>1, <1>3, <1>4

\* enqueue_cloud takes a message or refuses it.
LEMMA EnqueueInv ==
    ASSUME IInv, NEW p \in Publisher, enqueue_cloud(p)
    PROVE  IInv'
<1>1. /\ pc[p] = "idle" /\ (p = Worker => pc[Conn] = "read") /\ spool' = spool
      /\ sends' = sends /\ faults' = faults /\ p \in Actor
  BY DEF enqueue_cloud, Actor
<1>2. PICK m \in Msg :
         /\ fate[m] = "new"
         /\ \/ /\ fate' = [fate EXCEPT ![m] = "refused"]
               /\ pc' = pc /\ msg' = msg /\ lockQ' = lockQ
            \/ /\ fate' = [fate EXCEPT ![m] = "hand"] /\ msg' = [msg EXCEPT ![p] = m]
               /\ pc' = [pc EXCEPT ![p] = "lock"] /\ lockQ' = Append(lockQ, p)
  BY DEF enqueue_cloud, GoTo
<1>3. /\ fate' \in [Msg -> Fate] /\ fate'[m] \in {"hand", "refused"}
      /\ \A n \in Msg : n # m => fate'[n] = fate[n]
  BY <1>2, Parts DEF Fate, Given
<1>4. Stored(spool.rows, fate') /\ Recorded(sends, fate')
  BY <1>2, <1>3, OneFate
<1>5. \A n \in Msg : fate[n] = "sent" => fate'[n] = "sent"
  BY <1>2, <1>3
<1>6. CASE fate' = [fate EXCEPT ![m] = "refused"] /\ pc' = pc /\ msg' = msg /\ lockQ' = lockQ
  <2>1. fate'[m] = "refused"
    BY <1>6, Parts
  <2>2. Hands(pc, msg, fate')
    BY <1>2, <1>3, <2>1, Parts DEF Hands
  <2>3. Ready(pc, spool, fate')
    BY <1>5, Parts, ReadyKept
  <2> QED BY <1>1, <1>3, <1>4, <1>6, <2>2, <2>3, Parts, Assemble
<1>7. CASE /\ fate' = [fate EXCEPT ![m] = "hand"] /\ msg' = [msg EXCEPT ![p] = m]
           /\ pc' = [pc EXCEPT ![p] = "lock"] /\ lockQ' = Append(lockQ, p)
  <2>1. Control(pc', lockQ') /\ lockQ' \in Seq(Actor) /\ pc' \in [Actor -> Place]
    BY <1>1, <1>7, Parts, AsksForLock
  <2>2. pc'[p] = "lock" /\ \A b \in Actor : b # p => pc'[b] = pc[b]
    BY <1>7, <1>1, Parts
  <2>3. Ready(pc', spool, fate')
    BY <1>5, <2>2, Parts, ReadyKept
  <2>4. Hands(pc', msg', fate')
    BY <1>1, <1>2, <1>7, <2>2, Parts, HandsTake DEF Actor
  <2>5. msg' \in [Publisher -> Msg \cup {NoItem}]
    BY <1>7, Parts
  <2> QED BY <1>1, <1>3, <1>4, <2>1, <2>3, <2>4, <2>5, Parts, Assemble
<1> QED BY <1>2, <1>6, <1>7

\* A message that is not kept, or is, is sent.
LEMMA SentFate ==
    ASSUME IInv, NEW m \in Msg, sends' = Append(sends, m), fate' = [fate EXCEPT ![m] = "sent"]
    PROVE  /\ fate' \in [Msg -> Fate] /\ sends' \in Seq(Msg)
           /\ Stored(spool.rows, fate') /\ Recorded(sends', fate')
           /\ fate'[m] = "sent" /\ \A n \in Msg : n # m => fate'[n] = fate[n]
<1>1. /\ fate' \in [Msg -> Fate] /\ sends' \in Seq(Msg) /\ fate'[m] = "sent"
      /\ \A n \in Msg : n # m => fate'[n] = fate[n]
  BY Parts DEF Fate
<1>2. Recorded(sends', fate')
  BY Parts, RecordedSend
<1>3. /\ \A n \in Msg : fate[n] \in {"kept", "sent"} => fate'[n] \in {"kept", "sent"}
      /\ \A n \in Msg : fate'[n] = "kept" => fate[n] = "kept"
  BY <1>1
<1>4. Stored(spool.rows, fate')
  BY <1>3, Parts, StoredKept
<1> QED BY <1>1, <1>2, <1>4

\* The publication: sent, refused or an exception.
LEMMA PublishInv ==
    ASSUME IInv, NEW p \in Publisher, publish(p)
    PROVE  IInv'
<1>1. /\ Holds(p) /\ p \in Actor /\ p # Conn /\ msg[p] \in Msg /\ fate[msg[p]] = "hand"
  BY InHand DEF publish, At
<1>2. CASE /\ sends' = Append(sends, msg[p]) /\ fate' = [fate EXCEPT ![msg[p]] = "sent"]
           /\ Return(p) /\ UNCHANGED <<spool, faults>>
  <2>1. /\ fate' \in [Msg -> Fate] /\ sends' \in Seq(Msg)
        /\ Stored(spool.rows, fate') /\ Recorded(sends', fate')
        /\ fate'[msg[p]] = "sent" /\ \A n \in Msg : n # msg[p] => fate'[n] = fate[n]
    BY <1>1, <1>2, SentFate
  <2>2. /\ pc' \in [Actor -> Place] /\ pc'[p] = "idle" /\ \A b \in Actor \ {p} : pc'[b] = pc[b]
        /\ msg' = [msg EXCEPT ![p] = NoItem] /\ lockQ' = Tail(lockQ)
    BY <1>1, <1>2, Parts DEF Return, GoTo, Place
  <2>3. \A m \in Msg : fate'[m] = "hand" <=> fate[m] = "hand" /\ ~(p \in Publisher /\ msg[p] = m)
    BY <1>1, <2>1
  <2>4. spool' = spool /\ faults' = faults
    BY <1>2
  <2> QED BY <1>1, <2>1, <2>2, <2>3, <2>4, Parts, LeaveInv DEF Away
<1>3. CASE Refused /\ GoTo(p, "spool") /\ UNCHANGED <<msg, lockQ, spool, fate, sends>>
  <2>1. pc' = [pc EXCEPT ![p] = "spool"] /\ faults' \in 0 .. MaxFaults
    BY <1>3, Parts, FaultType DEF GoTo, Refused
  <2>2. UNCHANGED <<msg, lockQ>> /\ spool' = spool /\ fate' = fate /\ sends' = sends
    BY <1>3
  <2>3. Knows("spool", spool', fate') /\ "spool" \in Place /\ "spool" \notin Away
    BY DEF Knows, Place, Away
  <2> QED BY <1>1, <2>1, <2>2, <2>3, Parts, MoveInv
<1>4. CASE Raise(p)
  BY <1>1, <1>4, RaiseInv
<1> QED BY <1>2, <1>3, <1>4 DEF publish

\* One entry is deleted, to make room; without one the room is there.
LEMMA TrimInv ==
    ASSUME IInv, NEW p \in Publisher, trim(p)
    PROVE  IInv'
<1>1. /\ Holds(p) /\ p \in Actor /\ p # Conn
  BY InHand DEF trim, At
<1>2. UNCHANGED <<msg, lockQ>> /\ sends' = sends
  BY DEF trim
<1>3. /\ "spool" \in Place /\ "spool" \notin Away /\ "append" \in Place /\ "append" \notin Away
  BY DEF Place, Away
<1>4. CASE MaxLen > 0 /\ spool.length >= MaxLen
  <2>1. PICK o \in popleft(spool) :
           /\ Did(o) /\ GoTo(p, IF o.res = "ok" THEN "spool" ELSE "append")
           /\ fate' = [m \in Msg |-> IF o.res = "ok" /\ m = o.item /\ fate[m] = "kept"
                                     THEN "trimmed" ELSE Wiped(o)[m]]
    BY <1>4 DEF trim
  <2>2. /\ o.fault \in BOOLEAN
        /\ \/ Shortened(spool, o)
           \/ Untouched(spool, o) /\ o.res # "ok" /\ (o.d.length = 0 \/ spool.rows = <<>>)
           \/ Emptied(spool, o) /\ o.res # "ok"
    BY Parts, PopCases
  <2>3. CASE Shortened(spool, o)
    <3>1. spool' = o.d /\ faults' \in 0 .. MaxFaults /\ pc' = [pc EXCEPT ![p] = "spool"]
      BY <2>1, <2>2, <2>3, Parts, DidSpool DEF GoTo, Shortened
    <3>2. Wiped(o) = fate /\ o.res = "ok" /\ o.item = Head(spool.rows)
      BY <2>3, Parts, WipedFates DEF Shortened
    <3>3. /\ fate' \in [Msg -> Fate]
          /\ \A m \in Msg : m # Head(spool.rows) => fate'[m] = fate[m]
          /\ \A m \in Msg : fate'[m] = fate[m] \/ (fate[m] = "kept" /\ fate'[m] = "trimmed")
          /\ Head(spool.rows) \in Msg => fate'[Head(spool.rows)] # "kept"
      BY <2>1, <3>2, Parts DEF Fate, Given
    <3>4. /\ spool.rows # <<>> /\ (spool').rows = Tail(spool.rows)
          /\ (spool').length = 0 \/ (spool.length > 0 /\ (spool').length = spool.length - 1)
      BY <2>3, <3>1 DEF Shortened
    <3>5. Stored((spool').rows, fate')
      BY <3>3, <3>4, Parts, StoredTail
    <3>6. (spool').rows \in Seq(Row) /\ Len((spool').rows) = Len(spool.rows) - 1 /\ Len(spool.rows) \in Nat
      BY <3>4, Parts, TailIndex
    <3>7. (spool').length \in Nat /\ Counted(spool')
      BY <3>4, <3>6, Parts DEF Counted
    <3>8. Recorded(sends', fate')
      BY <1>2, <3>3, Parts, RecordedKept
    <3>9. (\A m \in Msg : fate'[m] = "hand" <=> fate[m] = "hand") /\ Knows("spool", spool', fate')
      BY <3>3 DEF Knows
    <3> QED BY <1>1, <1>2, <1>3, <3>1, <3>3, <3>5, <3>6, <3>7, <3>8, <3>9, Parts, MoveInv
  <2>4. CASE /\ Untouched(spool, o) \/ Emptied(spool, o)
             /\ o.res # "ok" /\ (o.d.length = 0 \/ spool.rows = <<>>)
    <3>1. fate' = Wiped(o) /\ pc' = [pc EXCEPT ![p] = "append"] /\ Did(o)
      BY <2>1, <2>4 DEF Wiped, GoTo
    <3>2. /\ (spool').rows \in Seq(Row) /\ (spool').length \in Nat /\ fate' \in [Msg -> Fate]
          /\ faults' \in 0 .. MaxFaults
          /\ \A m \in Msg : fate'[m] = "hand" <=> fate[m] = "hand"
          /\ Stored((spool').rows, fate') /\ Recorded(sends, fate') /\ Counted(spool')
      BY <2>2, <2>4, <3>1, SpoolStep
    <3>3. spool' = o.d
      BY <3>1 DEF Did
    <3>4. (spool').length < MaxLen \/ (spool').rows = <<>>
      <4>1. CASE o.d.length = 0
        BY <1>4, <3>3, <4>1
      <4>2. CASE spool.rows = <<>>
        BY <2>4, <3>3, <4>2 DEF Untouched, Emptied
      <4> QED BY <2>4, <4>1, <4>2
    <3>5. Knows("append", spool', fate')
      BY <3>4 DEF Knows
    <3> QED BY <1>1, <1>2, <1>3, <3>1, <3>2, <3>5, Parts, MoveInv
  <2>5. Emptied(spool, o) => o.d.length = 0
    BY DEF Emptied
  <2> QED BY <2>2, <2>3, <2>4, <2>5
<1>5. CASE ~(MaxLen > 0 /\ spool.length >= MaxLen)
  <2>1. pc' = [pc EXCEPT ![p] = "append"] /\ spool' = spool /\ fate' = fate /\ faults' = faults
    BY <1>5 DEF trim, GoTo
  <2>2. MaxLen = 0 \/ spool.length < MaxLen
    BY <1>5, Parts, DequeConstants
  <2>3. Knows("append", spool', fate')
    BY <2>1, <2>2 DEF Knows
  <2> QED BY <1>1, <1>2, <1>3, <2>1, <2>3, Parts, MoveInv
<1> QED BY <1>4, <1>5

\* What an append takes for spooled: m, after the rows or what a failure left of them.
Taken(m, o) == [Wiped(o) EXCEPT ![m] = IF o.res = "ok" THEN "kept" ELSE "dropped"]

\* How an append ends: the deque is what is left of the rows s without the k oldest, and the
\* messages that were these count as evicted; with room for two there are none.
Kept(m, o, s, k) ==
    /\ o.fault \in BOOLEAN /\ Did(o) /\ fate' = Evicted(Taken(m, o), o)
    /\ s \in Seq(Row) /\ k \in Nat /\ o.d.rows = Beyond(s, k) /\ Stored(s, Taken(m, o))
    /\ o.d.length \in Nat /\ Counted(o.d) /\ (MaxLen > 1 => k = 0)
    /\ \/ o.res = "ok" /\ s = Append(spool.rows, m) /\ o.lost = {}
       \/ o.res = "ok" /\ s = <<m>> /\ o.lost = ToSet(spool.rows) /\ k = Over(0)
       \/ o.res # "ok" /\ s = spool.rows /\ o.lost = {} /\ k = 0
       \/ o.res # "ok" /\ s = <<>> /\ o.lost = ToSet(spool.rows) /\ k = 0
    /\ k > 0 => k = Over(0) \/ k = Over(spool.length)
    /\ ~o.fault => /\ o.res = "ok" /\ s = Append(spool.rows, m) /\ k = Over(spool.length)
                   /\ o.d.length = spool.length + 1 - k /\ o.lost = {}

\* Over never exceeds the count with the new row, and is 0 when there is room.
LEMMA OverBounds ==
    ASSUME NEW n \in Nat
    PROVE  /\ Over(n) \in Nat /\ Over(n) <= n + 1 /\ (n < MaxLen => Over(n) = 0)
           /\ Over(n) = n + 1 => MaxLen = 0
           /\ Over(n) > 0 => n >= MaxLen
  BY DequeConstants DEF Over

\* The count after an append.
LEMMA OverCount ==
    ASSUME NEW n \in Nat, NEW s \in Seq(Row), n <= Len(s)
    PROVE  /\ n + 1 - Over(n) \in Nat
           /\ n + 1 - Over(n) <= Len(Beyond(s, Over(n))) + 1
           /\ n + 1 <= Len(s) => n + 1 - Over(n) <= Len(Beyond(s, Over(n)))
<1> DEFINE k == Over(n)
           l == Len(s)
           j == Len(Beyond(s, Over(n)))
<1>1. k \in Nat /\ k <= n + 1 /\ (k = n + 1 => MaxLen = 0)
  BY OverBounds
<1>2. l \in Nat /\ j = IF k <= l THEN l - k ELSE 0
  BY <1>1, BeyondIndex
<1>3. n <= l
  OBVIOUS
<1> HIDE DEF k, l, j
<1>4. n + 1 - k \in Nat /\ n + 1 - k <= j + 1 /\ (n + 1 <= l => n + 1 - k <= j)
  BY <1>1, <1>2, <1>3
<1> QED BY <1>4 DEF k, l, j

\* The ways in which an append of the message in hand can end.
LEMMA KeepEnds ==
    ASSUME IInv, NEW p \in Publisher, keep(p)
    PROVE  \E o, s, k : Kept(msg[p], o, s, k)
<1> DEFINE m == msg[p]
           r == spool.rows
           d == spool
<1>1. /\ p \in Actor /\ m \in Msg /\ fate[m] = "hand" /\ pc[p] = "append"
  BY InHand DEF keep, At
<1>2. PICK o \in append(spool, m) : Did(o) /\ fate' = Evicted(Taken(m, o), o)
  BY DEF keep, Taken
<1>3. /\ r \in Seq(Row) /\ m \in Row /\ Len(r) \in Nat /\ d.length \in Nat
      /\ Stored(r, fate) /\ d.length <= Len(r) + 1 /\ fate \in [Msg -> Fate]
      /\ MaxLen = 0 \/ d.length < MaxLen \/ r = <<>>
  BY <1>1, Parts DEF Row, Counted, Ready, Knows
<1>4. /\ Wiped(o) \in [Msg -> Fate]
      /\ \A n \in Msg : Wiped(o)[n] = fate[n] \/ (fate[n] = "kept" /\ Wiped(o)[n] = "wiped")
      /\ o.lost = {} => Wiped(o) = fate
      /\ o.lost = ToSet(r) => \A n \in Msg : Wiped(o)[n] # "kept"
  BY Parts, WipedFates
<1> DEFINE e == Taken(m, o)
<1>5. /\ e \in [Msg -> Fate] /\ e[m] = IF o.res = "ok" THEN "kept" ELSE "dropped"
      /\ \A n \in Msg : n # m => e[n] = Wiped(o)[n]
  BY <1>1, <1>4 DEF Taken, Fate, Given
<1>6. /\ o.fault \in BOOLEAN
      /\ \/ /\ o.res = "ok" /\ o.lost = {}
            /\ \E n \in {d.length, 0} : /\ o.d.rows = Beyond(Append(r, m), Over(n))
                                        /\ o.d.length = n + 1 - Over(n)
         \/ /\ o.res = "ok" /\ o.lost = ToSet(r) /\ o.d.rows = Beyond(<<m>>, Over(0))
            /\ o.d.length = 1 - Over(0)
         \/ /\ o.res # "ok" /\ o.d.rows = r /\ o.lost = {}
            /\ o.d.length \in {0, 1}
         \/ /\ o.res # "ok" /\ o.d.rows = <<>> /\ o.lost = ToSet(r)
            /\ o.d.length \in {0, 1}
      /\ ~o.fault => /\ o.res = "ok" /\ o.d.rows = Beyond(Append(r, m), Over(d.length))
                     /\ o.d.length = d.length + 1 - Over(d.length) /\ o.lost = {}
  BY <1>3, AppendCases
<1> HIDE DEF m, r, e
<1>7. CASE /\ o.res = "ok" /\ o.lost = {}
           /\ \E n \in {d.length, 0} : /\ o.d.rows = Beyond(Append(r, m), Over(n))
                                       /\ o.d.length = n + 1 - Over(n)
  <2> DEFINE s == Append(r, m)
  <2>1. s \in Seq(Row) /\ Len(s) = Len(r) + 1
    BY <1>3, AppendIndex
  <2>2. PICK n \in {d.length, 0} : /\ o.d.rows = Beyond(s, Over(n)) /\ o.d.length = n + 1 - Over(n)
                                   /\ ~o.fault => n = d.length
    <3>1. CASE o.fault
      BY <1>7, <3>1
    <3>2. CASE ~o.fault
      BY <1>6, <3>2
    <3> QED BY <3>1, <3>2
  <2>3. Stored(s, e)
    BY <1>1, <1>3, <1>4, <1>5, <1>7, StoredAppend
  <2> HIDE DEF s
  <2>4. n \in Nat /\ n <= Len(s) /\ (MaxLen = 0 \/ n < MaxLen \/ (n <= 1 /\ Len(r) = 0))
    BY <1>3, <2>1, DequeConstants
  <2>5. /\ Over(n) \in Nat /\ (n < MaxLen => Over(n) = 0)
    BY <2>4, OverBounds
  <2>6. MaxLen > 1 => Over(n) = 0
    BY <2>4, <2>5, DequeConstants
  <2>7. o.d.length \in Nat /\ Counted(o.d)
    BY <2>1, <2>2, <2>4, OverCount DEF Counted
  <2>8. Kept(m, o, s, Over(n))
    BY <1>2, <1>6, <1>7, <2>1, <2>2, <2>3, <2>5, <2>6, <2>7 DEF Kept, s, r, e
  <2> QED BY <2>8 DEF m
<1>8. CASE /\ o.res = "ok" /\ o.lost = ToSet(r) /\ o.d.rows = Beyond(<<m>>, Over(0))
           /\ o.d.length = 1 - Over(0) /\ o.fault
  <2> DEFINE s == <<m>>
             k == Over(0)
             w == Wiped(o)
             z == <<>>
  <2>1. s \in Seq(Row) /\ Len(s) = 1 /\ Append(z, m) = s
    BY <1>3
  <2>2. /\ w[m] \notin {"kept", "sent"} /\ e[m] = "kept" /\ \A n \in Msg : n # m => e[n] = w[n]
    BY <1>1, <1>4, <1>5, <1>8
  <2>3. Stored(z, w) /\ z \in Seq(Row)
    BY <1>4, <1>8, StoredEmpty
  <2>4. k \in Nat /\ (MaxLen > 1 => k = 0)
    BY DequeConstants DEF Over
  <2>5. 1 - k \in Nat /\ 1 - k <= Len(Beyond(s, k)) + 1
    <3>1. 0 \in Nat /\ 0 <= Len(s) /\ 0 + 1 = 1
      BY <2>1
    <3>2. 0 + 1 - Over(0) \in Nat /\ 0 + 1 - Over(0) <= Len(Beyond(s, Over(0))) + 1
      BY <2>1, <3>1, OverCount
    <3>3. 0 + 1 - Over(0) = 1 - k
      BY <2>4
    <3> QED BY <3>2, <3>3
  <2> HIDE DEF z, w, s, k
  <2>6. Stored(s, e)
    <3>1. Stored(Append(z, m), e)
      BY <1>1, <2>2, <2>3, StoredAppend
    <3> QED BY <2>1, <3>1
  <2>7. o.d.length \in Nat /\ Counted(o.d)
    BY <1>8, <2>5 DEF Counted, s, k
  <2>8. Kept(m, o, s, k)
    BY <1>2, <1>6, <1>8, <2>1, <2>4, <2>6, <2>7 DEF Kept, s, k, r, e
  <2> QED BY <2>8 DEF m
<1>9. CASE o.res # "ok" /\ o.d.rows = r /\ o.lost = {} /\ o.d.length \in {0, 1} /\ o.fault
  <2>1. Stored(r, e)
    BY <1>1, <1>4, <1>5, <1>9, OneFate DEF r
  <2>2. o.d.length \in Nat /\ Counted(o.d) /\ Beyond(r, 0) = r
    BY <1>3, <1>9, BeyondNone DEF Counted
  <2>3. Kept(m, o, r, 0)
    BY <1>2, <1>3, <1>6, <1>9, <2>1, <2>2 DEF Kept, r, e
  <2> QED BY <2>3 DEF m
<1>10. CASE o.res # "ok" /\ o.d.rows = <<>> /\ o.lost = ToSet(r) /\ o.d.length \in {0, 1} /\ o.fault
  <2> DEFINE z == <<>>
  <2>1. Stored(z, e)
    BY <1>4, <1>5, <1>10, StoredEmpty
  <2>2. z \in Seq(Row) /\ Len(z) = 0
    OBVIOUS
  <2>4. o.d.rows = z /\ o.d.length \in {0, 1} /\ 0 \in Nat
    BY <1>10
  <2> HIDE DEF z
  <2>3. o.d.length \in Nat /\ Counted(o.d) /\ Beyond(z, 0) = z
    <3>1. Beyond(z, 0) = z
      BY <2>2, BeyondNone
    <3> QED BY <2>2, <2>4, <3>1 DEF Counted
  <2>5. Kept(m, o, z, 0)
    BY <1>2, <1>6, <1>10, <2>1, <2>2, <2>3, <2>4 DEF Kept, r, e, z
  <2> QED BY <2>5 DEF m
<1>11. ~o.fault => o.res = "ok" /\ o.lost = {} /\ \E n \in {d.length, 0} :
                      /\ o.d.rows = Beyond(Append(r, m), Over(n)) /\ o.d.length = n + 1 - Over(n)
  BY <1>6
<1> QED BY <1>6, <1>7, <1>8, <1>9, <1>10, <1>11

\* The fates after an append: m is no longer in hand, and what was kept may have been lost.
LEMMA KeptFates ==
    ASSUME IInv, NEW m \in Msg, fate[m] = "hand", NEW o, NEW s, NEW k, Kept(m, o, s, k)
    PROVE  /\ spool' = o.d /\ faults' \in 0 .. MaxFaults
           /\ (spool').rows \in Seq(Row) /\ (spool').length \in Nat /\ Counted(spool')
           /\ Stored((spool').rows, fate') /\ fate' \in [Msg -> Fate]
           /\ fate'[m] \in {"kept", "dropped", "evicted"}
           /\ \A n \in Msg : n # m => fate'[n] = fate[n] \/ (fate[n] = "kept" /\ fate'[n] \in {"wiped", "evicted"})
<1>1. spool' = o.d /\ faults' \in 0 .. MaxFaults
  BY Parts, DidSpool DEF Kept
<1>2. /\ Wiped(o) \in [Msg -> Fate]
      /\ \A n \in Msg : Wiped(o)[n] = fate[n] \/ (fate[n] = "kept" /\ Wiped(o)[n] = "wiped")
  BY Parts, WipedFates
<1> DEFINE e == Taken(m, o)
<1>3. /\ e \in [Msg -> Fate] /\ e[m] \in {"kept", "dropped"}
      /\ \A n \in Msg : n # m => e[n] = Wiped(o)[n]
  BY <1>2 DEF Taken, Fate, Given
<1>4. fate' = Evicted(e, o) /\ s \in Seq(Row) /\ k \in Nat /\ o.d.rows = Beyond(s, k) /\ Stored(s, e)
  BY DEF Kept
<1> HIDE DEF e
<1>5. /\ Stored(o.d.rows, fate') /\ fate' \in [Msg -> Fate]
      /\ \A n \in Msg : fate'[n] = e[n] \/ (e[n] = "kept" /\ fate'[n] = "evicted")
  BY <1>3, <1>4, StoredEvicted
<1>6. (spool').rows \in Seq(Row) /\ (spool').length \in Nat /\ Counted(spool')
  BY <1>1, <1>4, BeyondIndex DEF Kept
<1> QED BY <1>1, <1>2, <1>3, <1>5, <1>6

\* The message is appended or dropped.
LEMMA KeepInv ==
    ASSUME IInv, NEW p \in Publisher, keep(p)
    PROVE  IInv'
<1> DEFINE m == msg[p]
<1>1. /\ Holds(p) /\ p \in Actor /\ p # Conn /\ m \in Msg /\ fate[m] = "hand"
  BY InHand DEF keep, At
<1>2. /\ pc' \in [Actor -> Place] /\ pc'[p] = "idle" /\ \A b \in Actor \ {p} : pc'[b] = pc[b]
      /\ msg' = [msg EXCEPT ![p] = NoItem] /\ lockQ' = Tail(lockQ) /\ sends' = sends
  BY <1>1, Parts DEF keep, Return, GoTo, Place
<1>3. /\ faults' \in 0 .. MaxFaults
      /\ (spool').rows \in Seq(Row) /\ (spool').length \in Nat /\ Counted(spool')
      /\ Stored((spool').rows, fate') /\ fate' \in [Msg -> Fate]
      /\ fate'[m] \in {"kept", "dropped", "evicted"}
      /\ \A n \in Msg : n # m => fate'[n] = fate[n] \/ (fate[n] = "kept" /\ fate'[n] \in {"wiped", "evicted"})
  BY <1>1, KeepEnds, KeptFates
<1> HIDE DEF m
<1>4. Recorded(sends', fate')
  <2>1. \A n \in Msg : fate'[n] = "sent" <=> fate[n] = "sent"
    BY <1>1, <1>3
  <2> QED BY <1>2, <2>1, Parts, RecordedKept
<1>5. \A n \in Msg : fate'[n] = "hand" <=> fate[n] = "hand" /\ ~(p \in Publisher /\ m = n)
  BY <1>1, <1>3
<1> QED BY <1>1, <1>2, <1>3, <1>4, <1>5, Parts, LeaveInv DEF Away, m

\* The holder has the lock: it flushes first when there is a stream.
LEMMA StartInv ==
    ASSUME IInv, NEW a \in Actor, flush_start(a)
    PROVE  IInv'
<1> DEFINE l == IF stream THEN "flush" ELSE "spool"
<1>1. /\ Holds(a) /\ pc[a] = "lock" /\ pc' = [pc EXCEPT ![a] = l] /\ UNCHANGED <<msg, lockQ>>
      /\ spool' = spool /\ fate' = fate /\ sends' = sends /\ faults' = faults
  BY DEF flush_start, At, GoTo
<1>2. l \in Place /\ l \notin Away /\ (a = Conn => l \notin {"publish", "spool", "append"})
  BY <1>1 DEF Place, Away, stream
<1>3. Knows(l, spool', fate')
  BY DEF Knows
<1> HIDE DEF l
<1> QED BY <1>1, <1>2, <1>3, Parts, MoveInv

\* The first entry is read.
LEMMA PeekInv ==
    ASSUME IInv, NEW a \in Actor, flush_peek(a)
    PROVE  IInv'
<1>1. Holds(a) /\ UNCHANGED <<msg, lockQ>> /\ sends' = sends
  BY DEF flush_peek, At
<1>2. CASE spool.length = 0
  <2>1. pc' = [pc EXCEPT ![a] = "flushed"] /\ spool' = spool /\ fate' = fate /\ faults' = faults
    BY <1>2 DEF flush_peek, GoTo
  <2>2. Knows("flushed", spool', fate') /\ "flushed" \in Place /\ "flushed" \notin Away
    BY DEF Knows, Place, Away
  <2> QED BY <1>1, <2>1, <2>2, Parts, MoveInv
<1>3. CASE spool.length # 0
  <2>1. PICK o \in peek(spool) :
           /\ Did(o) /\ fate' = Wiped(o)
           /\ GoTo(a, IF o.res # "ok" THEN "flushed" ELSE IF o.item = Bad THEN "corrupt" ELSE "resend")
    BY <1>3 DEF flush_peek
  <2> DEFINE l == IF o.res # "ok" THEN "flushed" ELSE IF o.item = Bad THEN "corrupt" ELSE "resend"
  <2>2. /\ o.fault \in BOOLEAN
        /\ \/ Untouched(spool, o) /\ (o.res = "ok" => spool.rows # <<>> /\ o.item = Head(spool.rows))
           \/ Emptied(spool, o) /\ o.res # "ok"
    BY Parts, PeekCases
  <2>3. /\ (spool').rows \in Seq(Row) /\ (spool').length \in Nat /\ fate' \in [Msg -> Fate]
        /\ faults' \in 0 .. MaxFaults
        /\ \A m \in Msg : fate'[m] = "hand" <=> fate[m] = "hand"
        /\ Stored((spool').rows, fate') /\ Recorded(sends, fate') /\ Counted(spool')
        /\ Untouched(spool, o) => (spool').rows = spool.rows /\ fate' = fate
    BY <2>1, <2>2, SpoolStep
  <2>4. l \in Place /\ l \notin Away /\ l \notin {"publish", "spool", "append"}
    BY DEF Place, Away
  <2>5. Knows(l, spool', fate')
    BY <2>2, <2>3 DEF Knows
  <2>6. pc' = [pc EXCEPT ![a] = l]
    BY <2>1 DEF GoTo
  <2> HIDE DEF l
  <2> QED BY <1>1, <2>3, <2>4, <2>5, <2>6, Parts, MoveInv
<1> QED BY <1>2, <1>3

\* The head of the spool of a flush is a message.
LEMMA HeadMessage ==
    ASSUME IInv, NEW a \in Actor, pc[a] \in {"resend", "pop"}
    PROVE  spool.rows # <<>> /\ Head(spool.rows) \in Msg
<1>1. spool.rows # <<>> /\ Head(spool.rows) # Bad
  BY Parts DEF Ready, Knows
<1> QED BY <1>1, Parts, TailIndex DEF Row

\* The first entry is sent, or is not.
LEMMA ResendInv ==
    ASSUME IInv, NEW a \in Actor, flush_send(a)
    PROVE  IInv'
<1>1. Holds(a) /\ pc[a] = "resend"
  BY DEF flush_send, At
<1>2. CASE /\ GoTo(a, "pop")
           /\ LET m == Head(spool.rows)
              IN sends' = Append(sends, m) /\ fate' = [fate EXCEPT ![m] = "sent"]
           /\ UNCHANGED <<msg, lockQ, spool, faults>>
  <2> DEFINE m == Head(spool.rows)
  <2>1. m \in Msg /\ spool.rows # <<>> /\ m # Bad
    BY <1>1, HeadMessage, SpoolConstants DEF Msg
  <2>2. /\ sends' = Append(sends, m) /\ fate' = [fate EXCEPT ![m] = "sent"]
        /\ UNCHANGED <<msg, lockQ>> /\ spool' = spool /\ faults' = faults
        /\ pc' = [pc EXCEPT ![a] = "pop"]
    BY <1>2 DEF GoTo
  <2>3. /\ fate' \in [Msg -> Fate] /\ sends' \in Seq(Msg)
        /\ Stored(spool.rows, fate') /\ Recorded(sends', fate')
        /\ fate'[m] = "sent" /\ \A n \in Msg : n # m => fate'[n] = fate[n]
    BY <2>1, <2>2, SentFate
  <2>4. Knows("pop", spool', fate') /\ "pop" \in Place /\ "pop" \notin Away
    BY <2>1, <2>2, <2>3 DEF Knows, Place, Away
  <2>5. fate[m] # "hand"
    <3>1. m = spool.rows[1] /\ 1 \in 1 .. Len(spool.rows)
      BY <2>1, Parts, TailIndex
    <3> QED BY <2>1, <3>1, Parts DEF Stored
  <2>6. \A n \in Msg : fate'[n] = "hand" <=> fate[n] = "hand"
    BY <2>3, <2>5
  <2> QED BY <1>1, <2>2, <2>3, <2>4, <2>6, Parts, MoveInv
<1>3. CASE Refused /\ GoTo(a, "flushed") /\ UNCHANGED <<msg, lockQ, spool, fate, sends>>
  <2>1. pc' = [pc EXCEPT ![a] = "flushed"] /\ faults' \in 0 .. MaxFaults
    BY <1>3, Parts, FaultType DEF GoTo, Refused
  <2>2. UNCHANGED <<msg, lockQ>> /\ spool' = spool /\ fate' = fate /\ sends' = sends
    BY <1>3
  <2>3. Knows("flushed", spool', fate') /\ "flushed" \in Place /\ "flushed" \notin Away
    BY DEF Knows, Place, Away
  <2> QED BY <1>1, <2>1, <2>2, <2>3, Parts, MoveInv
<1>4. CASE Raise(a)
  BY <1>1, <1>4, RaiseInv
<1> QED BY <1>2, <1>3, <1>4 DEF flush_send

\* The entry that was sent, or is none, is deleted.
LEMMA PopInv ==
    ASSUME IInv, NEW a \in Actor, flush_pop(a)
    PROVE  IInv'
<1>1. Holds(a) /\ pc[a] \in {"pop", "corrupt"} /\ UNCHANGED <<msg, lockQ>> /\ sends' = sends
  BY DEF flush_pop, At
<1>2. PICK o \in popleft(spool) :
         /\ Did(o) /\ fate' = Wiped(o)
         /\ GoTo(a, IF o.res = "ok" THEN "flush" ELSE "flushed")
  BY DEF flush_pop
<1> DEFINE l == IF o.res = "ok" THEN "flush" ELSE "flushed"
<1>3. /\ o.fault \in BOOLEAN
      /\ \/ Shortened(spool, o)
         \/ Untouched(spool, o) /\ o.res # "ok" /\ (o.d.length = 0 \/ spool.rows = <<>>)
         \/ Emptied(spool, o) /\ o.res # "ok"
  BY Parts, PopCases
<1>4. /\ pc' = [pc EXCEPT ![a] = l] /\ Knows(l, spool', fate') /\ l \in Place /\ l \notin Away
      /\ l \notin {"publish", "spool", "append"}
  BY <1>2 DEF GoTo, Knows, Place, Away
<1> HIDE DEF l
<1>5. CASE Shortened(spool, o)
  <2>1. spool' = o.d /\ faults' \in 0 .. MaxFaults
    BY <1>2, <1>3, Parts, DidSpool
  <2>2. fate' = fate
    BY <1>2, <1>5, Parts, WipedFates DEF Shortened
  <2>3. /\ spool.rows # <<>> /\ (spool').rows = Tail(spool.rows)
        /\ (spool').length = 0 \/ (spool.length > 0 /\ (spool').length = spool.length - 1)
    BY <1>5, <2>1 DEF Shortened
  <2>4. Head(spool.rows) \in Msg => fate[Head(spool.rows)] # "kept"
    BY <1>1, Parts, SpoolConstants DEF Ready, Knows, Msg
  <2>5. Stored((spool').rows, fate')
    BY <2>2, <2>3, <2>4, Parts, StoredTail
  <2>6. (spool').rows \in Seq(Row) /\ Len((spool').rows) = Len(spool.rows) - 1 /\ Len(spool.rows) \in Nat
    BY <2>3, Parts, TailIndex
  <2>7. (spool').length \in Nat /\ Counted(spool')
    BY <2>3, <2>6, Parts DEF Counted
  <2> QED BY <1>1, <1>4, <2>1, <2>2, <2>5, <2>6, <2>7, Parts, MoveInv
<1>6. CASE Untouched(spool, o) \/ Emptied(spool, o)
  <2>1. /\ (spool').rows \in Seq(Row) /\ (spool').length \in Nat /\ fate' \in [Msg -> Fate]
        /\ faults' \in 0 .. MaxFaults
        /\ \A m \in Msg : fate'[m] = "hand" <=> fate[m] = "hand"
        /\ Stored((spool').rows, fate') /\ Recorded(sends, fate') /\ Counted(spool')
    BY <1>2, <1>3, <1>6, SpoolStep
  <2> QED BY <1>1, <1>4, <2>1, Parts, MoveInv
<1> QED BY <1>3, <1>5, <1>6

\* The flush ends; an empty database is compacted.
LEMMA EndInv ==
    ASSUME IInv, NEW a \in Actor, flush_end(a)
    PROVE  IInv'
<1>1. /\ Holds(a) /\ msg' = msg /\ sends' = sends
      /\ \/ a = Conn /\ pc' = [pc EXCEPT ![a] = "read"] /\ lockQ' = Tail(lockQ)
         \/ a # Conn /\ pc' = [pc EXCEPT ![a] = "publish"] /\ lockQ' = lockQ
  BY DEF flush_end, At, GoTo
<1>2. /\ (spool').rows \in Seq(Row) /\ (spool').length \in Nat /\ fate' \in [Msg -> Fate]
      /\ faults' \in 0 .. MaxFaults
      /\ \A m \in Msg : fate'[m] = "hand" <=> fate[m] = "hand"
      /\ Stored((spool').rows, fate') /\ Recorded(sends, fate') /\ Counted(spool')
  <2>1. CASE spool.length = 0
    <3>1. PICK o \in vacuum(spool) : Did(o) /\ fate' = Wiped(o)
      BY <2>1 DEF flush_end
    <3>2. o.fault \in BOOLEAN /\ (Untouched(spool, o) \/ Emptied(spool, o))
      BY Parts, VacuumCases
    <3> QED BY <3>1, <3>2, SpoolStep
  <2>2. CASE spool.length # 0
    <3>1. spool' = spool /\ fate' = fate /\ faults' = faults
      BY <2>2 DEF flush_end
    <3> QED BY <3>1, Parts
  <2> QED BY <2>1, <2>2
<1>3. CASE a = Conn /\ pc' = [pc EXCEPT ![a] = "read"] /\ lockQ' = Tail(lockQ)
  <2>1. a \notin Publisher
    BY <1>3, SpoolConstants DEF Publisher
  <2>2. /\ pc' \in [Actor -> Place] /\ pc'[a] \in Away /\ \A b \in Actor \ {a} : pc'[b] = pc[b]
    BY <1>3, Parts DEF Place, Away
  <2> QED BY <1>1, <1>2, <1>3, <2>1, <2>2, Parts, LeaveInv
<1>4. CASE a # Conn /\ pc' = [pc EXCEPT ![a] = "publish"] /\ lockQ' = lockQ
  <2>1. Knows("publish", spool', fate') /\ "publish" \in Place /\ "publish" \notin Away
    BY DEF Knows, Place, Away
  <2> QED BY <1>1, <1>2, <1>4, <2>1, Parts, MoveInv
<1> QED BY <1>1, <1>3, <1>4

\* The session opens its stream.
LEMMA ConnectInv ==
    ASSUME IInv, connect
    PROVE  IInv'
<1>1. /\ pc[Conn] = "idle" /\ pc' = [pc EXCEPT ![Conn] = "event"] /\ msg' = msg /\ lockQ' = lockQ
      /\ spool' = spool /\ fate' = fate /\ sends' = sends /\ faults' = faults
  BY DEF connect, GoTo
<1>2. Control(pc', lockQ') /\ pc' \in [Actor -> Place]
  BY <1>1, Parts, ConnMoves
<1>3. Conn \in Actor /\ Conn \notin Publisher /\ Publisher \subseteq Actor
  BY SpoolConstants DEF Actor, Publisher
<1>4. pc'[Conn] = "event" /\ \A a \in Actor : a # Conn => pc'[a] = pc[a]
  BY <1>1, <1>3, Parts
<1>5. Hands(pc', msg, fate)
  BY <1>3, <1>4, Parts DEF Hands
<1>6. Ready(pc', spool, fate)
  BY <1>4, Parts, ReadyKept DEF Away
<1> QED BY <1>1, <1>2, <1>5, <1>6, Parts, Assemble

\* The session asks for the lock, or fails.
LEMMA EventInv ==
    ASSUME IInv, send_cloud_event
    PROVE  IInv'
<1>1. /\ pc[Conn] = "event" /\ msg' = msg /\ spool' = spool /\ fate' = fate /\ sends' = sends
      /\ \/ /\ pc' = [pc EXCEPT ![Conn] = "lock"] /\ lockQ' = Append(lockQ, Conn)
            /\ faults' = faults
         \/ pc' = [pc EXCEPT ![Conn] = "idle"] /\ Fault /\ lockQ' = lockQ
  BY DEF send_cloud_event, GoTo
<1>2. Conn \in Actor /\ Conn \notin Publisher /\ Publisher \subseteq Actor /\ Conn # Worker
  BY SpoolConstants DEF Actor, Publisher
<1>3. faults' \in 0 .. MaxFaults
  BY <1>1, Parts, FaultType
<1>4. Control(pc', lockQ') /\ pc' \in [Actor -> Place] /\ lockQ' \in Seq(Actor)
  <2>1. CASE pc' = [pc EXCEPT ![Conn] = "lock"] /\ lockQ' = Append(lockQ, Conn)
    BY <1>1, <1>2, <2>1, Parts, AsksForLock
  <2>2. CASE pc' = [pc EXCEPT ![Conn] = "idle"] /\ lockQ' = lockQ
    BY <1>1, <2>2, Parts, ConnMoves
  <2> QED BY <1>1, <2>1, <2>2
<1>5. pc'[Conn] \in {"lock", "idle"} /\ \A a \in Actor : a # Conn => pc'[a] = pc[a]
  BY <1>1, <1>2, Parts
<1>6. Hands(pc', msg, fate)
  BY <1>2, <1>5, Parts DEF Hands
<1>7. Ready(pc', spool, fate)
  BY <1>5, Parts, ReadyKept DEF Away
<1> QED BY <1>1, <1>3, <1>4, <1>6, <1>7, Parts, Assemble

\* The session ends and the worker is cancelled, with the message in its hands.
LEMMA SessionEndsInv ==
    ASSUME IInv, session_ends
    PROVE  IInv'
<1>1. PICK l \in {"idle", "ended"} :
         pc' = [a \in Actor |-> IF a = Conn THEN l ELSE IF a = Worker THEN "idle" ELSE pc[a]]
  BY DEF session_ends
<1>2. /\ pc[Conn] = "read" /\ msg' = [msg EXCEPT ![Worker] = NoItem]
      /\ fate' = [m \in Msg |-> IF msg[Worker] = m THEN "cancelled" ELSE fate[m]]
      /\ lockQ' = RemoveFirst(lockQ, Worker) /\ spool' = spool /\ sends' = sends /\ Fault
  BY DEF session_ends
<1>3. /\ Conn \in Actor /\ Conn \notin Publisher /\ Publisher \subseteq Actor
      /\ Worker \in Publisher /\ Conn # Worker
  BY SpoolConstants DEF Actor, Publisher
<1>4. /\ pc' \in [Actor -> Place] /\ pc'[Worker] = "idle" /\ pc'[Conn] \in {"idle", "ended"}
      /\ \A a \in Actor : a # Conn /\ a # Worker => pc'[a] = pc[a]
  BY <1>1, <1>3, Parts DEF Place
<1>5. Control(pc', lockQ') /\ lockQ' \in Seq(Actor)
  BY <1>2, <1>4, Parts, WorkerCancelled
<1>6. /\ msg' \in [Publisher -> Msg \cup {NoItem}] /\ msg'[Worker] = NoItem
      /\ \A x \in Publisher : x # Worker => msg'[x] = msg[x]
  BY <1>2, <1>3, Parts
<1>7. /\ fate' \in [Msg -> Fate]
      /\ \A m \in Msg : fate'[m] = IF msg[Worker] = m THEN "cancelled" ELSE fate[m]
  BY <1>2, Parts DEF Fate, Given
<1>8. \A m \in Msg : msg[Worker] = m => fate[m] = "hand"
  BY <1>3, Parts, SpoolConstants DEF Hands, Msg
<1>9. Hands(pc', msg', fate')
  <2> DEFINE D == {Worker}
  <2>1. /\ \A x \in Publisher : x \in D => pc'[x] = "idle" /\ msg'[x] = NoItem
        /\ \A x \in Publisher : x \notin D => msg'[x] = msg[x] /\ (pc'[x] = "idle" <=> pc[x] = "idle")
        /\ \A m \in Msg : fate'[m] = "hand" <=>
                            fate[m] = "hand" /\ ~ \E x \in Publisher : x \in D /\ msg[x] = m
    BY <1>3, <1>4, <1>6, <1>7
  <2>2. Hands(pc, msg, fate) /\ msg \in [Publisher -> Msg \cup {NoItem}]
    BY Parts
  <2> HIDE DEF D
  <2> QED BY <2>1, <2>2, HandsStep
<1>10. Stored(spool.rows, fate') /\ Recorded(sends, fate')
  <2>1. /\ \A m \in Msg : fate[m] \in {"kept", "sent"} => fate'[m] \in {"kept", "sent"}
        /\ \A m \in Msg : fate'[m] = "kept" => fate[m] = "kept"
        /\ \A m \in Msg : fate'[m] = "sent" <=> fate[m] = "sent"
    BY <1>7, <1>8
  <2>2. Stored(spool.rows, fate')
    BY <2>1, Parts, StoredKept
  <2> QED BY <2>1, <2>2, Parts, RecordedKept
<1>11. Ready(pc', spool, fate')
  <2>1. /\ \A a \in Actor : pc'[a] = pc[a] \/ pc'[a] \in Away \cup {"lock"}
        /\ \A m \in Msg : fate[m] = "sent" => fate'[m] = "sent"
    BY <1>4, <1>7, <1>8 DEF Away
  <2> QED BY <2>1, Parts, ReadyKept
<1> QED BY <1>2, <1>4, <1>5, <1>6, <1>7, <1>9, <1>10, <1>11, Parts, FaultType, Assemble

\* Nobody publishes and no message is in hand.
LEMMA AllIdle ==
    ASSUME NEW p, p = [a \in Actor |-> "idle"], NEW g, g = [x \in Publisher |-> NoItem],
           NEW f, \A m \in Msg : f[m] # "hand", NEW d
    PROVE  /\ p \in [Actor -> Place] /\ Control(p, <<>>) /\ Hands(p, g, f) /\ Ready(p, d, f)
           /\ g \in [Publisher -> Msg \cup {NoItem}]
<1>1. \A a \in Actor : p[a] = "idle"
  OBVIOUS
<1>2. \A x \in Publisher : x \in Actor /\ g[x] = NoItem
  BY DEF Actor
<1>3. Conn \in Actor /\ Worker \in Actor
  BY DEF Actor, Publisher
<1>4. p \in [Actor -> Place] /\ g \in [Publisher -> Msg \cup {NoItem}]
  BY DEF Place
<1>5. Control(p, <<>>)
  <2>1. Engaged(p) = {} /\ Len(<<>>) = 0
    BY <1>1 DEF Engaged, Away
  <2>2. Lists(<<>>, Engaged(p))
    BY <2>1 DEF Lists
  <2>3. \A a \in Actor : p[a] \in Away
    BY <1>1 DEF Away
  <2> QED BY <1>1, <1>2, <1>3, <2>2, <2>3 DEF Control
<1>6. Hands(p, g, f)
  BY <1>1, <1>2 DEF Hands
<1>7. Ready(p, d, f)
  BY <1>1 DEF Ready, Knows
<1> QED BY <1>4, <1>5, <1>6, <1>7

\* The daemon starts again on the rows that it left.
LEMMA CrashInv ==
    ASSUME IInv, crash
    PROVE  IInv'
<1>1. /\ pc' = [a \in Actor |-> "idle"] /\ msg' = [x \in Publisher |-> NoItem] /\ lockQ' = <<>>
      /\ (spool').rows = spool.rows /\ (spool').length = Len(spool.rows)
      /\ fate' = [m \in Msg |-> IF fate[m] = "hand" THEN "crashed" ELSE fate[m]]
      /\ sends' = sends /\ Fault
  BY DEF crash, Opened
<1>2. /\ fate' \in [Msg -> Fate]
      /\ \A m \in Msg : fate'[m] = IF fate[m] = "hand" THEN "crashed" ELSE fate[m]
  BY <1>1, Parts DEF Fate, Given
<1>3. /\ \A m \in Msg : fate[m] \in {"kept", "sent"} => fate'[m] \in {"kept", "sent"}
      /\ \A m \in Msg : fate'[m] = "kept" => fate[m] = "kept"
      /\ \A m \in Msg : fate'[m] = "sent" <=> fate[m] = "sent"
      /\ \A m \in Msg : fate'[m] # "hand"
  BY <1>2
<1>4. Stored((spool').rows, fate')
  BY <1>1, <1>3, Parts, StoredKept
<1>5. Recorded(sends', fate')
  BY <1>1, <1>3, Parts, RecordedKept
<1>6. /\ pc' \in [Actor -> Place] /\ Control(pc', lockQ') /\ Hands(pc', msg', fate')
      /\ Ready(pc', spool', fate') /\ msg' \in [Publisher -> Msg \cup {NoItem}]
  BY <1>1, <1>3, AllIdle
<1>7. (spool').length \in Nat /\ Counted(spool') /\ lockQ' \in Seq(Actor)
  BY <1>1, Parts DEF Counted
<1> QED BY <1>1, <1>2, <1>4, <1>5, <1>6, <1>7, Parts, FaultType, Assemble

\* Init: the rows of an earlier run are kept messages.
LEMMA InitIInv ==
    ASSUME Init
    PROVE  IInv
<1>1. PICK rows \in Leftovers :
         /\ spool = Opened(rows)
         /\ fate = [m \in Msg |-> IF m \in ToSet(rows) THEN "kept" ELSE "new"]
  BY DEF Init
<1>2. /\ pc = [a \in Actor |-> "idle"] /\ msg = [x \in Publisher |-> NoItem] /\ lockQ = <<>>
      /\ sends = <<>> /\ faults = 0
  BY DEF Init
<1>3. /\ rows \in Seq(Row) /\ Len(rows) \in Nat /\ spool.rows = rows /\ spool.length = Len(rows)
      /\ \A i, j \in 1 .. Len(rows) : rows[i] = rows[j] /\ rows[i] # Bad => i = j
  <2>1. /\ rows \in Seq(Row) /\ Len(rows) \in Nat /\ spool.rows = rows /\ spool.length = Len(rows)
        /\ \A i, j \in 1 .. Len(rows) : i < j /\ rows[i] # Bad /\ rows[j] # Bad => rows[i] < rows[j]
    BY <1>1, SpoolConstants, SMTT(30) DEF Opened, Row, Msg
  <2>2. \A i \in 1 .. Len(rows) : rows[i] # Bad => rows[i] \in Int
    BY <2>1, SpoolConstants DEF Row, Msg
  <2>3. ASSUME NEW i \in 1 .. Len(rows), NEW j \in 1 .. Len(rows), rows[i] = rows[j], rows[i] # Bad
        PROVE  i = j
    <3>1. ~(rows[i] < rows[j]) /\ ~(rows[j] < rows[i])
      BY <2>2, <2>3
    <3> QED BY <2>1, <2>3, <3>1
  <2> QED BY <2>1, <2>3
<1>4. /\ fate \in [Msg -> Fate]
      /\ \A m \in Msg : fate[m] = IF m \in ToSet(rows) THEN "kept" ELSE "new"
  BY <1>1 DEF Fate
<1>5. \A x : x \in ToSet(rows) <=> \E i \in 1 .. Len(rows) : rows[i] = x
  BY <1>3, ToSetIndex
<1>6. Stored(rows, fate)
  <2>1. \A i \in 1 .. Len(rows) : rows[i] # Bad => fate[rows[i]] = "kept"
    BY <1>3, <1>4, <1>5 DEF Row
  <2>2. \A m \in Msg : fate[m] = "kept" => \E i \in 1 .. Len(rows) : rows[i] = m
    BY <1>4, <1>5
  <2> QED BY <1>3, <2>1, <2>2 DEF Stored
<1>7. Recorded(sends, fate)
  <2>1. Len(sends) = 0
    BY <1>2
  <2> QED BY <1>4, <2>1 DEF Recorded
<1>8. /\ pc \in [Actor -> Place] /\ Control(pc, <<>>) /\ Hands(pc, msg, fate)
      /\ Ready(pc, spool, fate) /\ msg \in [Publisher -> Msg \cup {NoItem}]
  <2>1. \A m \in Msg : fate[m] # "hand"
    BY <1>4
  <2> QED BY <1>2, <2>1, AllIdle
<1>9. spool.length \in Nat /\ Counted(spool) /\ lockQ \in Seq(Actor)
  BY <1>2, <1>3 DEF Counted
<1>10. sends \in Seq(Msg) /\ faults \in 0 .. MaxFaults
  BY <1>2, SpoolConstants
<1>11. TypeOK
  BY <1>3, <1>4, <1>8, <1>9, <1>10 DEF TypeOK, Place, Row, Fate
<1> QED BY <1>2, <1>3, <1>6, <1>7, <1>8, <1>9, <1>11 DEF IInv

\* Every step keeps the invariant.
LEMMA NextIInv ==
    ASSUME IInv, [Next]_vars
    PROVE  IInv'
<1>1. CASE UNCHANGED vars
  <2>1. /\ pc' = pc /\ msg' = msg /\ lockQ' = lockQ /\ spool' = spool /\ fate' = fate
        /\ sends' = sends /\ faults' = faults
    BY <1>1 DEF vars
  <2> QED BY <2>1, Parts, Assemble
<1>2. ASSUME NEW p \in Publisher, enqueue_cloud(p) PROVE IInv'
  BY <1>2, EnqueueInv
<1>3. ASSUME NEW a \in Actor, Step(a) PROVE IInv'
  <2>1. CASE flush_start(a) \/ flush_peek(a) \/ flush_send(a) \/ flush_pop(a) \/ flush_end(a)
    BY <2>1, StartInv, PeekInv, ResendInv, PopInv, EndInv
  <2>2. CASE a \in Publisher /\ (publish(a) \/ trim(a) \/ keep(a))
    BY <2>2, PublishInv, TrimInv, KeepInv
  <2> QED BY <1>3, <2>1, <2>2 DEF Step
<1>4. CASE connect \/ send_cloud_event \/ session_ends \/ crash
  BY <1>4, ConnectInv, EventInv, SessionEndsInv, CrashInv
<1> QED BY <1>1, <1>2, <1>3, <1>4 DEF Next
----------------------------------------------------------------------------
(* Theorems *)

\* The invariant holds in every state of the publisher: no two coroutines are past
\* _cloud_publish_lock, each message in hand has one publisher, and rows, fates and sends
\* agree, whatever fails.
THEOREM SpoolInvariant == Spec => []IInv
<1> QED BY InitIInv, NextIInv, PTL DEF Spec

\* The variables of the publisher, its lock, its spool and its histories keep their types.
THEOREM CloudTypeOK == Spec => []TypeOK
<1>1. IInv => TypeOK
  BY DEF IInv
<1> QED BY <1>1, SpoolInvariant, PTL

----------------------------------------------------------------------------
(* What is lost, and to what *)

Struck == {"wiped", "escaped", "cancelled", "crashed"}

\* A message is struck by a failure only, and evicted only without room for two.
Blamed(f, n) ==
    \A m \in Msg : /\ f[m] \in Struck => n > 0
                   /\ f[m] = "evicted" => MaxLen = 0 \/ (MaxLen = 1 /\ n > 0)

\* The count kept in memory exceeds the rows only after a failure.
Owed(d, n) == d.length <= Len(d.rows) \/ n > 0

Blame == Blamed(fate, faults) /\ Owed(spool, faults)

\* Each message keeps its fate, or meets one that needs no failure, or a failure is counted.
LEMMA BlameStep ==
    ASSUME IInv, Blame, faults' \in {faults, faults + 1}, Owed(spool', faults'),
           \A m \in Msg : \/ fate'[m] = fate[m]
                          \/ fate'[m] \notin Struck \cup {"evicted"}
                          \/ fate'[m] \in Struck /\ faults' = faults + 1
    PROVE  Blame'
<1>1. faults \in Nat
  BY Parts, SpoolConstants
<1>2. Blamed(fate', faults')
  BY <1>1 DEF Blame, Blamed, Struck
<1> QED BY <1>2 DEF Blame, Blamed, Owed

\* An operation costs a failure or none.
LEMMA DidCost ==
    ASSUME NEW o, o.fault \in BOOLEAN, Did(o)
    PROVE  /\ o.fault => faults' = faults + 1
           /\ ~o.fault => faults' = faults
<1>1. CASE o.fault = TRUE
  BY <1>1 DEF Did, Fault
<1>2. CASE o.fault = FALSE
  BY <1>2 DEF Did
<1> QED BY <1>1, <1>2

\* An operation that leaves the rows or deletes all of them.
LEMMA SpoolBlame ==
    ASSUME IInv, Blame, NEW o, o.fault \in BOOLEAN, Did(o), ~o.fault => o.d = spool,
           Untouched(spool, o) \/ Emptied(spool, o), fate' = Wiped(o)
    PROVE  Blame'
<1>1. spool' = o.d /\ faults \in Nat
  BY Parts, SpoolConstants DEF Did
<1>2. \A m \in Msg : fate'[m] = IF m \in o.lost /\ fate[m] = "kept" THEN "wiped" ELSE fate[m]
  BY DEF Wiped
<1>3. CASE o.fault = TRUE
  <2>1. faults' = faults + 1
    BY <1>3 DEF Did, Fault
  <2>3. Owed(spool', faults')
    BY <1>1, <2>1 DEF Owed
  <2> QED BY <1>2, <2>1, <2>3, BlameStep DEF Struck
<1>4. CASE o.fault = FALSE
  <2>1. faults' = faults /\ spool' = spool
    BY <1>1, <1>4, DidCost
  <2>2. o.lost = {}
    BY <1>1, <2>1, ToSetEmpty DEF Untouched, Emptied
  <2> QED BY <1>2, <2>1, <2>2, BlameStep DEF Blame
<1> QED BY <1>3, <1>4

\* The first row goes, and a message that it was is given up, or not.
LEMMA PopBlame ==
    ASSUME IInv, Blame, NEW o, o.fault \in BOOLEAN, Did(o), Shortened(spool, o),
           \A m \in Msg : fate'[m] = fate[m] \/ fate'[m] = "trimmed"
    PROVE  Blame'
<1>1. /\ spool' = o.d /\ faults \in Nat /\ faults' \in {faults, faults + 1}
  BY Parts, DidCost, SpoolConstants DEF Did
<1>2. /\ spool.rows # <<>> /\ (spool').rows = Tail(spool.rows)
      /\ (spool').length = 0 \/ (spool.length > 0 /\ (spool').length = spool.length - 1)
  BY <1>1 DEF Shortened
<1>3. Len((spool').rows) = Len(spool.rows) - 1 /\ Len(spool.rows) \in Nat /\ Len(spool.rows) >= 1
  BY <1>2, Parts, TailIndex
<1>4. Owed(spool', faults')
  BY <1>1, <1>2, <1>3, Parts DEF Blame, Owed
<1> QED BY <1>1, <1>4, BlameStep DEF Struck

\* An exception is a failure.
LEMMA RaiseBlame ==
    ASSUME IInv, Blame, NEW a \in Actor, Raise(a)
    PROVE  Blame'
<1>1. spool' = spool /\ faults' = faults + 1 /\ faults \in Nat /\ fate \in [Msg -> Fate]
  BY Parts, SpoolConstants DEF Raise, Fault
<1>2. \A m \in Msg : fate'[m] = fate[m] \/ fate'[m] = "escaped"
  BY <1>1 DEF Raise
<1>3. Owed(spool', faults')
  BY <1>1 DEF Owed
<1> QED BY <1>1, <1>2, <1>3, BlameStep DEF Struck

\* An append evicts only without room for two, and there with the limit 1 after a failure.
LEMMA KeepBlame ==
    ASSUME IInv, Blame, NEW p \in Publisher, keep(p)
    PROVE  Blame'
<1> DEFINE m == msg[p]
<1>1. p \in Actor /\ m \in Msg /\ fate[m] = "hand" /\ pc[p] = "append"
  BY InHand DEF keep, At
<1>2. PICK o, s, k : Kept(m, o, s, k)
  BY KeepEnds
<1> HIDE DEF m
<1>3. /\ o.fault \in BOOLEAN /\ Did(o) /\ fate' = Evicted(Taken(m, o), o)
      /\ s \in Seq(Row) /\ k \in Nat /\ o.d.rows = Beyond(s, k) /\ Stored(s, Taken(m, o))
      /\ k > 0 => k = Over(0) \/ k = Over(spool.length)
      /\ ~o.fault => /\ s = Append(spool.rows, m) /\ k = Over(spool.length)
                     /\ o.d.length = spool.length + 1 - k /\ o.lost = {}
  BY <1>2 DEF Kept
<1>4. /\ spool.rows \in Seq(Row) /\ spool.length \in Nat /\ Len(spool.rows) \in Nat /\ m \in Row
      /\ faults \in Nat /\ MaxLen \in Nat /\ spool.length <= Len(spool.rows) + 1
      /\ MaxLen = 0 \/ spool.length < MaxLen \/ spool.rows = <<>>
      /\ Wiped(o) \in [Msg -> Fate]
  <2>1. Wiped(o) \in [Msg -> Fate]
    BY Parts, WipedFates
  <2>2. Knows("append", spool, fate)
    BY <1>1, Parts DEF Ready
  <2>3. faults \in Nat /\ MaxLen \in Nat
    BY Parts, SpoolConstants, DequeConstants
  <2> QED BY <1>1, <2>1, <2>2, <2>3, Parts DEF Row, Counted, Knows
<1>5. /\ faults' \in {faults, faults + 1} /\ (o.fault => faults' = faults + 1)
      /\ (~o.fault => faults' = faults) /\ spool' = o.d
  BY <1>3, DidCost DEF Did
<1>6. /\ Taken(m, o) \in [Msg -> Fate] /\ Taken(m, o)[m] \in {"kept", "dropped"}
      /\ \A n \in Msg : n # m => Taken(m, o)[n] = Wiped(o)[n]
  BY <1>1, <1>4 DEF Taken, Fate, Given
<1>7. \A n \in Msg : \/ fate'[n] = Taken(m, o)[n]
                     \/ fate'[n] = "evicted" /\ k > 0
  BY <1>3, <1>6, StoredEvicted
<1>8. k > 0 => MaxLen = 0 \/ (MaxLen = 1 /\ faults > 0)
  <2>1. SUFFICES ASSUME k > 0, MaxLen # 0 PROVE MaxLen = 1 /\ faults > 0
    OBVIOUS
  <2>2. Over(0) = 0
    BY <1>4, <2>1 DEF Over
  <2>3. spool.length >= MaxLen
    <3>1. Over(spool.length) > 0
      BY <1>3, <2>1, <2>2
    <3> QED BY <1>4, <3>1, OverBounds
  <2>4. spool.rows = <<>> /\ Len(spool.rows) = 0
    BY <1>4, <2>1, <2>3
  <2>5. spool.length = 1 /\ MaxLen = 1
    BY <1>4, <2>1, <2>3, <2>4
  <2> QED BY <1>4, <2>4, <2>5 DEF Blame, Owed
<1>9. Owed(spool', faults')
  <2>1. CASE o.fault
    BY <1>4, <1>5, <2>1 DEF Owed
  <2>2. CASE ~o.fault /\ faults > 0
    BY <1>5, <2>2 DEF Owed
  <2>3. CASE ~o.fault /\ ~(faults > 0)
    <3>1. Len(s) = Len(spool.rows) + 1
      BY <1>3, <1>4, <2>3, AppendIndex
    <3>2. spool.length <= Len(s) /\ spool.length + 1 <= Len(s)
      BY <1>4, <2>3, <3>1 DEF Blame, Owed
    <3>3. spool.length + 1 - Over(spool.length) <= Len(Beyond(s, Over(spool.length)))
      BY <1>3, <1>4, <3>2, OverCount
    <3> QED BY <1>3, <1>5, <2>3, <3>3 DEF Owed
  <2> QED BY <2>1, <2>2, <2>3
<1>10. \A n \in Msg : n # m => Wiped(o)[n] = fate[n] \/ (Wiped(o)[n] = "wiped" /\ faults' = faults + 1)
  BY <1>3, <1>5 DEF Wiped
<1>11. ASSUME NEW n \in Msg
       PROVE  /\ fate'[n] \in Struck => faults' > 0
              /\ fate'[n] = "evicted" => MaxLen = 0 \/ (MaxLen = 1 /\ faults' > 0)
  <2>1. CASE fate'[n] = "evicted" /\ k > 0
    BY <1>4, <1>5, <1>8, <2>1 DEF Struck
  <2>2. CASE fate'[n] = Taken(m, o)[n] /\ n = m
    BY <1>6, <2>2 DEF Struck
  <2>3. CASE fate'[n] = Taken(m, o)[n] /\ n # m
    <3>1. fate'[n] = fate[n] \/ (fate'[n] = "wiped" /\ faults' = faults + 1)
      BY <1>6, <1>10, <2>3
    <3> QED BY <1>4, <1>5, <3>1 DEF Blame, Blamed, Struck
  <2> QED BY <1>7, <2>1, <2>2, <2>3
<1> QED BY <1>9, <1>11 DEF Blame, Blamed, Owed

\* The other steps of the publishers.
LEMMA PublisherBlame ==
    ASSUME IInv, Blame, NEW p \in Publisher, enqueue_cloud(p) \/ publish(p) \/ trim(p)
    PROVE  Blame'
<1>1. fate \in [Msg -> Fate] /\ p \in Actor /\ faults \in Nat
  BY Parts, SpoolConstants DEF Actor
<1>2. CASE enqueue_cloud(p)
  <2>1. PICK m \in Msg : fate' = [fate EXCEPT ![m] = "refused"] \/ fate' = [fate EXCEPT ![m] = "hand"]
    BY <1>2 DEF enqueue_cloud
  <2>2. spool' = spool /\ faults' = faults
    BY <1>2 DEF enqueue_cloud
  <2>3. \A n \in Msg : fate'[n] = fate[n] \/ fate'[n] \in {"hand", "refused"}
    BY <1>1, <2>1
  <2> QED BY <2>2, <2>3, BlameStep DEF Struck, Blame
<1>3. CASE publish(p)
  <2>1. CASE /\ fate' = [fate EXCEPT ![msg[p]] = "sent"] /\ UNCHANGED <<spool, faults>>
    <3>1. spool' = spool /\ faults' = faults /\ \A n \in Msg : fate'[n] = fate[n] \/ fate'[n] = "sent"
      BY <1>1, <2>1
    <3> QED BY <3>1, BlameStep DEF Struck, Blame
  <2>2. CASE Refused /\ UNCHANGED <<msg, lockQ, spool, fate, sends>>
    <3>1. spool' = spool /\ fate' = fate /\ faults' \in {faults, faults + 1}
      BY <2>2 DEF Refused, Fault
    <3>2. Owed(spool', faults')
      BY <1>1, <3>1 DEF Blame, Owed
    <3> QED BY <3>1, <3>2, BlameStep
  <2>3. CASE Raise(p)
    BY <1>1, <2>3, RaiseBlame
  <2> QED BY <1>3, <2>1, <2>2, <2>3 DEF publish
<1>4. CASE trim(p)
  <2>1. CASE MaxLen > 0 /\ spool.length >= MaxLen
    <3>1. PICK o \in popleft(spool) :
             /\ Did(o)
             /\ fate' = [m \in Msg |-> IF o.res = "ok" /\ m = o.item /\ fate[m] = "kept"
                                       THEN "trimmed" ELSE Wiped(o)[m]]
      BY <1>4, <2>1 DEF trim
    <3>2. /\ o.fault \in BOOLEAN
          /\ Shortened(spool, o) \/ ((Untouched(spool, o) \/ Emptied(spool, o)) /\ o.res # "ok")
          /\ ~o.fault => Shortened(spool, o) \/ o.d = spool
      BY Parts, PopCases
    <3>3. CASE Shortened(spool, o)
      <4>1. \A m \in Msg : fate'[m] = fate[m] \/ fate'[m] = "trimmed"
        BY <3>1, <3>3 DEF Wiped, Shortened
      <4> QED BY <3>1, <3>2, <3>3, <4>1, PopBlame
    <3>4. CASE (Untouched(spool, o) \/ Emptied(spool, o)) /\ o.res # "ok"
      <4>1. fate' = Wiped(o) /\ (~o.fault => o.d = spool)
        BY <3>1, <3>2, <3>4 DEF Wiped, Shortened
      <4> QED BY <3>1, <3>2, <3>4, <4>1, SpoolBlame
    <3> QED BY <3>2, <3>3, <3>4
  <2>2. CASE ~(MaxLen > 0 /\ spool.length >= MaxLen)
    <3>1. spool' = spool /\ fate' = fate /\ faults' = faults
      BY <1>4, <2>2 DEF trim
    <3> QED BY <3>1, BlameStep DEF Blame
  <2> QED BY <2>1, <2>2
<1> QED BY <1>2, <1>3, <1>4

\* The steps of a flush.
LEMMA FlushBlame ==
    ASSUME IInv, Blame, NEW a \in Actor,
           flush_start(a) \/ flush_peek(a) \/ flush_send(a) \/ flush_pop(a) \/ flush_end(a)
    PROVE  Blame'
<1>1. fate \in [Msg -> Fate] /\ faults \in Nat
  BY Parts, SpoolConstants
<1>2. CASE spool' = spool /\ fate' = fate /\ faults' = faults
  BY <1>2, BlameStep DEF Blame
<1>3. CASE flush_start(a)
  BY <1>2, <1>3 DEF flush_start
<1>4. CASE flush_peek(a) /\ spool.length # 0
  <2>1. PICK o \in peek(spool) : Did(o) /\ fate' = Wiped(o)
    BY <1>4 DEF flush_peek
  <2>2. o.fault \in BOOLEAN /\ (Untouched(spool, o) \/ Emptied(spool, o)) /\ (~o.fault => o.d = spool)
    BY Parts, PeekCases
  <2> QED BY <2>1, <2>2, SpoolBlame
<1>5. CASE flush_end(a) /\ spool.length = 0
  <2>1. PICK o \in vacuum(spool) : Did(o) /\ fate' = Wiped(o)
    BY <1>5 DEF flush_end
  <2>2. o.fault \in BOOLEAN /\ (Untouched(spool, o) \/ Emptied(spool, o)) /\ (~o.fault => o.d = spool)
    BY Parts, VacuumCases
  <2> QED BY <2>1, <2>2, SpoolBlame
<1>6. CASE (flush_peek(a) /\ spool.length = 0) \/ (flush_end(a) /\ spool.length # 0)
  BY <1>2, <1>6 DEF flush_peek, flush_end
<1>7. CASE flush_send(a)
  <2>1. CASE /\ fate' = [fate EXCEPT ![Head(spool.rows)] = "sent"] /\ UNCHANGED <<msg, lockQ, spool, faults>>
    <3>1. spool' = spool /\ faults' = faults /\ \A n \in Msg : fate'[n] = fate[n] \/ fate'[n] = "sent"
      BY <1>1, <2>1
    <3> QED BY <3>1, BlameStep DEF Struck, Blame
  <2>2. CASE Refused /\ UNCHANGED <<msg, lockQ, spool, fate, sends>>
    <3>1. spool' = spool /\ fate' = fate /\ faults' \in {faults, faults + 1}
      BY <2>2 DEF Refused, Fault
    <3>2. Owed(spool', faults')
      BY <1>1, <3>1 DEF Blame, Owed
    <3> QED BY <3>1, <3>2, BlameStep
  <2>3. CASE Raise(a)
    BY <2>3, RaiseBlame
  <2> QED BY <1>7, <2>1, <2>2, <2>3 DEF flush_send
<1>8. CASE flush_pop(a)
  <2>1. PICK o \in popleft(spool) : Did(o) /\ fate' = Wiped(o)
    BY <1>8 DEF flush_pop
  <2>2. /\ o.fault \in BOOLEAN /\ (Shortened(spool, o) \/ Untouched(spool, o) \/ Emptied(spool, o))
        /\ ~o.fault => Shortened(spool, o) \/ o.d = spool
    BY Parts, PopCases
  <2>3. CASE Shortened(spool, o)
    <3>1. fate' = fate
      BY <2>1, <2>3, Parts, WipedFates DEF Shortened
    <3> QED BY <2>1, <2>2, <2>3, <3>1, PopBlame
  <2>4. CASE ~Shortened(spool, o)
    BY <2>1, <2>2, <2>4, SpoolBlame
  <2> QED BY <2>3, <2>4
<1> QED BY <1>3, <1>4, <1>5, <1>6, <1>7, <1>8

\* The session, and a restart of the daemon.
LEMMA SessionBlame ==
    ASSUME IInv, Blame, connect \/ send_cloud_event \/ session_ends \/ crash
    PROVE  Blame'
<1>1. faults \in Nat
  BY Parts, SpoolConstants
<1>2. CASE connect \/ send_cloud_event
  <2>1. spool' = spool /\ fate' = fate /\ faults' \in {faults, faults + 1}
    BY <1>2 DEF connect, send_cloud_event, Fault
  <2>2. Owed(spool', faults')
    BY <1>1, <2>1 DEF Blame, Owed
  <2> QED BY <2>1, <2>2, BlameStep
<1>3. CASE session_ends \/ crash
  <2>1. /\ faults' = faults + 1
        /\ \A m \in Msg : fate'[m] = fate[m] \/ fate'[m] \in {"cancelled", "crashed"}
    BY <1>3 DEF session_ends, crash, Fault
  <2>2. Owed(spool', faults')
    BY <1>1, <2>1 DEF Owed
  <2> QED BY <2>1, <2>2, BlameStep DEF Struck
<1> QED BY <1>2, <1>3

\* The account of the losses is kept by every step.
THEOREM SpoolBlamed == Spec => []Blame
<1>1. Init => Blame
  <2>1. SUFFICES ASSUME Init PROVE Blame
    OBVIOUS
  <2>2. /\ \A m \in Msg : fate[m] \in {"kept", "new"}
        /\ spool.length = Len(spool.rows)
    BY <2>1 DEF Init, Opened
  <2>3. spool.length \in Nat
    BY <2>1, InitIInv, Parts
  <2> QED BY <2>2, <2>3 DEF Blame, Blamed, Owed, Struck
<1>2. IInv /\ Blame /\ [Next]_vars => Blame'
  <2>1. SUFFICES ASSUME IInv, Blame, [Next]_vars PROVE Blame'
    OBVIOUS
  <2>2. CASE UNCHANGED vars
    BY <2>1, <2>2 DEF vars, Blame, Blamed, Owed
  <2>3. ASSUME NEW p \in Publisher, enqueue_cloud(p) PROVE Blame'
    BY <2>1, <2>3, PublisherBlame
  <2>4. ASSUME NEW a \in Actor, Step(a) PROVE Blame'
    BY <2>1, <2>4, PublisherBlame, KeepBlame, FlushBlame DEF Step
  <2>5. CASE connect \/ send_cloud_event \/ session_ends \/ crash
    BY <2>1, <2>5, SessionBlame
  <2> QED BY <2>1, <2>2, <2>3, <2>4, <2>5 DEF Next
<1> QED BY <1>1, <1>2, SpoolInvariant, PTL DEF Spec

\* No message that enqueue_cloud accepted disappears for nothing, whatever the limit of the
\* queue: one that is in no hand, no row and was not sent was counted as dropped or trimmed, or
\* a failure of the database, the stream, the session or the daemon struck it; an append that
\* reports success deletes what it took only with the limit 0, or with 1 after a failure.
THEOREM NothingIsSilent == Spec => []NothingSilent
<1>1. IInv /\ Blame => NothingSilent
  <2>1. SUFFICES ASSUME IInv, Blame, NEW m \in Msg, Gone(m)
                 PROVE  \/ fate[m] \in {"refused", "dropped", "trimmed"}
                        \/ fate[m] \in Struck /\ faults > 0
                        \/ fate[m] = "evicted" /\ MayEvict
    BY DEF NothingSilent, Struck
  <2>2. fate[m] # "hand"
    BY <2>1, Parts DEF Hands, Gone
  <2>3. fate[m] # "kept"
    <3>1. fate[m] = "kept" => \E i \in 1 .. Len(spool.rows) : spool.rows[i] = m
      BY <2>1, Parts DEF Stored
    <3>2. spool.rows \in Seq(Row)
      BY <2>1, Parts
    <3> QED BY <2>1, <3>1, <3>2, ToSetIndex DEF Gone
  <2>4. fate[m] # "sent"
    <3>1. fate[m] = "sent" => \E i \in 1 .. Len(sends) : sends[i] = m
      BY <2>1, Parts DEF Recorded
    <3>2. sends \in Seq(Msg)
      BY <2>1, Parts
    <3> QED BY <2>1, <3>1, <3>2, ToSetIndex DEF Gone
  <2>5. fate[m] \in Fate /\ fate[m] # "new"
    BY <2>1, Parts DEF Gone
  <2>6. fate[m] \in {"refused", "dropped", "trimmed", "evicted"} \cup Struck
    BY <2>2, <2>3, <2>4, <2>5 DEF Fate, Given, Struck
  <2> QED BY <2>1, <2>6 DEF Blame, Blamed, MayEvict
<1> QED BY <1>1, SpoolInvariant, SpoolBlamed, PTL
----------------------------------------------------------------------------
(* The outbox that the publisher implements *)

Fresh(f) == {m \in Msg : f[m] = "hand"}
Lost(f) == {m \in Msg : f[m] \in Given}

\* Where a message is, in the terms of the outbox.
LEMMA Whereabouts ==
    ASSUME IInv
    PROVE  /\ ToSet(sends) = {m \in Msg : fate[m] = "sent"}
           /\ \A m \in Msg : m \in ToSet(spool.rows) => fate[m] \in {"kept", "sent"}
           /\ ToSet(spool.rows) \ (ToSet(sends) \cup {Bad}) = {m \in Msg : fate[m] = "kept"}
<1>1. \A x : x \in ToSet(sends) <=> \E i \in 1 .. Len(sends) : sends[i] = x
  BY Parts, ToSetIndex
<1>2. \A x : x \in ToSet(spool.rows) <=> \E i \in 1 .. Len(spool.rows) : spool.rows[i] = x
  BY Parts, ToSetIndex
<1>3. \A i \in 1 .. Len(sends) : sends[i] \in Msg
  BY Parts
<1>4. \A i \in 1 .. Len(spool.rows) : spool.rows[i] = Bad \/ spool.rows[i] \in Msg
  BY Parts DEF Row
<1>5. Bad \notin Msg
  BY SpoolConstants DEF Msg
<1>6. ToSet(sends) = {m \in Msg : fate[m] = "sent"}
  BY <1>1, <1>3, Parts DEF Recorded
<1>7. \A m \in Msg : m \in ToSet(spool.rows) => fate[m] \in {"kept", "sent"}
  BY <1>2, <1>5, Parts DEF Stored
<1>8. \A m \in Msg : fate[m] = "kept" => m \in ToSet(spool.rows)
  BY <1>2, Parts DEF Stored
<1>9. \A x \in ToSet(spool.rows) : x = Bad \/ x \in Msg
  BY <1>2, <1>4
<1> QED BY <1>5, <1>6, <1>7, <1>8, <1>9

\* A message is accepted or refused.
LEMMA AcceptStep ==
    ASSUME IInv, NEW m \in Msg, fate[m] = "new", fate'[m] \in {"hand", "refused"},
           \A n \in Msg : n # m => fate'[n] = fate[n], spool' = spool, sends' = sends
    PROVE  outbox!Accept(m)
<1>1. m \notin Fresh(fate) \cup ToSet(sends) \cup Lost(fate) \cup ToSet(spool.rows)
  BY Whereabouts DEF Fresh, Lost, Given
<1>2. \/ Fresh(fate') = Fresh(fate) \cup {m} /\ Lost(fate') = Lost(fate)
      \/ Lost(fate') = Lost(fate) \cup {m} /\ Fresh(fate') = Fresh(fate)
  <2>1. CASE fate'[m] = "hand"
    BY <2>1 DEF Fresh, Lost, Given
  <2>2. CASE fate'[m] = "refused"
    BY <2>2 DEF Fresh, Lost, Given
  <2> QED BY <2>1, <2>2
<1> QED BY <1>1, <1>2 DEF outbox!Accept, outbox!ToSet, ToSet, Fresh, Lost

\* A message in hand, or the head of the spool, is sent.
LEMMA SendStep ==
    ASSUME IInv, NEW m \in Msg,
           fate[m] = "hand" \/ (spool.rows # <<>> /\ m = Head(spool.rows)),
           fate'[m] = "sent", \A n \in Msg : n # m => fate'[n] = fate[n],
           spool' = spool, sends' = Append(sends, m)
    PROVE  outbox!Next
<1>1. ToSet(sends') = ToSet(sends) \cup {m}
  BY Parts, ToSetAppend
<1>2. spool.rows # <<>> /\ m = Head(spool.rows) => fate[m] \in {"kept", "sent"}
  <2>1. spool.rows # <<>> /\ m = Head(spool.rows) => m = spool.rows[1] /\ 1 \in 1 .. Len(spool.rows)
    BY Parts, TailIndex
  <2>2. m # Bad
    BY SpoolConstants DEF Msg
  <2> QED BY <2>1, <2>2, Parts DEF Stored
<1>3. Fresh(fate') = Fresh(fate) \ {m} /\ Lost(fate') = Lost(fate)
  BY <1>2 DEF Fresh, Lost, Given
<1>4. m \in Fresh(fate) \/ (spool.rows # <<>> /\ m = Head(spool.rows))
  BY DEF Fresh
<1>5. outbox!Send(m)
  BY <1>1, <1>3, <1>4 DEF outbox!Send, outbox!ToSet, ToSet, Fresh, Lost
<1> QED BY <1>5 DEF outbox!Next

\* The messages of a set D that are in hand are given up; with none the outbox does nothing.
LEMMA GiveUpStep ==
    ASSUME IInv, NEW D \in SUBSET Fresh(fate),
           \A m \in Msg : IF m \in D THEN fate'[m] \in Given ELSE fate'[m] = fate[m],
           (spool').rows = spool.rows, sends' = sends
    PROVE  outbox!Next
<1>1. Fresh(fate') = Fresh(fate) \ D /\ Lost(fate') = Lost(fate) \cup D
  BY DEF Fresh, Lost, Given
<1>2. outbox!GiveUp(D)
  BY <1>1 DEF outbox!GiveUp, Fresh, Lost
<1> QED BY <1>2 DEF outbox!Next, Fresh

\* Nothing happens that the outbox could tell.
LEMMA NoStep ==
    ASSUME IInv, \A m \in Msg : fate'[m] = fate[m], (spool').rows = spool.rows, sends' = sends
    PROVE  outbox!Next
<1>1. {} \in SUBSET Fresh(fate)
  OBVIOUS
<1> QED BY <1>1, GiveUpStep

\* A message in hand is put at the end of the rows, and the k oldest go.
LEMMA KeepStep ==
    ASSUME IInv, NEW m \in Msg, fate[m] = "hand", NEW k \in Nat, MaxLen > 1 => k = 0,
           (spool').rows = Beyond(Append(spool.rows, m), k),
           \A n \in Msg : IF n = m \/ fate[n] = "kept"
                          THEN fate'[n] = IF n \in ToSet((spool').rows) THEN "kept" ELSE "evicted"
                          ELSE fate'[n] = fate[n],
           sends' = sends
    PROVE  outbox!Next
<1> DEFINE s == Append(spool.rows, m)
           l == Len(spool.rows)
           q == (spool').rows
           j == IF k > Len(spool.rows) + 1 THEN Len(spool.rows) + 1 ELSE k
<1>1. s \in Seq(Row) /\ Len(s) = l + 1 /\ l \in Nat
  BY Parts, AppendIndex DEF Row
<1>2. j \in 0 .. l + 1 /\ j \in Nat /\ (MaxLen > 1 => j = 0)
  BY <1>1
<1>3. q = Beyond(s, j)
  <2>1. CASE k > l + 1
    <3>1. k >= Len(s) /\ j >= Len(s)
      BY <1>1, <2>1
    <3> HIDE DEF s, j
    <3>2. Beyond(s, k) = <<>>
      BY <1>1, <3>1, BeyondIndex
    <3>3. Beyond(s, j) = <<>>
      BY <1>1, <1>2, <3>1, BeyondIndex
    <3> QED BY <3>2, <3>3 DEF s
  <2>2. CASE ~(k > l + 1)
    BY <2>2
  <2> QED BY <2>1, <2>2
<1>4. q = SubSeq(s, j + 1, l + 1)
  BY <1>1, <1>3 DEF Beyond
<1>5. j \in IF MaxLen > 1 THEN {0} ELSE 0 .. l + 1
  BY <1>2
<1>6. ToSet(s) = ToSet(spool.rows) \cup {m}
  <2>1. spool.rows \in Seq(Row) /\ m \in Row
    BY Parts DEF Row
  <2> QED BY <2>1, ToSetAppend
<1>7. m \notin ToSet(sends) /\ m # Bad
  BY Whereabouts, SpoolConstants DEF Msg
<1>8. ToSet(s) \ (ToSet(sends) \cup {Bad}) = {n \in Msg : n = m \/ fate[n] = "kept"}
  <2>1. ToSet(spool.rows) \ (ToSet(sends) \cup {Bad}) = {n \in Msg : fate[n] = "kept"}
    BY Whereabouts
  <2> QED BY <1>6, <1>7, <2>1
<1>9. m \in Fresh(fate)
  BY DEF Fresh
<1> HIDE DEF q, j, s
<1>10. \A n \in Msg : IF n = m \/ fate[n] = "kept"
                      THEN fate'[n] = IF n \in ToSet(q) THEN "kept" ELSE "evicted"
                      ELSE fate'[n] = fate[n]
  BY DEF q
<1>11. Fresh(fate') = Fresh(fate) \ {m}
  BY <1>10 DEF Fresh
<1> DEFINE gone == (ToSet(s) \ ToSet(q)) \ (ToSet(sends) \cup {Bad})
<1>12. gone = {n \in Msg : (n = m \/ fate[n] = "kept") /\ n \notin ToSet(q)}
  BY <1>8
<1> HIDE DEF gone
<1>13. Lost(fate') = Lost(fate) \cup gone
  BY <1>10, <1>12 DEF Lost, Given
<1>14. outbox!Keep(m)
  <2>1. q = SubSeq(Append(spool.rows, m), j + 1, Len(spool.rows) + 1)
    BY <1>4 DEF s
  <2>2. Lost(fate') = Lost(fate) \cup ((ToSet(Append(spool.rows, m)) \ ToSet(q)) \ (ToSet(sends) \cup {Bad}))
    BY <1>13 DEF gone, s
  <2>3. \E i \in IF MaxLen > 1 THEN {0} ELSE 0 .. Len(spool.rows) + 1 :
           /\ (spool').rows = SubSeq(Append(spool.rows, m), i + 1, Len(spool.rows) + 1)
           /\ Lost(fate') = Lost(fate) \cup
                 ((ToSet(Append(spool.rows, m)) \ ToSet((spool').rows)) \ (ToSet(sends) \cup {Bad}))
    BY <1>5, <2>1, <2>2 DEF q
  <2>4. ToSet(sends') = ToSet(sends)
    OBVIOUS
  <2> QED BY <1>9, <1>11, <2>3, <2>4 DEF outbox!Keep, outbox!ToSet, ToSet, Fresh, Lost
<1> QED BY <1>14 DEF outbox!Next

\* The rows are deleted; messages D in hand are given up with them.
LEMMA WipeStep ==
    ASSUME IInv, NEW D \in SUBSET Fresh(fate),
           \A m \in Msg : IF m \in D THEN fate'[m] \in Given
                          ELSE IF fate[m] = "kept" THEN fate'[m] = "wiped"
                          ELSE fate'[m] = fate[m],
           (spool').rows = <<>>, sends' = sends
    PROVE  outbox!Next
<1>1. CASE spool.rows = <<>>
  <2>1. \A m \in Msg : fate[m] # "kept"
    <3>1. Len(spool.rows) = 0
      BY <1>1
    <3> QED BY <3>1, Parts DEF Stored
  <2> QED BY <1>1, <2>1, GiveUpStep
<1>2. CASE spool.rows # <<>>
  <2> DEFINE gone == ToSet(spool.rows) \ (ToSet(sends) \cup {Bad})
  <2>1. gone = {m \in Msg : fate[m] = "kept"}
    BY Whereabouts
  <2>2. Fresh(fate') = Fresh(fate) \ D /\ Lost(fate') = Lost(fate) \cup gone \cup D
    BY <2>1 DEF Fresh, Lost, Given
  <2> HIDE DEF gone
  <2>3. outbox!Wipe(D)
    BY <1>2, <2>2 DEF outbox!Wipe, outbox!ToSet, ToSet, Fresh, Lost, gone
  <2> QED BY <2>3 DEF outbox!Next, Fresh
<1> QED BY <1>1, <1>2

\* The rows are deleted, and the message being appended is the only one.
LEMMA WipeKeepStep ==
    ASSUME IInv, NEW m \in Msg, fate[m] = "hand", fate'[m] = "kept",
           \A n \in Msg : n # m => IF fate[n] = "kept" THEN fate'[n] = "wiped"
                                   ELSE fate'[n] = fate[n],
           (spool').rows = <<m>>, sends' = sends
    PROVE  outbox!Next
<1>1. CASE spool.rows = <<>>
  <2>1. \A n \in Msg : fate[n] # "kept"
    <3>1. Len(spool.rows) = 0
      BY <1>1
    <3> QED BY <3>1, Parts DEF Stored
  <2> DEFINE s == Append(spool.rows, m)
  <2>2. (spool').rows = s /\ s \in Seq(Row)
    BY <1>1, Parts DEF Row
  <2>4. m \in ToSet(s)
    BY Parts, ToSetAppend DEF Row
  <2> HIDE DEF s
  <2>3. (spool').rows = Beyond(s, 0) /\ m \in ToSet((spool').rows) /\ 0 \in Nat
    BY <2>2, <2>4, BeyondNone
  <2> QED BY <2>1, <2>3, KeepStep DEF s
<1>2. CASE spool.rows # <<>>
  <2> DEFINE gone == ToSet(spool.rows) \ (ToSet(sends) \cup {Bad})
  <2>1. gone = {n \in Msg : fate[n] = "kept"}
    BY Whereabouts
  <2>2. Fresh(fate') = Fresh(fate) \ {m} /\ Lost(fate') = Lost(fate) \cup gone /\ {m} \in SUBSET Fresh(fate)
    BY <2>1 DEF Fresh, Lost, Given
  <2> HIDE DEF gone
  <2>3. outbox!Wipe({m})
    BY <1>2, <2>2 DEF outbox!Wipe, outbox!ToSet, ToSet, Fresh, Lost, gone
  <2> QED BY <2>2, <2>3 DEF outbox!Next, Fresh
<1> QED BY <1>1, <1>2

\* The head of the spool goes: it was sent, is no message, or is given up.
LEMMA HeadGoes ==
    ASSUME IInv, spool.rows # <<>>, (spool').rows = Tail(spool.rows), sends' = sends,
           \A m \in Msg : fate'[m] = IF m = Head(spool.rows) /\ fate[m] = "kept" THEN "trimmed"
                                     ELSE fate[m]
    PROVE  outbox!Next
<1> DEFINE h == Head(spool.rows)
<1>1. h \in Msg \cup {Bad} /\ h \in ToSet(spool.rows)
  <2>1. h = spool.rows[1] /\ 1 \in 1 .. Len(spool.rows) /\ h \in Row
    BY Parts, TailIndex
  <2> QED BY <2>1, Parts, ToSetIndex DEF Row
<1>2. Bad \notin Msg
  BY SpoolConstants DEF Msg
<1>3. {h} \ (ToSet(sends) \cup {Bad}) = {m \in Msg : m = h /\ fate[m] = "kept"}
  BY <1>1, <1>2, Whereabouts
<1> HIDE DEF h
<1>4. Fresh(fate') = Fresh(fate) /\ Lost(fate') = Lost(fate) \cup ({h} \ (ToSet(sends) \cup {Bad}))
  BY <1>3 DEF Fresh, Lost, Given, h
<1>5. outbox!Trim
  BY <1>4 DEF outbox!Trim, outbox!ToSet, ToSet, Fresh, Lost, h
<1> QED BY <1>5 DEF outbox!Next

\* An operation of the spool that leaves the rows or deletes all of them.
LEMMA SpoolSim ==
    ASSUME IInv, NEW o, Did(o), Untouched(spool, o) \/ Emptied(spool, o), fate' = Wiped(o),
           sends' = sends
    PROVE  outbox!Next
<1>1. spool' = o.d
  BY DEF Did
<1>2. \A m \in Msg : fate'[m] = IF m \in o.lost /\ fate[m] = "kept" THEN "wiped" ELSE fate[m]
  BY DEF Wiped
<1>3. CASE Untouched(spool, o)
  <2>1. (\A m \in Msg : fate'[m] = fate[m]) /\ (spool').rows = spool.rows
    BY <1>1, <1>2, <1>3 DEF Untouched
  <2> QED BY <2>1, NoStep
<1>4. CASE Emptied(spool, o)
  <2>1. \A m \in Msg : fate[m] = "kept" => m \in o.lost
    BY <1>4, Whereabouts DEF Emptied
  <2>2. {} \in SUBSET Fresh(fate) /\ (spool').rows = <<>>
    BY <1>1, <1>4 DEF Emptied
  <2>3. \A m \in Msg : IF m \in {} THEN fate'[m] \in Given
                       ELSE IF fate[m] = "kept" THEN fate'[m] = "wiped"
                       ELSE fate'[m] = fate[m]
    BY <1>2, <2>1
  <2> QED BY <2>2, <2>3, WipeStep
<1> QED BY <1>3, <1>4

\* An exception that leaves the call of a coroutine gives up the message in its hands.
LEMMA RaiseSim ==
    ASSUME IInv, NEW a \in Actor, Holds(a), Raise(a)
    PROVE  outbox!Next
<1>1. spool' = spool /\ sends' = sends
  BY DEF Raise
<1>2. CASE a = Conn
  <2>1. fate' = fate
    BY <1>2 DEF Raise
  <2> QED BY <1>1, <2>1, NoStep
<1>3. CASE a \in Publisher
  <2>1. a # Conn /\ msg[a] \in Msg /\ fate[msg[a]] = "hand"
    BY <1>3, InHand
  <2>2. fate' = [fate EXCEPT ![msg[a]] = "escaped"] /\ fate \in [Msg -> Fate]
    BY <2>1, Parts DEF Raise
  <2> DEFINE D == {msg[a]}
  <2>3. D \in SUBSET Fresh(fate)
    BY <2>1 DEF Fresh
  <2>4. \A m \in Msg : IF m \in D THEN fate'[m] \in Given ELSE fate'[m] = fate[m]
    BY <2>1, <2>2 DEF Given
  <2> HIDE DEF D
  <2> QED BY <1>1, <2>3, <2>4, GiveUpStep
<1> QED BY <1>2, <1>3 DEF Actor

\* The steps of the publishers.
LEMMA PublisherSim ==
    ASSUME IInv, NEW p \in Publisher, enqueue_cloud(p) \/ publish(p) \/ trim(p) \/ keep(p)
    PROVE  outbox!Next
<1>1. fate \in [Msg -> Fate] /\ p \in Actor
  BY Parts DEF Actor
<1>2. CASE enqueue_cloud(p)
  <2>1. PICK m \in Msg :
           /\ fate[m] = "new"
           /\ fate' = [fate EXCEPT ![m] = "refused"] \/ fate' = [fate EXCEPT ![m] = "hand"]
    BY <1>2 DEF enqueue_cloud
  <2>2. spool' = spool /\ sends' = sends
    BY <1>2 DEF enqueue_cloud
  <2>3. fate'[m] \in {"hand", "refused"} /\ \A n \in Msg : n # m => fate'[n] = fate[n]
    BY <1>1, <2>1
  <2>4. outbox!Accept(m)
    BY <2>1, <2>2, <2>3, AcceptStep
  <2> QED BY <2>4 DEF outbox!Next
<1>3. CASE publish(p)
  <2>1. Holds(p) /\ msg[p] \in Msg /\ fate[msg[p]] = "hand"
    BY <1>3, InHand DEF publish, At
  <2>2. CASE /\ sends' = Append(sends, msg[p]) /\ fate' = [fate EXCEPT ![msg[p]] = "sent"]
             /\ UNCHANGED <<spool, faults>>
    <3>1. spool' = spool /\ fate'[msg[p]] = "sent" /\ \A n \in Msg : n # msg[p] => fate'[n] = fate[n]
      BY <1>1, <2>1, <2>2
    <3> QED BY <2>1, <2>2, <3>1, SendStep
  <2>3. CASE UNCHANGED <<msg, lockQ, spool, fate, sends>>
    BY <2>3, NoStep
  <2>4. CASE Raise(p)
    BY <1>1, <2>1, <2>4, RaiseSim
  <2> QED BY <1>3, <2>2, <2>3, <2>4 DEF publish
<1>4. CASE trim(p)
  <2>1. sends' = sends
    BY <1>4 DEF trim
  <2>2. CASE MaxLen > 0 /\ spool.length >= MaxLen
    <3>1. PICK o \in popleft(spool) :
             /\ Did(o)
             /\ fate' = [m \in Msg |-> IF o.res = "ok" /\ m = o.item /\ fate[m] = "kept"
                                       THEN "trimmed" ELSE Wiped(o)[m]]
      BY <1>4, <2>2 DEF trim
    <3>2. \/ Shortened(spool, o)
          \/ Untouched(spool, o) /\ o.res # "ok"
          \/ Emptied(spool, o) /\ o.res # "ok"
      BY Parts, PopCases
    <3>3. CASE Shortened(spool, o)
      <4>1. /\ Wiped(o) = fate /\ o.res = "ok" /\ o.item = Head(spool.rows)
            /\ spool.rows # <<>> /\ (spool').rows = Tail(spool.rows)
        BY <3>1, <3>3, Parts, WipedFates DEF Shortened, Did
      <4>2. \A m \in Msg : fate'[m] = IF m = Head(spool.rows) /\ fate[m] = "kept" THEN "trimmed"
                                      ELSE fate[m]
        BY <3>1, <4>1
      <4> QED BY <2>1, <4>1, <4>2, HeadGoes
    <3>4. CASE (Untouched(spool, o) \/ Emptied(spool, o)) /\ o.res # "ok"
      <4>1. fate' = Wiped(o)
        BY <3>1, <3>4 DEF Wiped
      <4> QED BY <2>1, <3>1, <3>4, <4>1, SpoolSim
    <3> QED BY <3>2, <3>3, <3>4
  <2>3. CASE ~(MaxLen > 0 /\ spool.length >= MaxLen)
    <3>1. spool' = spool /\ fate' = fate
      BY <1>4, <2>3 DEF trim
    <3> QED BY <2>1, <3>1, NoStep
  <2> QED BY <2>2, <2>3
<1>5. CASE keep(p)
  <2> DEFINE m == msg[p]
             r == spool.rows
  <2>1. m \in Msg /\ fate[m] = "hand" /\ pc[p] = "append" /\ sends' = sends
    BY <1>5, InHand DEF keep, At
  <2>2. PICK o, s, k : Kept(m, o, s, k)
    BY <1>5, KeepEnds
  <2> HIDE DEF m
  <2> DEFINE e == Taken(m, o)
  <2>3. /\ spool' = o.d /\ fate' = Evicted(e, o) /\ s \in Seq(Row) /\ k \in Nat
        /\ (spool').rows = Beyond(s, k) /\ Stored(s, e) /\ (MaxLen > 1 => k = 0)
    BY <2>2 DEF Kept, Did
  <2>4. /\ e[m] = IF o.res = "ok" THEN "kept" ELSE "dropped"
        /\ \A n \in Msg : n # m => e[n] = IF n \in o.lost /\ fate[n] = "kept" THEN "wiped"
                                          ELSE fate[n]
    BY <2>1 DEF Taken, Wiped
  <2>5. \A n \in Msg : fate'[n] = IF e[n] = "kept" /\ n \notin ToSet((spool').rows) THEN "evicted"
                                  ELSE e[n]
    BY <2>3 DEF Evicted
  <2>6. \A n \in Msg : fate[n] = "kept" => n \in ToSet(r)
    BY Whereabouts
  <2>7. k = 0 => \A n \in Msg : fate'[n] = e[n]
    <3>1. k = 0 => (spool').rows = s
      BY <2>3, BeyondIndex
    <3>2. \A n \in Msg : e[n] = "kept" => n \in ToSet(s)
      BY <2>3, ToSetIndex DEF Stored
    <3> QED BY <2>5, <3>1, <3>2
  <2> DEFINE D == {m}
  <2>8. D \in SUBSET Fresh(fate) /\ \A n : n \in D <=> n = m
    BY <2>1 DEF Fresh
  <2> HIDE DEF D, e
  <2>9. CASE o.res = "ok" /\ s = Append(r, m) /\ o.lost = {}
    <3>1. \A n \in Msg : IF n = m \/ fate[n] = "kept"
                         THEN fate'[n] = IF n \in ToSet((spool').rows) THEN "kept" ELSE "evicted"
                         ELSE fate'[n] = fate[n]
      BY <2>4, <2>5, <2>9
    <3> QED BY <2>1, <2>3, <2>9, <3>1, KeepStep
  <2>10. CASE o.res = "ok" /\ s = <<m>> /\ o.lost = ToSet(r) /\ k = Over(0)
    <3>1. k = 0 \/ k = 1
      BY <2>10, DequeConstants DEF Over
    <3>2. CASE k = 0
      <4>1. (spool').rows = <<m>>
        BY <2>3, <2>10, <3>2, BeyondIndex
      <4> QED BY <2>1, <2>4, <2>6, <2>7, <2>10, <3>2, <4>1, WipeKeepStep
    <3>3. CASE k = 1
      <4>1. (spool').rows = <<>>
        <5>1. Len(s) = 1 /\ k >= Len(s)
          BY <2>10, <3>3
        <5> QED BY <2>3, <5>1, BeyondIndex
      <4>2. ToSet((spool').rows) = {}
        BY <4>1, ToSetEmpty
      <4>3. \A n \in Msg : IF n \in D THEN fate'[n] \in Given
                           ELSE IF fate[n] = "kept" THEN fate'[n] = "wiped"
                           ELSE fate'[n] = fate[n]
        BY <2>4, <2>5, <2>6, <2>8, <2>10, <4>2 DEF Given
      <4> QED BY <2>1, <2>8, <4>1, <4>3, WipeStep
    <3> QED BY <3>1, <3>2, <3>3
  <2>11. CASE o.res # "ok" /\ s = r /\ o.lost = {} /\ k = 0
    <3>1. \A n \in Msg : IF n \in D THEN fate'[n] \in Given ELSE fate'[n] = fate[n]
      BY <2>1, <2>4, <2>7, <2>8, <2>11 DEF Given
    <3>2. (spool').rows = r
      BY <2>3, <2>11, BeyondIndex
    <3> QED BY <2>1, <2>8, <3>1, <3>2, GiveUpStep
  <2>12. CASE o.res # "ok" /\ s = <<>> /\ o.lost = ToSet(r) /\ k = 0
    <3>1. \A n \in Msg : IF n \in D THEN fate'[n] \in Given
                         ELSE IF fate[n] = "kept" THEN fate'[n] = "wiped"
                         ELSE fate'[n] = fate[n]
      BY <2>1, <2>4, <2>6, <2>7, <2>8, <2>12 DEF Given
    <3>2. (spool').rows = <<>>
      BY <2>3, <2>12, BeyondIndex
    <3> QED BY <2>1, <2>8, <3>1, <3>2, WipeStep
  <2> QED BY <2>2, <2>9, <2>10, <2>11, <2>12 DEF Kept
<1> QED BY <1>2, <1>3, <1>4, <1>5

\* The steps of a flush.
LEMMA FlushSim ==
    ASSUME IInv, NEW a \in Actor,
           flush_start(a) \/ flush_peek(a) \/ flush_send(a) \/ flush_pop(a) \/ flush_end(a)
    PROVE  outbox!Next
<1>1. fate \in [Msg -> Fate]
  BY Parts
<1>2. CASE flush_start(a)
  <2>1. spool' = spool /\ fate' = fate /\ sends' = sends
    BY <1>2 DEF flush_start
  <2> QED BY <2>1, NoStep
<1>3. CASE flush_peek(a)
  <2>1. sends' = sends
    BY <1>3 DEF flush_peek
  <2>2. CASE spool.length = 0
    <3>1. spool' = spool /\ fate' = fate
      BY <1>3, <2>2 DEF flush_peek
    <3> QED BY <2>1, <3>1, NoStep
  <2>3. CASE spool.length # 0
    <3>1. PICK o \in peek(spool) : Did(o) /\ fate' = Wiped(o)
      BY <1>3, <2>3 DEF flush_peek
    <3>2. Untouched(spool, o) \/ Emptied(spool, o)
      BY Parts, PeekCases
    <3> QED BY <2>1, <3>1, <3>2, SpoolSim
  <2> QED BY <2>2, <2>3
<1>4. CASE flush_send(a)
  <2>1. Holds(a) /\ pc[a] = "resend"
    BY <1>4 DEF flush_send, At
  <2> DEFINE m == Head(spool.rows)
  <2>2. m \in Msg /\ spool.rows # <<>>
    BY <2>1, HeadMessage
  <2>3. CASE /\ sends' = Append(sends, m) /\ fate' = [fate EXCEPT ![m] = "sent"]
             /\ UNCHANGED <<msg, lockQ, spool, faults>>
    <3>1. spool' = spool /\ fate'[m] = "sent" /\ \A n \in Msg : n # m => fate'[n] = fate[n]
      BY <1>1, <2>2, <2>3
    <3> QED BY <2>2, <2>3, <3>1, SendStep
  <2>4. CASE UNCHANGED <<msg, lockQ, spool, fate, sends>>
    BY <2>4, NoStep
  <2>5. CASE Raise(a)
    BY <2>1, <2>5, RaiseSim
  <2> QED BY <1>4, <2>3, <2>4, <2>5 DEF flush_send
<1>5. CASE flush_pop(a)
  <2>1. sends' = sends /\ pc[a] \in {"pop", "corrupt"}
    BY <1>5 DEF flush_pop, At
  <2>2. PICK o \in popleft(spool) : Did(o) /\ fate' = Wiped(o)
    BY <1>5 DEF flush_pop
  <2>3. Shortened(spool, o) \/ Untouched(spool, o) \/ Emptied(spool, o)
    BY Parts, PopCases
  <2>4. CASE Shortened(spool, o)
    <3>1. fate' = fate /\ spool.rows # <<>> /\ (spool').rows = Tail(spool.rows)
      BY <2>2, <2>4, Parts, WipedFates DEF Shortened, Did
    <3>2. Head(spool.rows) \in Msg => fate[Head(spool.rows)] # "kept"
      BY <2>1, Parts, SpoolConstants DEF Ready, Knows, Msg
    <3>3. \A m \in Msg : fate'[m] = IF m = Head(spool.rows) /\ fate[m] = "kept" THEN "trimmed"
                                    ELSE fate[m]
      BY <3>1, <3>2
    <3> QED BY <2>1, <3>1, <3>3, HeadGoes
  <2>5. CASE Untouched(spool, o) \/ Emptied(spool, o)
    BY <2>1, <2>2, <2>5, SpoolSim
  <2> QED BY <2>3, <2>4, <2>5
<1>6. CASE flush_end(a)
  <2>1. sends' = sends
    BY <1>6 DEF flush_end
  <2>2. CASE spool.length = 0
    <3>1. PICK o \in vacuum(spool) : Did(o) /\ fate' = Wiped(o)
      BY <1>6, <2>2 DEF flush_end
    <3>2. Untouched(spool, o) \/ Emptied(spool, o)
      BY Parts, VacuumCases
    <3> QED BY <2>1, <3>1, <3>2, SpoolSim
  <2>3. CASE spool.length # 0
    <3>1. spool' = spool /\ fate' = fate
      BY <1>6, <2>3 DEF flush_end
    <3> QED BY <2>1, <3>1, NoStep
  <2> QED BY <2>2, <2>3
<1> QED BY <1>2, <1>3, <1>4, <1>5, <1>6

\* The session, and a restart of the daemon.
LEMMA SessionSim ==
    ASSUME IInv, connect \/ send_cloud_event \/ session_ends \/ crash
    PROVE  outbox!Next
<1>1. CASE connect \/ send_cloud_event
  <2>1. spool' = spool /\ fate' = fate /\ sends' = sends
    BY <1>1 DEF connect, send_cloud_event
  <2> QED BY <2>1, NoStep
<1>2. CASE session_ends
  <2>1. /\ fate' = [m \in Msg |-> IF msg[Worker] = m THEN "cancelled" ELSE fate[m]]
        /\ spool' = spool /\ sends' = sends
    BY <1>2 DEF session_ends
  <2> DEFINE D == {m \in Msg : msg[Worker] = m}
  <2>2. Worker \in Publisher /\ NoItem \notin Msg
    BY SpoolConstants DEF Publisher, Msg
  <2>3. D \in SUBSET Fresh(fate)
    BY <2>2, Parts DEF Hands, Fresh
  <2>4. \A m \in Msg : IF m \in D THEN fate'[m] \in Given ELSE fate'[m] = fate[m]
    BY <2>1 DEF Given
  <2> HIDE DEF D
  <2> QED BY <2>1, <2>3, <2>4, GiveUpStep
<1>3. CASE crash
  <2>1. /\ fate' = [m \in Msg |-> IF fate[m] = "hand" THEN "crashed" ELSE fate[m]]
        /\ (spool').rows = spool.rows /\ sends' = sends
    BY <1>3 DEF crash, Opened
  <2> DEFINE D == Fresh(fate)
  <2>2. D \in SUBSET Fresh(fate)
    OBVIOUS
  <2>3. \A m \in Msg : IF m \in D THEN fate'[m] \in Given ELSE fate'[m] = fate[m]
    BY <2>1 DEF Given, Fresh
  <2> HIDE DEF D
  <2> QED BY <2>1, <2>2, <2>3, GiveUpStep
<1> QED BY <1>1, <1>2, <1>3

\* The publisher implements the outbox: what it does with the spool, the stream and the
\* messages in hand, under every interleaving and failure of the model, is a step that
\* Outbox allows.
THEOREM ImplementsOutbox == Spec => RefinesOutbox
<1>1. Init => outbox!Init
  <2>1. SUFFICES ASSUME Init PROVE outbox!Init
    OBVIOUS
  <2>2. IInv
    BY <2>1, InitIInv
  <2>3. sends = <<>> /\ ToSet(sends) = {}
    BY <2>1, ToSetEmpty DEF Init
  <2>4. \A m \in Msg : fate[m] \in {"kept", "new"}
    BY <2>1 DEF Init
  <2>5. Fresh(fate) = {} /\ Lost(fate) = {} /\ spool.rows \in Seq(Msg \cup {Bad})
    BY <2>2, <2>4, Parts DEF Fresh, Lost, Given, Row
  <2> QED BY <2>3, <2>5 DEF outbox!Init, outbox!ToSet, ToSet, Fresh, Lost
<1>2. IInv /\ [Next]_vars => [outbox!Next]_(outbox!vars)
  <2>1. SUFFICES ASSUME IInv, [Next]_vars PROVE [outbox!Next]_(outbox!vars)
    OBVIOUS
  <2>2. CASE UNCHANGED vars
    <3>1. spool' = spool /\ fate' = fate /\ sends' = sends
      BY <2>2 DEF vars
    <3> QED BY <2>1, <3>1, NoStep
  <2>3. ASSUME NEW p \in Publisher, enqueue_cloud(p) PROVE outbox!Next
    BY <2>1, <2>3, PublisherSim
  <2>4. ASSUME NEW a \in Actor, Step(a) PROVE outbox!Next
    BY <2>1, <2>4, PublisherSim, FlushSim DEF Step
  <2>5. CASE connect \/ send_cloud_event \/ session_ends \/ crash
    BY <2>1, <2>5, SessionSim
  <2> QED BY <2>1, <2>2, <2>3, <2>4, <2>5 DEF Next
<1> QED BY <1>1, <1>2, SpoolInvariant, PTL DEF Spec, RefinesOutbox, outbox!Spec
----------------------------------------------------------------------------
(* Repetitions *)

\* Of the rows only the first may have been sent.
Tagged(r, f) == \A i \in 2 .. Len(r) : r[i] # Bad => f[r[i]] # "sent"

HeadSent(r, f) == r # <<>> /\ Head(r) # Bad /\ f[Head(r)] = "sent"

\* A row that was sent, and that nobody is about to delete, will be sent again.
Debt(p, r, f) == IF HeadSent(r, f) /\ \A a \in Actor : p[a] # "pop" THEN 1 ELSE 0

Repetitions(s) == Len(s) - Cardinality(ToSet(s))

\* The repetitions made and the one to come were each paid with a failure.
Paid ==
    Tagged(spool.rows, fate) /\ Repetitions(sends) + Debt(pc, spool.rows, fate) <= faults

\* Finitely many messages are sent.
LEMMA SendsFinite ==
    ASSUME NEW s \in Seq(Msg)
    PROVE  IsFiniteSet(ToSet(s)) /\ Repetitions(s) \in Int
<1>1. ToSet(s) \subseteq Msg /\ Len(s) \in Nat
  BY ToSetIndex
<1>2. IsFiniteSet(Msg)
  BY FS_Interval, SpoolConstants DEF Msg
<1>3. IsFiniteSet(ToSet(s))
  BY <1>1, <1>2, FS_Subset
<1>4. Cardinality(ToSet(s)) \in Nat
  BY <1>3, FS_CardinalityType
<1> QED BY <1>1, <1>3, <1>4 DEF Repetitions

\* A message is a repetition when it was sent before.
LEMMA Repeated ==
    ASSUME NEW s \in Seq(Msg), NEW m \in Msg
    PROVE  Repetitions(Append(s, m)) = Repetitions(s) + (IF m \in ToSet(s) THEN 1 ELSE 0)
<1> DEFINE S == ToSet(s)
           t == Append(s, m)
<1>1. ToSet(t) = S \cup {m} /\ Len(t) = Len(s) + 1 /\ Len(s) \in Nat
  BY ToSetAppend, AppendIndex
<1>2. IsFiniteSet(S)
  BY SendsFinite
<1>3. Repetitions(s) = Len(s) - Cardinality(S)
  BY DEF Repetitions
<1> HIDE DEF S, t
<1>4. Cardinality(S) \in Nat
  BY <1>2, FS_CardinalityType
<1>5. Cardinality(S \cup {m}) = IF m \in S THEN Cardinality(S) ELSE Cardinality(S) + 1
  BY <1>2, FS_AddElement
<1> DEFINE k == Cardinality(S \cup {m})
           c == Cardinality(ToSet(t))
<1>6. c = k
  BY <1>1, Zenon
<1>7. Repetitions(t) = Len(t) - c
  BY DEF Repetitions
<1>8. k = IF m \in S THEN Cardinality(S) ELSE Cardinality(S) + 1
  BY <1>5
<1> HIDE DEF k, c
<1>9. k \in Nat /\ c \in Nat
  BY <1>4, <1>6, <1>8
<1>10. Repetitions(t) = Repetitions(s) + (IF m \in S THEN 1 ELSE 0)
  BY <1>1, <1>3, <1>4, <1>6, <1>7, <1>8, <1>9
<1> QED BY <1>10 DEF S, t

\* The rows stay, and no more of them are sent.
LEMMA RowsSame ==
    ASSUME NEW r \in Seq(Row), NEW f, NEW e, Tagged(r, f),
           \A m \in Msg : e[m] = "sent" => f[m] = "sent"
    PROVE  Tagged(r, e) /\ (HeadSent(r, e) => HeadSent(r, f))
<1>1. \A i \in 1 .. Len(r) : r[i] # Bad => r[i] \in Msg
  BY DEF Row
<1>2. r # <<>> => Head(r) = r[1] /\ 1 \in 1 .. Len(r)
  BY TailIndex
<1>3. \A i \in 2 .. Len(r) : i \in 1 .. Len(r)
  OBVIOUS
<1>4. Tagged(r, e)
  BY <1>1, <1>3 DEF Tagged
<1> QED BY <1>1, <1>2, <1>4 DEF HeadSent

\* Without the first row none is left that was sent.
LEMMA RowsTail ==
    ASSUME NEW r \in Seq(Row), r # <<>>, NEW f, NEW e, Tagged(r, f),
           \A m \in Msg : e[m] = "sent" => f[m] = "sent"
    PROVE  Tagged(Tail(r), e) /\ ~HeadSent(Tail(r), e)
<1> DEFINE t == Tail(r)
<1>1. /\ t \in Seq(Row) /\ Len(r) \in Nat /\ Len(t) \in Nat
      /\ \A i \in 1 .. Len(t) : i + 1 \in 1 .. Len(r) /\ t[i] = r[i + 1]
  BY TailIndex
<1>2. \A i \in 1 .. Len(r) : r[i] # Bad => r[i] \in Msg
  BY DEF Row
<1>3. t # <<>> => Head(t) = t[1] /\ 1 \in 1 .. Len(t)
  BY <1>1, TailIndex
<1> HIDE DEF t
<1>4. ASSUME NEW i \in 1 .. Len(t), t[i] # Bad
      PROVE  e[t[i]] # "sent"
  <2>1. i + 1 \in 2 .. Len(r) /\ i + 1 \in 1 .. Len(r) /\ t[i] = r[i + 1]
    BY <1>1
  <2> QED BY <1>2, <1>4, <2>1 DEF Tagged
<1>5. \A i \in 2 .. Len(t) : i \in 1 .. Len(t)
  BY <1>1
<1>6. Tagged(t, e) /\ ~HeadSent(t, e)
  BY <1>3, <1>4, <1>5 DEF Tagged, HeadSent
<1> QED BY <1>6 DEF t

\* A row is added that was not sent.
LEMMA RowsAppend ==
    ASSUME NEW r \in Seq(Row), NEW f, NEW e, Tagged(r, f), NEW m \in Msg, e[m] # "sent",
           \A n \in Msg : e[n] = "sent" => f[n] = "sent"
    PROVE  Tagged(Append(r, m), e) /\ (HeadSent(Append(r, m), e) => HeadSent(r, f))
<1> DEFINE t == Append(r, m)
<1>1. /\ t \in Seq(Row) /\ Len(r) \in Nat /\ Len(t) = Len(r) + 1 /\ t[Len(r) + 1] = m
      /\ \A i \in 1 .. Len(t) : (i \in 1 .. Len(r) /\ t[i] = r[i]) \/ i = Len(r) + 1
  BY AppendIndex DEF Row
<1>2. \A i \in 1 .. Len(r) : r[i] # Bad => r[i] \in Msg
  BY DEF Row
<1>3. t # <<>> /\ Head(t) = t[1] /\ 1 \in 1 .. Len(t)
  BY <1>1, TailIndex
<1>4. r # <<>> => Head(r) = r[1] /\ 1 \in 1 .. Len(r)
  BY TailIndex
<1> HIDE DEF t
<1>5. ASSUME NEW i \in 2 .. Len(t), t[i] # Bad
      PROVE  e[t[i]] # "sent"
  <2>1. CASE i \in 1 .. Len(r) /\ t[i] = r[i]
    <3>1. i \in 2 .. Len(r)
      BY <2>1
    <3> QED BY <1>2, <1>5, <2>1, <3>1 DEF Tagged
  <2>2. CASE i = Len(r) + 1
    BY <1>1, <2>2
  <2>3. i \in 1 .. Len(t)
    BY <1>1
  <2> QED BY <1>1, <2>1, <2>2, <2>3
<1>6. HeadSent(t, e) => HeadSent(r, f)
  <2>1. SUFFICES ASSUME HeadSent(t, e) PROVE HeadSent(r, f)
    OBVIOUS
  <2>2. t[1] # Bad /\ e[t[1]] = "sent"
    BY <1>3, <2>1 DEF HeadSent
  <2>3. 1 # Len(r) + 1 \/ t[1] = m
    BY <1>1
  <2>4. 1 \in 1 .. Len(r) /\ t[1] = r[1]
    BY <1>1, <1>3, <2>2, <2>3
  <2>5. r # <<>>
    BY <2>4
  <2> QED BY <1>2, <1>4, <2>2, <2>4, <2>5 DEF HeadSent
<1>7. Tagged(t, e)
  BY <1>5 DEF Tagged
<1> QED BY <1>6, <1>7 DEF t

\* Without the k oldest rows: only their head may have been sent, and only if none is missing.
LEMMA RowsCut ==
    ASSUME NEW s \in Seq(Row), NEW k \in Nat, NEW e, Tagged(s, e)
    PROVE  Tagged(Beyond(s, k), e) /\ (HeadSent(Beyond(s, k), e) => HeadSent(s, e))
<1>1. CASE k = 0
  <2>1. Beyond(s, k) = s
    BY <1>1, BeyondIndex
  <2> QED BY <2>1
<1>2. CASE k # 0
  <2> DEFINE b == Beyond(s, k)
  <2>1. /\ b \in Seq(Row) /\ Len(s) \in Nat /\ Len(b) \in Nat
        /\ \A i \in 1 .. Len(b) : i + k \in 1 .. Len(s) /\ b[i] = s[i + k]
    BY BeyondIndex
  <2>2. b # <<>> => Head(b) = b[1] /\ 1 \in 1 .. Len(b)
    BY <2>1, TailIndex
  <2> HIDE DEF b
  <2>3. ASSUME NEW i \in 1 .. Len(b), b[i] # Bad
        PROVE  e[b[i]] # "sent"
    <3>1. i + k \in 2 .. Len(s) /\ b[i] = s[i + k]
      BY <1>2, <2>1
    <3> QED BY <2>3, <3>1 DEF Tagged
  <2>4. \A i \in 2 .. Len(b) : i \in 1 .. Len(b)
    BY <2>1
  <2>5. Tagged(b, e) /\ ~HeadSent(b, e)
    BY <2>2, <2>3, <2>4 DEF Tagged, HeadSent
  <2> QED BY <2>5 DEF b
<1> QED BY <1>1, <1>2

\* No row is left.
LEMMA RowsNone ==
    ASSUME NEW e
    PROVE  Tagged(<<>>, e) /\ ~HeadSent(<<>>, e)
<1>1. Len(<<>>) = 0
  OBVIOUS
<1> QED BY <1>1 DEF Tagged, HeadSent

\* Nothing is sent: it suffices that a failure is counted, or that no row becomes a debt.
LEMMA QuietPaid ==
    ASSUME IInv, Paid, Tagged((spool').rows, fate'), sends' = sends,
           \/ faults' = faults + 1
           \/ /\ faults' = faults
              /\ HeadSent((spool').rows, fate') =>
                    /\ HeadSent(spool.rows, fate)
                    /\ \A a \in Actor : pc[a] = "pop" => pc'[a] = "pop"
    PROVE  Paid'
<1>1. faults \in Int
  BY Parts
<1>2. Debt(pc, spool.rows, fate) \in {0, 1} /\ Debt(pc', (spool').rows, fate') \in {0, 1}
  BY DEF Debt
<1>3. Repetitions(sends) \in Int /\ Repetitions(sends') = Repetitions(sends)
  BY Parts, SendsFinite
<1>4. Repetitions(sends) + Debt(pc, spool.rows, fate) <= faults
  BY DEF Paid
<1>5. Repetitions(sends') + Debt(pc', (spool').rows, fate') <= faults'
  <2>1. CASE faults' = faults + 1
    BY <1>1, <1>2, <1>3, <1>4, <2>1
  <2>2. CASE faults' = faults /\ Debt(pc', (spool').rows, fate') = 0
    BY <1>1, <1>2, <1>3, <1>4, <2>2
  <2>3. CASE faults' = faults /\ Debt(pc', (spool').rows, fate') = 1
    <3>1. Debt(pc, spool.rows, fate) = 1
      BY <1>1, <2>3 DEF Debt
    <3> QED BY <1>1, <1>2, <1>3, <1>4, <2>3, <3>1
  <2> QED BY <1>2, <2>1, <2>2, <2>3
<1> QED BY <1>5 DEF Paid, Tagged, Repetitions, Debt, HeadSent

\* A row that no step sends does not become a debt.
LEMMA SpoolRows ==
    ASSUME IInv, Paid, NEW o, Did(o), Untouched(spool, o) \/ Emptied(spool, o), fate' = Wiped(o)
    PROVE  /\ Tagged((spool').rows, fate')
           /\ HeadSent((spool').rows, fate') => HeadSent(spool.rows, fate)
<1>1. spool' = o.d
  BY DEF Did
<1>2. \A m \in Msg : fate'[m] = "sent" => fate[m] = "sent"
  BY DEF Wiped
<1>3. CASE Untouched(spool, o)
  <2>1. (spool').rows = spool.rows
    BY <1>1, <1>3 DEF Untouched
  <2> QED BY <1>2, <2>1, Parts, RowsSame DEF Paid
<1>4. CASE Emptied(spool, o)
  <2>1. (spool').rows = <<>>
    BY <1>1, <1>4 DEF Emptied
  <2> QED BY <2>1, RowsNone
<1> QED BY <1>3, <1>4

\* The holder moves from another place than "pop".
LEMMA PopStays ==
    ASSUME IInv, NEW a \in Actor, pc[a] # "pop", NEW l, pc' = [pc EXCEPT ![a] = l]
    PROVE  \A b \in Actor : pc[b] = "pop" => pc'[b] = "pop"
  BY Parts

\* An exception costs a failure.
LEMMA RaisePaid ==
    ASSUME IInv, Paid, NEW a \in Actor, Holds(a), Raise(a)
    PROVE  Paid'
<1>1. spool' = spool /\ sends' = sends /\ faults' = faults + 1
  BY DEF Raise, Fault
<1>2. \A m \in Msg : fate'[m] = "sent" => fate[m] = "sent"
  <2>1. CASE a = Conn
    BY <2>1 DEF Raise
  <2>2. CASE a # Conn
    <3>1. fate' = [fate EXCEPT ![msg[a]] = "escaped"] /\ fate \in [Msg -> Fate]
      BY <2>2, Parts DEF Raise
    <3> QED BY <3>1
  <2> QED BY <2>1, <2>2
<1>3. Tagged((spool').rows, fate')
  BY <1>1, <1>2, Parts, RowsSame DEF Paid
<1> QED BY <1>1, <1>3, QuietPaid

\* The steps of the publishers.
LEMMA PublisherPaid ==
    ASSUME IInv, Paid, NEW p \in Publisher, enqueue_cloud(p) \/ publish(p) \/ trim(p) \/ keep(p)
    PROVE  Paid'
<1>1. /\ fate \in [Msg -> Fate] /\ p \in Actor /\ spool.rows \in Seq(Row) /\ sends \in Seq(Msg)
      /\ pc \in [Actor -> Place] /\ Tagged(spool.rows, fate)
  BY Parts DEF Actor, Paid
<1>2. CASE enqueue_cloud(p)
  <2>1. PICK m \in Msg :
           /\ fate[m] = "new"
           /\ fate' = [fate EXCEPT ![m] = "refused"] \/ fate' = [fate EXCEPT ![m] = "hand"]
    BY <1>2 DEF enqueue_cloud
  <2>2. /\ spool' = spool /\ sends' = sends /\ faults' = faults /\ pc[p] = "idle"
        /\ pc' = pc \/ pc' = [pc EXCEPT ![p] = "lock"]
    BY <1>2 DEF enqueue_cloud, GoTo
  <2>3. \A n \in Msg : fate'[n] = "sent" => fate[n] = "sent"
    BY <1>1, <2>1
  <2>4. Tagged(spool.rows, fate') /\ (HeadSent(spool.rows, fate') => HeadSent(spool.rows, fate))
    BY <1>1, <2>3, RowsSame
  <2>5. \A b \in Actor : pc[b] = "pop" => pc'[b] = "pop"
    BY <1>1, <2>2
  <2> QED BY <2>2, <2>4, <2>5, QuietPaid
<1>3. CASE publish(p)
  <2> DEFINE m == msg[p]
  <2>1. Holds(p) /\ m \in Msg /\ fate[m] = "hand" /\ pc[p] = "publish"
    BY <1>3, InHand DEF publish, At
  <2>2. CASE /\ sends' = Append(sends, m) /\ fate' = [fate EXCEPT ![m] = "sent"]
             /\ Return(p) /\ UNCHANGED <<spool, faults>>
    <3>1. /\ spool' = spool /\ faults' = faults /\ pc' = [pc EXCEPT ![p] = "idle"]
          /\ sends' = Append(sends, m) /\ fate'[m] = "sent"
          /\ \A n \in Msg : n # m => fate'[n] = fate[n]
      BY <1>1, <2>1, <2>2 DEF Return, GoTo
    <3> HIDE DEF m
    <3>2. m \notin ToSet(sends)
      BY <2>1, Whereabouts
    <3>3. Repetitions(sends') = Repetitions(sends) /\ Repetitions(sends) \in Int
      BY <1>1, <2>1, <3>1, <3>2, Repeated, SendsFinite
    <3>4. \A i \in 1 .. Len(spool.rows) : spool.rows[i] # m /\ (spool.rows[i] # Bad => spool.rows[i] \in Msg)
      <4>1. m # Bad
        BY <2>1, SpoolConstants DEF Msg
      <4>2. \A i \in 1 .. Len(spool.rows) : spool.rows[i] # Bad => spool.rows[i] \in Msg
        BY <1>1 DEF Row
      <4>3. \A i \in 1 .. Len(spool.rows) : spool.rows[i] # Bad => fate[spool.rows[i]] \in {"kept", "sent"}
        BY Parts DEF Stored
      <4> QED BY <2>1, <4>1, <4>2, <4>3
    <3>5. Tagged(spool.rows, fate')
      <4>1. SUFFICES ASSUME NEW i \in 2 .. Len(spool.rows), spool.rows[i] # Bad
                     PROVE  fate'[spool.rows[i]] # "sent"
        BY DEF Tagged
      <4>2. i \in 1 .. Len(spool.rows)
        OBVIOUS
      <4> QED BY <1>1, <3>1, <3>4, <4>1, <4>2 DEF Tagged
    <3>6. HeadSent(spool.rows, fate') => HeadSent(spool.rows, fate)
      <4>1. spool.rows # <<>> => Head(spool.rows) = spool.rows[1] /\ 1 \in 1 .. Len(spool.rows)
        BY <1>1, TailIndex
      <4> QED BY <3>1, <3>4, <4>1 DEF HeadSent
    <3>7. \A b \in Actor : pc[b] = "pop" => pc'[b] = "pop"
      BY <1>1, <2>1, <3>1, PopStays
    <3>8. Debt(pc', spool.rows, fate') <= Debt(pc, spool.rows, fate)
      BY <3>6, <3>7 DEF Debt
    <3>9. Debt(pc', spool.rows, fate') \in {0, 1} /\ Debt(pc, spool.rows, fate) \in {0, 1}
      BY DEF Debt
    <3>10. faults \in Int /\ Repetitions(sends) + Debt(pc, spool.rows, fate) <= faults
      BY Parts DEF Paid
    <3>11. Repetitions(sends') + Debt(pc', spool.rows, fate') <= faults
      BY <3>3, <3>8, <3>9, <3>10
    <3> QED BY <3>1, <3>5, <3>11 DEF Paid, Tagged, Repetitions, Debt, HeadSent
  <2>3. CASE Refused /\ GoTo(p, "spool") /\ UNCHANGED <<msg, lockQ, spool, fate, sends>>
    <3>1. /\ spool' = spool /\ fate' = fate /\ sends' = sends /\ pc' = [pc EXCEPT ![p] = "spool"]
          /\ faults' = faults \/ faults' = faults + 1
      BY <2>3 DEF Refused, Fault, GoTo
    <3>2. \A b \in Actor : pc[b] = "pop" => pc'[b] = "pop"
      BY <1>1, <2>1, <3>1, PopStays
    <3> QED BY <1>1, <3>1, <3>2, QuietPaid
  <2>4. CASE Raise(p)
    BY <1>1, <2>1, <2>4, RaisePaid
  <2> QED BY <1>3, <2>2, <2>3, <2>4 DEF publish
<1>4. CASE trim(p)
  <2>1. sends' = sends /\ pc[p] = "spool" /\ \E l \in {"spool", "append"} : pc' = [pc EXCEPT ![p] = l]
    BY <1>4 DEF trim, At, GoTo
  <2>2. \A b \in Actor : pc[b] = "pop" => pc'[b] = "pop"
    BY <1>1, <2>1, PopStays
  <2>3. CASE MaxLen > 0 /\ spool.length >= MaxLen
    <3>1. PICK o \in popleft(spool) :
             /\ Did(o)
             /\ fate' = [m \in Msg |-> IF o.res = "ok" /\ m = o.item /\ fate[m] = "kept"
                                       THEN "trimmed" ELSE Wiped(o)[m]]
      BY <1>4, <2>3 DEF trim
    <3>2. /\ o.fault \in BOOLEAN
          /\ Shortened(spool, o) \/ ((Untouched(spool, o) \/ Emptied(spool, o)) /\ o.res # "ok")
      BY Parts, PopCases
    <3>3. faults' = faults \/ faults' = faults + 1
      BY <3>1, <3>2, DidCost
    <3>4. CASE Shortened(spool, o)
      <4>1. /\ spool.rows # <<>> /\ (spool').rows = Tail(spool.rows)
        BY <3>1, <3>4 DEF Shortened, Did
      <4>2. \A m \in Msg : fate'[m] = "sent" => fate[m] = "sent"
        BY <3>1 DEF Wiped
      <4> QED BY <1>1, <2>1, <3>3, <4>1, <4>2, RowsTail, QuietPaid
    <3>5. CASE (Untouched(spool, o) \/ Emptied(spool, o)) /\ o.res # "ok"
      <4>1. fate' = Wiped(o)
        BY <3>1, <3>5 DEF Wiped
      <4> QED BY <2>1, <2>2, <3>1, <3>3, <3>5, <4>1, SpoolRows, QuietPaid
    <3> QED BY <3>2, <3>4, <3>5
  <2>4. CASE ~(MaxLen > 0 /\ spool.length >= MaxLen)
    <3>1. spool' = spool /\ fate' = fate /\ faults' = faults
      BY <1>4, <2>4 DEF trim
    <3> QED BY <1>1, <2>1, <2>2, <3>1, QuietPaid
  <2> QED BY <2>3, <2>4
<1>5. CASE keep(p)
  <2> DEFINE m == msg[p]
             r == spool.rows
  <2>1. /\ m \in Msg /\ fate[m] = "hand" /\ pc[p] = "append" /\ sends' = sends
        /\ pc' = [pc EXCEPT ![p] = "idle"]
    BY <1>5, InHand DEF keep, At, Return, GoTo
  <2>2. PICK o, s, k : Kept(m, o, s, k)
    BY <1>5, KeepEnds
  <2>3. /\ o.fault \in BOOLEAN /\ Did(o) /\ k \in Nat /\ s \in Seq(Row) /\ o.d.rows = Beyond(s, k)
    BY <2>2 DEF Kept
  <2>4. s = Append(r, m) \/ s = <<m>> \/ s = r \/ s = <<>>
    BY <2>2 DEF Kept
  <2>5. /\ fate'[m] # "sent" /\ spool' = o.d
        /\ \A n \in Msg : fate'[n] = "sent" => fate[n] = "sent"
    <3>1. /\ spool' = o.d /\ fate'[m] \in {"kept", "dropped", "evicted"}
          /\ \A n \in Msg : n # m => fate'[n] = fate[n] \/ (fate[n] = "kept" /\ fate'[n] \in {"wiped", "evicted"})
      BY <2>1, <2>2, KeptFates
    <3> QED BY <3>1
  <2>6. \A b \in Actor : pc[b] = "pop" => pc'[b] = "pop"
    BY <1>1, <2>1, PopStays
  <2>7. faults' = faults \/ faults' = faults + 1
    BY <2>3, DidCost
  <2> HIDE DEF m, r
  <2>8. Tagged(s, fate') /\ (HeadSent(s, fate') => HeadSent(r, fate))
    <3>1. CASE s = Append(r, m)
      BY <1>1, <2>1, <2>5, <3>1, RowsAppend DEF r
    <3>2. CASE s = <<m>>
      <4> DEFINE z == <<>>
      <4>1. z \in Seq(Row) /\ Tagged(z, fate) /\ ~HeadSent(z, fate) /\ Append(z, m) = <<m>>
        BY RowsNone
      <4> HIDE DEF z
      <4>2. Tagged(Append(z, m), fate') /\ ~HeadSent(Append(z, m), fate')
        BY <2>1, <2>5, <4>1, RowsAppend
      <4> QED BY <3>2, <4>1, <4>2
    <3>3. CASE s = r
      BY <1>1, <2>5, <3>3, RowsSame DEF r
    <3>4. CASE s = <<>>
      BY <3>4, RowsNone
    <3> QED BY <2>4, <3>1, <3>2, <3>3, <3>4
  <2>9. Tagged((spool').rows, fate') /\ (HeadSent((spool').rows, fate') => HeadSent(r, fate))
    <3>1. (spool').rows = Beyond(s, k)
      BY <2>3, <2>5
    <3>2. Tagged(Beyond(s, k), fate') /\ (HeadSent(Beyond(s, k), fate') => HeadSent(s, fate'))
      BY <2>3, <2>8, RowsCut
    <3> QED BY <2>8, <3>1, <3>2
  <2> QED BY <2>1, <2>6, <2>7, <2>9, QuietPaid DEF r
<1> QED BY <1>2, <1>3, <1>4, <1>5

\* The steps of a flush: a row sent again was a debt.
LEMMA FlushPaid ==
    ASSUME IInv, Paid, NEW a \in Actor,
           flush_start(a) \/ flush_peek(a) \/ flush_send(a) \/ flush_pop(a) \/ flush_end(a)
    PROVE  Paid'
<1>1. /\ fate \in [Msg -> Fate] /\ spool.rows \in Seq(Row) /\ sends \in Seq(Msg)
      /\ pc \in [Actor -> Place] /\ Tagged(spool.rows, fate)
  BY Parts DEF Paid
<1>2. CASE flush_start(a)
  <2>1. /\ spool' = spool /\ fate' = fate /\ sends' = sends /\ faults' = faults
        /\ pc[a] = "lock" /\ \E l \in Place : pc' = [pc EXCEPT ![a] = l]
    BY <1>2 DEF flush_start, At, GoTo, Place
  <2>2. \A b \in Actor : pc[b] = "pop" => pc'[b] = "pop"
    BY <2>1, PopStays
  <2> QED BY <1>1, <2>1, <2>2, QuietPaid
<1>3. CASE flush_peek(a)
  <2>1. sends' = sends /\ pc[a] = "flush" /\ \E l \in Place : pc' = [pc EXCEPT ![a] = l]
    BY <1>3 DEF flush_peek, At, GoTo, Place
  <2>2. \A b \in Actor : pc[b] = "pop" => pc'[b] = "pop"
    BY <2>1, PopStays
  <2>3. CASE spool.length = 0
    <3>1. spool' = spool /\ fate' = fate /\ faults' = faults
      BY <1>3, <2>3 DEF flush_peek
    <3> QED BY <1>1, <2>1, <2>2, <3>1, QuietPaid
  <2>4. CASE spool.length # 0
    <3>1. PICK o \in peek(spool) : Did(o) /\ fate' = Wiped(o)
      BY <1>3, <2>4 DEF flush_peek
    <3>2. o.fault \in BOOLEAN /\ (Untouched(spool, o) \/ Emptied(spool, o))
      BY Parts, PeekCases
    <3>3. faults' = faults \/ faults' = faults + 1
      BY <3>1, <3>2, DidCost
    <3> QED BY <2>1, <2>2, <3>1, <3>2, <3>3, SpoolRows, QuietPaid
  <2> QED BY <2>3, <2>4
<1>4. CASE flush_send(a)
  <2>1. Holds(a) /\ pc[a] = "resend"
    BY <1>4 DEF flush_send, At
  <2> DEFINE m == Head(spool.rows)
  <2>2. m \in Msg /\ spool.rows # <<>> /\ m # Bad
    BY <2>1, HeadMessage, SpoolConstants DEF Msg
  <2>3. CASE /\ GoTo(a, "pop") /\ sends' = Append(sends, m) /\ fate' = [fate EXCEPT ![m] = "sent"]
             /\ UNCHANGED <<msg, lockQ, spool, faults>>
    <3>1. /\ spool' = spool /\ faults' = faults /\ pc'[a] = "pop" /\ sends' = Append(sends, m)
          /\ \A n \in Msg : n # m => fate'[n] = fate[n]
      BY <1>1, <2>2, <2>3 DEF GoTo
    <3>2. Debt(pc', spool.rows, fate') = 0
      BY <3>1 DEF Debt
    <3>3. \A b \in Actor : pc[b] # "pop"
      BY <2>1, Parts, OthersOut DEF Holds, Away
    <3>4. m \in ToSet(sends) => Debt(pc, spool.rows, fate) = 1
      BY <2>2, <3>3, Whereabouts DEF Debt, HeadSent
    <3>5. Debt(pc, spool.rows, fate) \in {0, 1} /\ faults \in Int /\ Repetitions(sends) \in Int
      BY <1>1, Parts, SendsFinite DEF Debt
    <3>6. Repetitions(sends) + Debt(pc, spool.rows, fate) <= faults
      BY DEF Paid
    <3>7. Repetitions(sends') = Repetitions(sends) + (IF m \in ToSet(sends) THEN 1 ELSE 0)
      BY <1>1, <2>2, <3>1, Repeated
    <3>8. Repetitions(sends') + Debt(pc', spool.rows, fate') <= faults
      <4>1. CASE m \in ToSet(sends)
        BY <3>2, <3>4, <3>5, <3>6, <3>7, <4>1
      <4>2. CASE m \notin ToSet(sends)
        BY <3>2, <3>5, <3>6, <3>7, <4>2
      <4> QED BY <4>1, <4>2
    <3>9. Tagged(spool.rows, fate')
      <4>1. SUFFICES ASSUME NEW i \in 2 .. Len(spool.rows), spool.rows[i] # Bad
                     PROVE  fate'[spool.rows[i]] # "sent"
        BY DEF Tagged
      <4>2. m = spool.rows[1] /\ 1 \in 1 .. Len(spool.rows) /\ i \in 1 .. Len(spool.rows) /\ i # 1
        BY <1>1, <2>2, TailIndex
      <4>3. spool.rows[i] # m /\ spool.rows[i] \in Msg
        BY <1>1, <4>1, <4>2, Parts DEF Stored, Row
      <4> QED BY <1>1, <3>1, <4>1, <4>3 DEF Tagged
    <3> HIDE DEF m
    <3> QED BY <3>1, <3>8, <3>9 DEF Paid, Tagged, Repetitions, Debt, HeadSent
  <2>4. CASE Refused /\ GoTo(a, "flushed") /\ UNCHANGED <<msg, lockQ, spool, fate, sends>>
    <3>1. /\ spool' = spool /\ fate' = fate /\ sends' = sends /\ pc' = [pc EXCEPT ![a] = "flushed"]
          /\ faults' = faults \/ faults' = faults + 1
      BY <2>4 DEF Refused, Fault, GoTo
    <3>2. \A b \in Actor : pc[b] = "pop" => pc'[b] = "pop"
      BY <2>1, <3>1, PopStays
    <3> QED BY <1>1, <3>1, <3>2, QuietPaid
  <2>5. CASE Raise(a)
    BY <2>1, <2>5, RaisePaid
  <2> QED BY <1>4, <2>3, <2>4, <2>5 DEF flush_send
<1>5. CASE flush_pop(a)
  <2>1. sends' = sends /\ pc[a] \in {"pop", "corrupt"}
    BY <1>5 DEF flush_pop, At
  <2>2. PICK o \in popleft(spool) : Did(o) /\ fate' = Wiped(o)
    BY <1>5 DEF flush_pop
  <2>3. /\ o.fault \in BOOLEAN
        /\ Shortened(spool, o) \/ Untouched(spool, o) \/ Emptied(spool, o)
        /\ ~o.fault => Shortened(spool, o) \/ spool.rows = <<>>
    BY Parts, PopCases
  <2>4. spool.rows # <<>>
    BY <2>1, Parts DEF Ready, Knows
  <2>5. (o.fault => faults' = faults + 1) /\ (~o.fault => faults' = faults)
    BY <2>2, <2>3, DidCost
  <2>6. CASE Shortened(spool, o)
    <3>1. (spool').rows = Tail(spool.rows) /\ \A n \in Msg : fate'[n] = "sent" => fate[n] = "sent"
      BY <2>2, <2>6 DEF Shortened, Did, Wiped
    <3> QED BY <1>1, <2>1, <2>3, <2>4, <2>5, <3>1, RowsTail, QuietPaid
  <2>7. CASE (Untouched(spool, o) \/ Emptied(spool, o)) /\ ~Shortened(spool, o)
    <3>1. faults' = faults + 1
      BY <2>3, <2>4, <2>5, <2>7
    <3> QED BY <2>1, <2>2, <2>7, <3>1, SpoolRows, QuietPaid
  <2> QED BY <2>3, <2>6, <2>7
<1>6. CASE flush_end(a)
  <2>1. sends' = sends /\ pc[a] = "flushed" /\ \E l \in Place : pc' = [pc EXCEPT ![a] = l]
    BY <1>6 DEF flush_end, At, GoTo, Place
  <2>2. \A b \in Actor : pc[b] = "pop" => pc'[b] = "pop"
    BY <2>1, PopStays
  <2>3. CASE spool.length = 0
    <3>1. PICK o \in vacuum(spool) : Did(o) /\ fate' = Wiped(o)
      BY <1>6, <2>3 DEF flush_end
    <3>2. o.fault \in BOOLEAN /\ (Untouched(spool, o) \/ Emptied(spool, o))
      BY Parts, VacuumCases
    <3>3. faults' = faults \/ faults' = faults + 1
      BY <3>1, <3>2, DidCost
    <3> QED BY <2>1, <2>2, <3>1, <3>2, <3>3, SpoolRows, QuietPaid
  <2>4. CASE spool.length # 0
    <3>1. spool' = spool /\ fate' = fate /\ faults' = faults
      BY <1>6, <2>4 DEF flush_end
    <3> QED BY <1>1, <2>1, <2>2, <3>1, QuietPaid
  <2> QED BY <2>3, <2>4
<1> QED BY <1>2, <1>3, <1>4, <1>5, <1>6

\* The session, and a restart of the daemon.
LEMMA SessionPaid ==
    ASSUME IInv, Paid, connect \/ send_cloud_event \/ session_ends \/ crash
    PROVE  Paid'
<1>1. /\ spool.rows \in Seq(Row) /\ Tagged(spool.rows, fate) /\ Conn \in Actor
  BY Parts DEF Paid, Actor
<1>2. CASE connect \/ send_cloud_event
  <2>1. /\ spool' = spool /\ fate' = fate /\ sends' = sends /\ (faults' = faults \/ faults' = faults + 1)
        /\ pc[Conn] # "pop" /\ \E l \in Place : pc' = [pc EXCEPT ![Conn] = l]
    BY <1>2 DEF connect, send_cloud_event, GoTo, Fault, Place
  <2>2. \A b \in Actor : pc[b] = "pop" => pc'[b] = "pop"
    BY <1>1, <2>1, PopStays
  <2> QED BY <1>1, <2>1, <2>2, QuietPaid
<1>3. CASE session_ends \/ crash
  <2>1. /\ (spool').rows = spool.rows /\ sends' = sends /\ faults' = faults + 1
        /\ \A m \in Msg : fate'[m] = "sent" => fate[m] = "sent"
    BY <1>3 DEF session_ends, crash, Opened, Fault
  <2> QED BY <1>1, <2>1, RowsSame, QuietPaid
<1> QED BY <1>2, <1>3

\* The account of the repetitions is kept by every step.
THEOREM SpoolPaid == Spec => []Paid
<1>1. Init => Paid
  <2>1. SUFFICES ASSUME Init PROVE Paid
    OBVIOUS
  <2>2. IInv
    BY <2>1, InitIInv
  <2>3. sends = <<>> /\ ToSet(sends) = {} /\ faults = 0 /\ \A m \in Msg : fate[m] # "sent"
    BY <2>1, ToSetEmpty DEF Init
  <2>4. \A i \in 1 .. Len(spool.rows) : spool.rows[i] = Bad \/ spool.rows[i] \in Msg
    BY <2>2, Parts DEF Row
  <2>5. Tagged(spool.rows, fate)
    BY <2>3, <2>4 DEF Tagged
  <2>6. ~HeadSent(spool.rows, fate)
    <3>1. spool.rows # <<>> => Head(spool.rows) = spool.rows[1] /\ 1 \in 1 .. Len(spool.rows)
      BY <2>2, Parts, TailIndex
    <3> QED BY <2>3, <2>4, <3>1 DEF HeadSent
  <2>7. Debt(pc, spool.rows, fate) = 0
    BY <2>6 DEF Debt
  <2>8. Repetitions(sends) = 0
    BY <2>3, FS_EmptySet DEF Repetitions
  <2> QED BY <2>3, <2>5, <2>7, <2>8 DEF Paid
<1>2. IInv /\ Paid /\ [Next]_vars => Paid'
  <2>1. SUFFICES ASSUME IInv, Paid, [Next]_vars PROVE Paid'
    OBVIOUS
  <2>2. CASE UNCHANGED vars
    BY <2>1, <2>2 DEF vars, Paid, Tagged, Repetitions, Debt, HeadSent
  <2>3. ASSUME NEW p \in Publisher, enqueue_cloud(p) PROVE Paid'
    BY <2>1, <2>3, PublisherPaid
  <2>4. ASSUME NEW a \in Actor, Step(a) PROVE Paid'
    BY <2>1, <2>4, PublisherPaid, FlushPaid DEF Step
  <2>5. CASE connect \/ send_cloud_event \/ session_ends \/ crash
    BY <2>1, <2>5, SessionPaid
  <2> QED BY <2>1, <2>2, <2>3, <2>4, <2>5 DEF Next
<1> QED BY <1>1, <1>2, SpoolInvariant, PTL DEF Spec

\* A message reaches the cloud twice only because something failed: the stream, the
\* database or the daemon.  The repetitions are at most as many as the failures, however
\* many publishers, messages and sessions there are.
THEOREM RepetitionsArePaid == Spec => []RepetitionNeedsFailure
<1>1. IInv /\ Paid => RepetitionNeedsFailure
  <2>1. SUFFICES ASSUME IInv, Paid PROVE RepetitionNeedsFailure
    OBVIOUS
  <2>2. Repetitions(sends) \in Int /\ faults \in Int /\ Debt(pc, spool.rows, fate) \in {0, 1}
    BY <2>1, Parts, SendsFinite DEF Debt
  <2>3. Repetitions(sends) + Debt(pc, spool.rows, fate) <= faults
    BY <2>1 DEF Paid
  <2>4. Repetitions(sends) <= faults
    BY <2>2, <2>3
  <2> QED BY <2>4 DEF RepetitionNeedsFailure, Repetitions
<1> QED BY <1>1, SpoolInvariant, SpoolPaid, PTL
----------------------------------------------------------------------------
(* The order of the messages while nothing fails *)

\* The sends, the rows that are still to be sent, and the messages in hand in the order in
\* which their publishers get the lock follow one another in the order of publication.
SendsSorted(s) == \A i, k \in 1 .. Len(s) : i < k => s[i] < s[k]
RowsSorted(r) ==
    \A i, k \in 1 .. Len(r) : i < k /\ r[i] # Bad /\ r[k] # Bad => r[i] < r[k]
SendsBeforeRows(s, r, f) ==
    \A i \in 1 .. Len(s), k \in 1 .. Len(r) : r[k] # Bad /\ f[r[k]] # "sent" => s[i] < r[k]
RowsBeforeHands(r, g) ==
    \A k \in 1 .. Len(r), x \in Publisher : r[k] # Bad /\ g[x] # NoItem => r[k] < g[x]
SendsBeforeHands(s, g) ==
    \A i \in 1 .. Len(s), x \in Publisher : g[x] # NoItem => s[i] < g[x]
HandsSorted(w, g) ==
    \A i, k \in 1 .. Len(w) :
       i < k /\ w[i] \in Publisher /\ w[k] \in Publisher => g[w[i]] < g[w[k]]

\* New messages come after all others.
Numbered(f) == \A m, n \in Msg : f[n] = "new" /\ f[m] # "new" => m < n

\* A flush ends with an empty spool, and happens only with a stream.
Flushed(p, r) ==
    \A a \in Actor :
       /\ p[a] \in {"flushed", "publish"} => r = <<>>
       /\ p[a] \in {"flush", "resend", "corrupt", "pop", "flushed", "publish"} =>
             p[Conn] \notin {"idle", "ended"}

Lined(s, r, f, g, w) ==
    /\ SendsSorted(s) /\ RowsSorted(r) /\ SendsBeforeRows(s, r, f)
    /\ RowsBeforeHands(r, g) /\ SendsBeforeHands(s, g) /\ HandsSorted(w, g)

Orderly ==
    faults = 0 => /\ Lined(sends, spool.rows, fate, msg, lockQ)
                  /\ Numbered(fate) /\ Flushed(pc, spool.rows)
                  /\ spool.length = Len(spool.rows)

\* The parts make the invariant of the order.
LEMMA OrderlyNext ==
    ASSUME Lined(sends', (spool').rows, fate', msg', lockQ'), Numbered(fate'),
           Flushed(pc', (spool').rows), (spool').length = Len((spool').rows)
    PROVE  Orderly'
  BY DEF Orderly, Lined, Numbered, Flushed, SendsSorted, RowsSorted, SendsBeforeRows,
         RowsBeforeHands, SendsBeforeHands, HandsSorted

\* A message sent is the last one.
LEMMA SendsAppend ==
    ASSUME NEW s \in Seq(Msg), SendsSorted(s), NEW m \in Msg, \A i \in 1 .. Len(s) : s[i] < m
    PROVE  SendsSorted(Append(s, m))
<1> DEFINE t == Append(s, m)
<1>1. /\ t[Len(s) + 1] = m /\ Len(s) \in Nat
      /\ \A i \in 1 .. Len(t) : (i \in 1 .. Len(s) /\ t[i] = s[i]) \/ i = Len(s) + 1
  BY AppendIndex
<1> HIDE DEF t
<1>2. ASSUME NEW i \in 1 .. Len(t), NEW k \in 1 .. Len(t), i < k
      PROVE  t[i] < t[k]
  <2>1. i \in 1 .. Len(s) /\ t[i] = s[i]
    BY <1>1, <1>2
  <2>2. CASE k \in 1 .. Len(s) /\ t[k] = s[k]
    BY <1>2, <2>1, <2>2 DEF SendsSorted
  <2>3. CASE k = Len(s) + 1
    BY <1>1, <2>1, <2>3
  <2> QED BY <1>1, <2>2, <2>3
<1>3. SendsSorted(t)
  BY <1>2 DEF SendsSorted
<1> QED BY <1>3 DEF t

\* The sends and the rows without their first.
LEMMA LinedTail ==
    ASSUME NEW s, NEW r \in Seq(Row), r # <<>>, NEW f, NEW e, NEW g, NEW w, Lined(s, r, f, g, w),
           \A k \in 1 .. Len(r) : r[k] # Bad /\ k # 1 => e[r[k]] = f[r[k]]
    PROVE  Lined(s, Tail(r), e, g, w)
<1> DEFINE t == Tail(r)
<1>1. /\ Len(t) \in Nat /\ \A k \in 1 .. Len(t) : k + 1 \in 1 .. Len(r) /\ t[k] = r[k + 1] /\ k + 1 # 1
  BY TailIndex
<1> HIDE DEF t
<1>2. RowsSorted(t)
  <2>1. SUFFICES ASSUME NEW i \in 1 .. Len(t), NEW k \in 1 .. Len(t), i < k, t[i] # Bad, t[k] # Bad
                 PROVE  t[i] < t[k]
    BY DEF RowsSorted
  <2>2. i + 1 < k + 1
    BY <2>1
  <2> QED BY <1>1, <2>1, <2>2 DEF Lined, RowsSorted
<1>3. SendsBeforeRows(s, t, e)
  <2>1. SUFFICES ASSUME NEW i \in 1 .. Len(s), NEW k \in 1 .. Len(t), t[k] # Bad, e[t[k]] # "sent"
                 PROVE  s[i] < t[k]
    BY DEF SendsBeforeRows
  <2>2. k + 1 \in 1 .. Len(r) /\ t[k] = r[k + 1] /\ k + 1 # 1
    BY <1>1
  <2>3. f[r[k + 1]] # "sent" /\ r[k + 1] # Bad
    BY <2>1, <2>2
  <2> QED BY <2>2, <2>3 DEF Lined, SendsBeforeRows
<1>4. RowsBeforeHands(t, g)
  BY <1>1 DEF Lined, RowsBeforeHands
<1>5. Lined(s, t, e, g, w)
  BY <1>2, <1>3, <1>4 DEF Lined
<1> QED BY <1>5 DEF t

\* The holder of the lock has the first of the messages in hand.
LEMMA FirstInHand ==
    ASSUME IInv, NEW p \in Publisher, Holds(p), HandsSorted(lockQ, msg)
    PROVE  \A x \in Publisher : x # p /\ msg[x] # NoItem => msg[p] < msg[x]
<1>1. SUFFICES ASSUME NEW x \in Publisher, x # p, msg[x] # NoItem PROVE msg[p] < msg[x]
  OBVIOUS
<1>2. p = lockQ[1] /\ 1 \in 1 .. Len(lockQ)
  BY Parts, TailIndex DEF Holds
<1>3. x \in Engaged(pc)
  <2>1. pc[x] # "idle" /\ x \in Actor /\ pc[x] \notin {"event", "read", "ended"}
    BY <1>1, Parts DEF Hands, Control, Actor
  <2> QED BY <2>1 DEF Engaged, Away
<1>4. PICK k \in 1 .. Len(lockQ) : lockQ[k] = x
  BY <1>3, Parts DEF Control, Lists
<1>5. 1 < k
  BY <1>1, <1>2, <1>4
<1> QED BY <1>2, <1>4, <1>5 DEF HandsSorted

\* The holder leaves the queue and lets go of its message.
LEMMA HandsTail ==
    ASSUME IInv, NEW a \in Actor, Holds(a), HandsSorted(lockQ, msg), NEW g,
           \A x \in Publisher : x # a => g[x] = msg[x]
    PROVE  HandsSorted(Tail(lockQ), g)
<1> DEFINE t == Tail(lockQ)
<1>1. /\ a = lockQ[1] /\ 1 \in 1 .. Len(lockQ) /\ Len(t) \in Nat
      /\ \A k \in 1 .. Len(t) : k + 1 \in 1 .. Len(lockQ) /\ t[k] = lockQ[k + 1] /\ k + 1 # 1
  BY Parts, TailIndex DEF Holds
<1>2. \A i, k \in 1 .. Len(lockQ) : lockQ[i] = lockQ[k] => i = k
  BY Parts DEF Control, Lists
<1> HIDE DEF t
<1>3. \A k \in 1 .. Len(t) : t[k] # a
  BY <1>1, <1>2
<1>4. SUFFICES ASSUME NEW i \in 1 .. Len(t), NEW k \in 1 .. Len(t), i < k,
                      t[i] \in Publisher, t[k] \in Publisher
               PROVE  g[t[i]] < g[t[k]]
  BY DEF HandsSorted, t
<1>5. i + 1 < k + 1
  BY <1>4
<1>6. msg[t[i]] < msg[t[k]]
  BY <1>1, <1>4, <1>5 DEF HandsSorted
<1> QED BY <1>3, <1>4, <1>6

\* A coroutine joins the end of the queue, a publisher with a message later than the others.
LEMMA HandsAppend ==
    ASSUME IInv, NEW a \in Actor, HandsSorted(lockQ, msg), pc[a] \in Away, NEW g,
           \A x \in Publisher : x # a => g[x] = msg[x],
           a \in Publisher => \A x \in Publisher : x # a /\ msg[x] # NoItem => msg[x] < g[a]
    PROVE  HandsSorted(Append(lockQ, a), g)
<1> DEFINE t == Append(lockQ, a)
<1>1. /\ t[Len(lockQ) + 1] = a /\ Len(lockQ) \in Nat
      /\ \A i \in 1 .. Len(t) : (i \in 1 .. Len(lockQ) /\ t[i] = lockQ[i]) \/ i = Len(lockQ) + 1
  BY Parts, AppendIndex
<1>2. \A i \in 1 .. Len(lockQ) : lockQ[i] # a /\ (lockQ[i] \in Publisher => msg[lockQ[i]] # NoItem)
  <2>1. \A i \in 1 .. Len(lockQ) : pc[lockQ[i]] \notin Away
    BY Parts DEF Control, Lists, Engaged
  <2> QED BY <2>1, Parts DEF Hands, Away
<1> HIDE DEF t
<1>3. SUFFICES ASSUME NEW i \in 1 .. Len(t), NEW k \in 1 .. Len(t), i < k,
                      t[i] \in Publisher, t[k] \in Publisher
               PROVE  g[t[i]] < g[t[k]]
  BY DEF HandsSorted, t
<1>4. i \in 1 .. Len(lockQ) /\ t[i] = lockQ[i]
  BY <1>1, <1>3
<1>5. CASE k \in 1 .. Len(lockQ) /\ t[k] = lockQ[k]
  <2>1. msg[t[i]] < msg[t[k]]
    BY <1>3, <1>4, <1>5 DEF HandsSorted
  <2> QED BY <1>2, <1>3, <1>4, <1>5, <2>1
<1>6. CASE k = Len(lockQ) + 1
  BY <1>1, <1>2, <1>3, <1>4, <1>6
<1> QED BY <1>1, <1>5, <1>6

\* The holder goes on to l.
LEMMA FlushedMoves ==
    ASSUME IInv, NEW a \in Actor, Holds(a), NEW l, pc' = [pc EXCEPT ![a] = l], NEW r,
           l \in {"flushed", "publish"} => r = <<>>,
           l \in {"flush", "resend", "corrupt", "pop", "flushed", "publish"} =>
              pc'[Conn] \notin {"idle", "ended"}
    PROVE  Flushed(pc', r)
<1>1. pc'[a] = l /\ \A b \in Actor : b # a => pc'[b] = pc[b] /\ pc[b] \in Away \cup {"lock"}
  BY Parts, OthersOut DEF Holds
<1> QED BY <1>1 DEF Flushed, Away

\* While nothing fails a step fails neither, and the sends, rows and hands are in line.
LEMMA Faultless ==
    ASSUME IInv, Orderly, faults' = 0
    PROVE  /\ ~Fault
           /\ faults = 0 => /\ Lined(sends, spool.rows, fate, msg, lockQ)
                            /\ Numbered(fate) /\ Flushed(pc, spool.rows)
                            /\ spool.length = Len(spool.rows)
           /\ \A o : o.fault \in BOOLEAN /\ Did(o) => ~o.fault /\ faults = 0
<1>1. faults \in Nat
  BY Parts, SpoolConstants
<1>2. ~Fault
  BY <1>1 DEF Fault
<1>3. ASSUME NEW o, o.fault \in BOOLEAN, Did(o)
      PROVE  ~o.fault /\ faults = 0
  BY <1>1, <1>3, DidCost
<1> QED BY <1>2, <1>3 DEF Orderly

\* enqueue_cloud: the next message goes to the end.
LEMMA EnqueueOrder ==
    ASSUME IInv, Orderly, NEW p \in Publisher, enqueue_cloud(p), faults' = 0
    PROVE  Orderly'
<1>1. /\ spool' = spool /\ sends' = sends /\ faults = 0 /\ pc[p] = "idle" /\ p \in Actor
      /\ (p = Worker => pc[Conn] = "read")
  BY DEF enqueue_cloud, Actor
<1>2. /\ Lined(sends, spool.rows, fate, msg, lockQ) /\ Numbered(fate) /\ Flushed(pc, spool.rows)
      /\ spool.length = Len(spool.rows)
  BY <1>1, Faultless
<1>3. PICK m \in Msg :
         /\ fate[m] = "new" /\ \A n \in 1 .. m - 1 : fate[n] # "new"
         /\ \/ fate' = [fate EXCEPT ![m] = "refused"] /\ pc' = pc /\ msg' = msg /\ lockQ' = lockQ
            \/ /\ fate' = [fate EXCEPT ![m] = "hand"] /\ msg' = [msg EXCEPT ![p] = m]
               /\ pc' = [pc EXCEPT ![p] = "lock"] /\ lockQ' = Append(lockQ, p)
  BY DEF enqueue_cloud, GoTo
<1>4. /\ fate'[m] \in {"refused", "hand"} /\ \A n \in Msg : n # m => fate'[n] = fate[n]
  BY <1>3, Parts
<1>5. Numbered(fate')
  <2>1. SUFFICES ASSUME NEW k \in Msg, NEW n \in Msg, fate'[n] = "new", fate'[k] # "new"
                 PROVE  k < n
    BY DEF Numbered
  <2>2. n # m /\ fate[n] = "new"
    BY <1>4, <2>1
  <2>3. CASE k = m
    <3>1. ~(n \in 1 .. m - 1)
      BY <1>3, <2>2
    <3> QED BY <2>2, <2>3, <3>1, SpoolConstants DEF Msg
  <2>4. CASE k # m
    BY <1>2, <1>4, <2>1, <2>2, <2>4 DEF Numbered
  <2> QED BY <2>3, <2>4
<1>6. SendsBeforeRows(sends, spool.rows, fate')
  <2>1. \A k \in 1 .. Len(spool.rows) : spool.rows[k] # Bad => spool.rows[k] \in Msg /\ spool.rows[k] # m
    <3>1. \A k \in 1 .. Len(spool.rows) : spool.rows[k] # Bad => spool.rows[k] \in Msg
      BY Parts DEF Row
    <3>2. \A k \in 1 .. Len(spool.rows) : spool.rows[k] # Bad => fate[spool.rows[k]] \in {"kept", "sent"}
      BY Parts DEF Stored
    <3> QED BY <1>3, <3>1, <3>2
  <2> QED BY <1>2, <1>4, <2>1 DEF Lined, SendsBeforeRows
<1>7. CASE pc' = pc /\ msg' = msg /\ lockQ' = lockQ
  <2>1. Lined(sends', (spool').rows, fate', msg', lockQ')
    BY <1>1, <1>2, <1>6, <1>7 DEF Lined
  <2> QED BY <1>1, <1>2, <1>5, <1>7, <2>1, OrderlyNext
<1>8. CASE /\ msg' = [msg EXCEPT ![p] = m]
           /\ pc' = [pc EXCEPT ![p] = "lock"] /\ lockQ' = Append(lockQ, p)
  <2>1. msg'[p] = m /\ \A x \in Publisher : x # p => msg'[x] = msg[x]
    BY <1>8, Parts
  <2>2. \A x \in Publisher : msg[x] # NoItem => msg[x] \in Msg /\ msg[x] < m
    BY <1>2, <1>3, Parts DEF Hands, Numbered
  <2>3. \A i \in 1 .. Len(sends) : sends[i] < m
    <3>1. \A i \in 1 .. Len(sends) : sends[i] \in Msg /\ fate[sends[i]] = "sent"
      BY Parts DEF Recorded
    <3> QED BY <1>2, <1>3, <3>1 DEF Numbered
  <2>4. \A k \in 1 .. Len(spool.rows) : spool.rows[k] # Bad => spool.rows[k] < m
    <3>1. \A k \in 1 .. Len(spool.rows) : spool.rows[k] # Bad => spool.rows[k] \in Msg
      BY Parts DEF Row
    <3>2. \A k \in 1 .. Len(spool.rows) : spool.rows[k] # Bad => fate[spool.rows[k]] \in {"kept", "sent"}
      BY Parts DEF Stored
    <3> QED BY <1>2, <1>3, <3>1, <3>2 DEF Numbered
  <2>5. HandsSorted(lockQ', msg')
    <3>1. HandsSorted(lockQ, msg) /\ pc[p] \in Away
      BY <1>1, <1>2 DEF Lined, Away
    <3> QED BY <1>1, <1>8, <2>1, <2>2, <3>1, HandsAppend
  <2>6. RowsBeforeHands(spool.rows, msg') /\ SendsBeforeHands(sends, msg')
    BY <1>2, <2>1, <2>3, <2>4 DEF Lined, RowsBeforeHands, SendsBeforeHands
  <2>7. Lined(sends', (spool').rows, fate', msg', lockQ')
    BY <1>1, <1>2, <1>6, <2>5, <2>6 DEF Lined
  <2>8. Flushed(pc', (spool').rows)
    <3>1. pc'[p] = "lock" /\ \A b \in Actor : b # p => pc'[b] = pc[b]
      BY <1>1, <1>8, Parts
    <3>2. Conn \in Actor /\ Conn # p
      BY SpoolConstants DEF Actor, Publisher
    <3> QED BY <1>1, <1>2, <3>1, <3>2 DEF Flushed
  <2> QED BY <1>1, <1>2, <1>5, <2>7, <2>8, OrderlyNext
<1> QED BY <1>3, <1>7, <1>8

\* _publish_cloud_message with the spool empty: nobody has an earlier message.
LEMMA PublishOrder ==
    ASSUME IInv, Orderly, NEW p \in Publisher, publish(p), faults' = 0
    PROVE  Orderly'
<1> DEFINE m == msg[p]
<1>1. Holds(p) /\ m \in Msg /\ fate[m] = "hand" /\ pc[p] = "publish" /\ p \in Actor /\ p # Conn
  BY InHand DEF publish, At
<1>2. ~Fault /\ ~Raise(p)
  BY Faultless DEF Raise
<1>3. CASE /\ sends' = Append(sends, m) /\ fate' = [fate EXCEPT ![m] = "sent"]
           /\ Return(p) /\ UNCHANGED <<spool, faults>>
  <2>1. /\ faults = 0 /\ spool' = spool /\ sends' = Append(sends, m) /\ lockQ' = Tail(lockQ)
        /\ pc' = [pc EXCEPT ![p] = "idle"] /\ msg' = [msg EXCEPT ![p] = NoItem]
        /\ fate' = [fate EXCEPT ![m] = "sent"]
    BY <1>3 DEF Return, GoTo
  <2>2. /\ Lined(sends, spool.rows, fate, msg, lockQ) /\ Numbered(fate) /\ Flushed(pc, spool.rows)
        /\ spool.length = Len(spool.rows)
    BY <2>1, Faultless
  <2>3. spool.rows = <<>> /\ Len(spool.rows) = 0
    BY <1>1, <2>2 DEF Flushed
  <2>4. \A x \in Publisher : x # p /\ msg[x] # NoItem => m < msg[x]
    BY <1>1, <2>2, FirstInHand DEF Lined
  <2>5. \A i \in 1 .. Len(sends) : sends[i] < m
    BY <1>1, <2>2, SpoolConstants DEF Lined, SendsBeforeHands, Msg
  <2>6. SendsSorted(sends')
    BY <1>1, <2>1, <2>2, <2>5, Parts, SendsAppend DEF Lined
  <2>7. msg'[p] = NoItem /\ \A x \in Publisher : x # p => msg'[x] = msg[x]
    BY <2>1, Parts
  <2>8. HandsSorted(lockQ', msg')
    <3>1. HandsSorted(lockQ, msg)
      BY <2>2 DEF Lined
    <3>2. HandsSorted(Tail(lockQ), msg')
      BY <1>1, <2>7, <3>1, HandsTail
    <3> QED BY <2>1, <3>2
  <2> HIDE DEF m
  <2>9. SendsBeforeHands(sends', msg')
    <3> DEFINE t == Append(sends, m)
    <3>1. /\ t[Len(sends) + 1] = m
          /\ \A i \in 1 .. Len(t) : (i \in 1 .. Len(sends) /\ t[i] = sends[i]) \/ i = Len(sends) + 1
      BY <1>1, Parts, AppendIndex
    <3> HIDE DEF t
    <3>2. SendsBeforeHands(t, msg')
      BY <2>2, <2>4, <2>7, <3>1 DEF Lined, SendsBeforeHands
    <3> QED BY <2>1, <3>2 DEF t
  <2>10. RowsSorted(spool.rows) /\ SendsBeforeRows(sends', spool.rows, fate') /\ RowsBeforeHands(spool.rows, msg')
    BY <2>3 DEF RowsSorted, SendsBeforeRows, RowsBeforeHands
  <2>11. Lined(sends', (spool').rows, fate', msg', lockQ')
    BY <2>1, <2>6, <2>8, <2>9, <2>10 DEF Lined
  <2>12. Numbered(fate')
    BY <1>1, <2>1, <2>2, Parts DEF Numbered
  <2>13. Flushed(pc', (spool').rows)
    <3>1. \A b \in Actor : pc'[b] \in Away \cup {"lock"}
      BY <1>1, <2>1, Parts, OthersOut DEF Holds, Away
    <3> QED BY <3>1 DEF Flushed, Away
  <2> QED BY <2>1, <2>2, <2>11, <2>12, <2>13, OrderlyNext
<1>4. CASE Refused /\ GoTo(p, "spool") /\ UNCHANGED <<msg, lockQ, spool, fate, sends>>
  <2>1. ~stream /\ faults = 0
    BY <1>2, <1>4 DEF Refused
  <2>2. stream
    BY <1>1, <2>1, Faultless DEF Flushed, stream
  <2> QED BY <2>1, <2>2
<1> QED BY <1>2, <1>3, <1>4 DEF publish

\* The oldest row is deleted.
LEMMA TrimOrder ==
    ASSUME IInv, Orderly, NEW p \in Publisher, trim(p), faults' = 0
    PROVE  Orderly'
<1>1. /\ Holds(p) /\ p \in Actor /\ msg' = msg /\ lockQ' = lockQ /\ sends' = sends
      /\ \E l \in {"spool", "append"} : pc' = [pc EXCEPT ![p] = l]
  BY InHand DEF trim, At, GoTo
<1>2. \A r : Flushed(pc', r)
  BY <1>1, FlushedMoves
<1>3. CASE MaxLen > 0 /\ spool.length >= MaxLen
  <2>1. PICK o \in popleft(spool) :
           /\ Did(o)
           /\ fate' = [m \in Msg |-> IF o.res = "ok" /\ m = o.item /\ fate[m] = "kept"
                                     THEN "trimmed" ELSE Wiped(o)[m]]
    BY <1>3 DEF trim
  <2>2. /\ o.fault \in BOOLEAN
        /\ ~o.fault => \/ Shortened(spool, o) /\ (spool.length > 0 => o.d.length = spool.length - 1)
                       \/ spool.rows = <<>> /\ o.d = spool
    BY Parts, PopCases
  <2>3. ~o.fault /\ faults = 0
    BY <2>1, <2>2, Faultless
  <2>4. /\ Lined(sends, spool.rows, fate, msg, lockQ) /\ Numbered(fate)
        /\ spool.length = Len(spool.rows) /\ Len(spool.rows) \in Nat /\ spool.length > 0
    BY <1>3, <2>3, Faultless, Parts, DequeConstants
  <2>5. /\ spool.rows # <<>> /\ (spool').rows = Tail(spool.rows) /\ (spool').length = spool.length - 1
        /\ o.lost = {} /\ o.item = Head(spool.rows)
    BY <2>1, <2>2, <2>3, <2>4 DEF Shortened, Did
  <2>6. \A m \in Msg : fate'[m] = fate[m] \/ (m = Head(spool.rows) /\ fate[m] = "kept" /\ fate'[m] = "trimmed")
    BY <2>1, <2>5 DEF Wiped
  <2>7. Head(spool.rows) = spool.rows[1] /\ 1 \in 1 .. Len(spool.rows) /\ Len((spool').rows) = Len(spool.rows) - 1
    BY <2>5, Parts, TailIndex
  <2>8. \A k \in 1 .. Len(spool.rows) : spool.rows[k] # Bad /\ k # 1 => fate'[spool.rows[k]] = fate[spool.rows[k]]
    <3>1. \A k \in 1 .. Len(spool.rows) : spool.rows[k] # Bad /\ k # 1 =>
                                            spool.rows[k] # spool.rows[1] /\ spool.rows[k] \in Msg
      BY <2>7, Parts DEF Stored, Row
    <3> QED BY <2>6, <2>7, <3>1
  <2>9. Lined(sends, Tail(spool.rows), fate', msg, lockQ)
    BY <2>4, <2>5, <2>8, Parts, LinedTail
  <2>10. Numbered(fate')
    BY <2>4, <2>6 DEF Numbered
  <2>11. Lined(sends', (spool').rows, fate', msg', lockQ')
    BY <1>1, <2>5, <2>9
  <2>12. (spool').length = Len((spool').rows)
    BY <2>4, <2>5, <2>7
  <2> QED BY <1>2, <2>10, <2>11, <2>12, OrderlyNext
<1>4. CASE ~(MaxLen > 0 /\ spool.length >= MaxLen)
  <2>1. spool' = spool /\ fate' = fate /\ faults = 0
    BY <1>4 DEF trim
  <2> QED BY <1>1, <1>2, <2>1, Faultless, OrderlyNext
<1> QED BY <1>3, <1>4

\* The message of the holder becomes the last row, or no row is left, with the limit 0.
LEMMA KeepOrder ==
    ASSUME IInv, Orderly, NEW p \in Publisher, keep(p), faults' = 0
    PROVE  Orderly'
<1> DEFINE m == msg[p]
           r == spool.rows
           t == Append(spool.rows, msg[p])
<1>1. /\ Holds(p) /\ m \in Msg /\ fate[m] = "hand" /\ pc[p] = "append" /\ p \in Actor
  BY InHand DEF keep, At
<1>2. /\ sends' = sends /\ lockQ' = Tail(lockQ) /\ pc' = [pc EXCEPT ![p] = "idle"]
      /\ msg' = [msg EXCEPT ![p] = NoItem]
  BY DEF keep, Return, GoTo
<1>3. PICK o, s, j : Kept(m, o, s, j)
  BY KeepEnds
<1>4. MaxLen = 0 \/ spool.length < MaxLen \/ r = <<>>
  BY <1>1, Parts DEF Ready, Knows
<1>5. /\ o.fault \in BOOLEAN /\ Did(o)
      /\ ~o.fault => /\ o.d.rows = Beyond(t, Over(spool.length))
                     /\ o.d.length = spool.length + 1 - Over(spool.length)
  BY <1>3 DEF Kept
<1>6. ~o.fault /\ faults = 0
  BY <1>5, Faultless
<1>7. /\ Lined(sends, r, fate, msg, lockQ) /\ Numbered(fate) /\ spool.length = Len(r)
  BY <1>6, Faultless
<1>9. /\ spool' = o.d /\ fate'[m] \in {"kept", "dropped", "evicted"}
      /\ \A n \in Msg : n # m => fate'[n] = fate[n] \/ (fate[n] = "kept" /\ fate'[n] \in {"wiped", "evicted"})
  BY <1>1, <1>3, KeptFates
<1>10. /\ t[Len(r) + 1] = m /\ Len(r) \in Nat /\ Len(t) = Len(r) + 1
       /\ \A i \in 1 .. Len(t) : (i \in 1 .. Len(r) /\ t[i] = r[i]) \/ i = Len(r) + 1
  BY <1>1, Parts, AppendIndex DEF Row
<1>8. (spool').rows \in {t, <<>>} /\ (spool').length = Len((spool').rows)
  <2> DEFINE n == spool.length
             h == Over(spool.length)
  <2>1. /\ (spool').rows = Beyond(t, h) /\ (spool').length = n + 1 - h
    BY <1>5, <1>6, <1>9
  <2>2. t \in Seq(Row) /\ Len(t) = n + 1 /\ n \in Nat /\ n = Len(r)
    BY <1>1, <1>7, <1>10, Parts DEF Row
  <2>3. h \in Nat /\ h <= n + 1 /\ (n < MaxLen => h = 0)
    BY <2>2, OverBounds
  <2>4. MaxLen = 0 => h = n + 1
    BY <2>2 DEF Over
  <2>5. r = <<>> => n = 0
    BY <2>2
  <2>6. h = 0 \/ h = n + 1
    BY <1>4, <2>2, <2>3, <2>4, <2>5, DequeConstants
  <2> HIDE DEF n, h, t
  <2>7. CASE h = 0
    <3>1. Beyond(t, h) = t
      BY <2>2, <2>3, <2>7, BeyondIndex
    <3> QED BY <2>1, <2>2, <2>7, <3>1
  <2>8. CASE h = n + 1
    <3>1. Beyond(t, h) = <<>>
      BY <2>2, <2>3, <2>8, BeyondIndex
    <3>2. n + 1 - h = 0 /\ Len(<<>>) = 0
      BY <2>2, <2>3, <2>8
    <3> QED BY <2>1, <3>1, <3>2
  <2> QED BY <2>6, <2>7, <2>8
<1>11. \A k \in 1 .. Len(r) : r[k] # Bad => r[k] \in Msg /\ r[k] # m /\ r[k] < m
  <2>1. \A k \in 1 .. Len(r) : r[k] # Bad => r[k] \in Msg
    BY Parts DEF Row
  <2>2. \A k \in 1 .. Len(r) : r[k] # Bad => fate[r[k]] \in {"kept", "sent"}
    BY Parts DEF Stored
  <2>3. m # NoItem
    BY <1>1, SpoolConstants DEF Msg
  <2> QED BY <1>1, <1>7, <2>1, <2>2, <2>3 DEF Lined, RowsBeforeHands
<1>12. \A x \in Publisher : x # p /\ msg[x] # NoItem => m < msg[x]
  BY <1>1, <1>7, FirstInHand DEF Lined
<1>13. \A i \in 1 .. Len(sends) : sends[i] < m
  BY <1>1, <1>7, SpoolConstants DEF Lined, SendsBeforeHands, Msg
<1>14. msg'[p] = NoItem /\ \A x \in Publisher : x # p => msg'[x] = msg[x]
  BY <1>2, Parts
<1>15. HandsSorted(lockQ', msg')
  <2>1. HandsSorted(lockQ, msg)
    BY <1>7 DEF Lined
  <2>2. HandsSorted(Tail(lockQ), msg')
    BY <1>1, <1>14, <2>1, HandsTail
  <2> QED BY <1>2, <2>2
<1> HIDE DEF m, r, t
<1>16. RowsSorted(t)
  <2>1. SUFFICES ASSUME NEW i \in 1 .. Len(t), NEW k \in 1 .. Len(t), i < k, t[i] # Bad, t[k] # Bad
                 PROVE  t[i] < t[k]
    BY DEF RowsSorted
  <2>2. i \in 1 .. Len(r) /\ t[i] = r[i]
    BY <1>10, <2>1
  <2>3. CASE k \in 1 .. Len(r) /\ t[k] = r[k]
    BY <1>7, <2>1, <2>2, <2>3 DEF Lined, RowsSorted
  <2>4. CASE k = Len(r) + 1
    BY <1>10, <1>11, <2>1, <2>2, <2>4
  <2> QED BY <1>10, <2>3, <2>4
<1>17. SendsBeforeRows(sends, t, fate')
  <2>1. SUFFICES ASSUME NEW i \in 1 .. Len(sends), NEW k \in 1 .. Len(t), t[k] # Bad,
                        fate'[t[k]] # "sent"
                 PROVE  sends[i] < t[k]
    BY DEF SendsBeforeRows
  <2>2. CASE k \in 1 .. Len(r) /\ t[k] = r[k]
    <3>1. fate[r[k]] # "sent"
      BY <1>9, <1>11, <2>1, <2>2
    <3> QED BY <1>7, <2>1, <2>2, <3>1 DEF Lined, SendsBeforeRows
  <2>3. CASE k = Len(r) + 1
    BY <1>10, <1>13, <2>3
  <2> QED BY <1>10, <2>2, <2>3
<1>18. RowsBeforeHands(t, msg')
  <2>1. SUFFICES ASSUME NEW k \in 1 .. Len(t), NEW x \in Publisher, t[k] # Bad, msg'[x] # NoItem
                 PROVE  t[k] < msg'[x]
    BY DEF RowsBeforeHands
  <2>2. x # p /\ msg'[x] = msg[x] /\ m < msg[x]
    BY <1>12, <1>14, <2>1
  <2>3. CASE k \in 1 .. Len(r) /\ t[k] = r[k]
    BY <1>7, <2>1, <2>2, <2>3 DEF Lined, RowsBeforeHands
  <2>4. CASE k = Len(r) + 1
    BY <1>10, <2>2, <2>4
  <2> QED BY <1>10, <2>3, <2>4
<1>19. SendsSorted(sends) /\ SendsBeforeHands(sends, msg')
  BY <1>7, <1>14 DEF Lined, SendsBeforeHands
<1>20. Lined(sends', (spool').rows, fate', msg', lockQ')
  <2>1. CASE (spool').rows = t
    BY <1>2, <1>15, <1>16, <1>17, <1>18, <1>19, <2>1 DEF Lined
  <2>2. CASE (spool').rows = <<>>
    <3>1. Len((spool').rows) = 0
      BY <2>2
    <3>2. /\ RowsSorted((spool').rows) /\ SendsBeforeRows(sends, (spool').rows, fate')
          /\ RowsBeforeHands((spool').rows, msg')
      BY <3>1 DEF RowsSorted, SendsBeforeRows, RowsBeforeHands
    <3> QED BY <1>2, <1>15, <1>19, <3>2 DEF Lined
  <2> QED BY <1>8, <2>1, <2>2
<1>21. Numbered(fate')
  BY <1>1, <1>7, <1>9 DEF Numbered
<1>22. Flushed(pc', (spool').rows)
  <2>1. \A b \in Actor : pc'[b] \in Away \cup {"lock"}
    BY <1>1, <1>2, Parts, OthersOut DEF Holds, Away
  <2> QED BY <2>1 DEF Flushed, Away
<1> QED BY <1>8, <1>20, <1>21, <1>22, OrderlyNext

\* A message is sent at least as often as it is sent for the first time.
LEMMA RepetitionsNat ==
    ASSUME NEW s \in Seq(Msg)
    PROVE  Repetitions(s) >= 0
<1>1. Len(s) \in Nat /\ s \in [1 .. Len(s) -> Msg]
  OBVIOUS
<1>2. \A x : x \in ToSet(s) <=> \E i \in 1 .. Len(s) : s[i] = x
  BY ToSetIndex
<1>3. s \in [1 .. Len(s) -> ToSet(s)]
  BY <1>1, <1>2
<1>4. s \in Surjection(1 .. Len(s), ToSet(s))
  BY <1>2, <1>3 DEF Surjection
<1>5. ExistsSurjection(1 .. Len(s), ToSet(s))
  BY <1>4 DEF ExistsSurjection
<1>6. Cardinality(ToSet(s)) <= Len(s)
  BY <1>1, <1>5, FS_SurjCardinalityBound
<1>7. Cardinality(ToSet(s)) \in Nat
  BY SendsFinite, FS_CardinalityType
<1> QED BY <1>1, <1>6, <1>7 DEF Repetitions

\* The first row is sent.
LEMMA ResendOrder ==
    ASSUME IInv, Paid, Orderly, NEW a \in Actor, flush_send(a), faults' = 0
    PROVE  Orderly'
<1> DEFINE r == spool.rows
           m == Head(spool.rows)
<1>1. Holds(a) /\ pc[a] = "resend"
  BY DEF flush_send, At
<1>2. m \in Msg /\ r # <<>> /\ m # Bad
  BY <1>1, HeadMessage, SpoolConstants DEF Msg
<1>3. ~Fault /\ ~Raise(a)
  BY Faultless DEF Raise
<1>4. CASE /\ GoTo(a, "pop") /\ sends' = Append(sends, m) /\ fate' = [fate EXCEPT ![m] = "sent"]
           /\ UNCHANGED <<msg, lockQ, spool, faults>>
  <2>1. /\ faults = 0 /\ spool' = spool /\ sends' = Append(sends, m) /\ lockQ' = lockQ /\ msg' = msg
        /\ pc' = [pc EXCEPT ![a] = "pop"]
        /\ fate'[m] = "sent" /\ \A n \in Msg : n # m => fate'[n] = fate[n]
    BY <1>2, <1>4, Parts DEF GoTo
  <2>2. /\ Lined(sends, r, fate, msg, lockQ) /\ Numbered(fate) /\ Flushed(pc, r)
        /\ spool.length = Len(r)
    BY <2>1, Faultless
  <2>3. m = r[1] /\ 1 \in 1 .. Len(r)
    BY <1>2, Parts, TailIndex
  <2>4. fate[m] # "sent"
    <3>1. \A b \in Actor : pc[b] # "pop"
      BY <1>1, Parts, OthersOut DEF Holds, Away
    <3>2. fate[m] = "sent" => Debt(pc, r, fate) = 1
      BY <1>2, <3>1 DEF Debt, HeadSent
    <3>3. Repetitions(sends) >= 0
      BY Parts, RepetitionsNat
    <3>4. Repetitions(sends) + Debt(pc, r, fate) <= 0 /\ Repetitions(sends) \in Int
      BY <2>1, Parts, SendsFinite DEF Paid
    <3>5. Debt(pc, r, fate) # 1
      BY <3>3, <3>4
    <3> QED BY <3>2, <3>5
  <2>5. \A i \in 1 .. Len(sends) : sends[i] < m
    BY <1>2, <2>2, <2>3, <2>4 DEF Lined, SendsBeforeRows
  <2>6. SendsSorted(sends')
    BY <1>2, <2>1, <2>2, <2>5, Parts, SendsAppend DEF Lined
  <2> DEFINE t == Append(sends, m)
  <2>7. /\ t[Len(sends) + 1] = m
        /\ \A i \in 1 .. Len(t) : (i \in 1 .. Len(sends) /\ t[i] = sends[i]) \/ i = Len(sends) + 1
    BY <1>2, Parts, AppendIndex
  <2>8. \A k \in 1 .. Len(r) : r[k] # Bad => r[k] \in Msg
    BY Parts DEF Row
  <2>9. \A k \in 1 .. Len(r) : r[k] # Bad /\ r[k] # m => m < r[k]
    <3>1. SUFFICES ASSUME NEW k \in 1 .. Len(r), r[k] # Bad, r[k] # m PROVE m < r[k]
      OBVIOUS
    <3>2. 1 < k
      BY <2>3, <3>1
    <3> QED BY <1>2, <2>2, <2>3, <3>1, <3>2 DEF Lined, RowsSorted
  <2> HIDE DEF t, m, r
  <2>10. SendsBeforeRows(t, r, fate')
    <3>1. SUFFICES ASSUME NEW i \in 1 .. Len(t), NEW k \in 1 .. Len(r), r[k] # Bad,
                          fate'[r[k]] # "sent"
                   PROVE  t[i] < r[k]
      BY DEF SendsBeforeRows
    <3>2. r[k] # m /\ fate[r[k]] # "sent" /\ m < r[k]
      BY <2>1, <2>8, <2>9, <3>1
    <3> QED BY <2>2, <2>7, <3>1, <3>2 DEF Lined, SendsBeforeRows
  <2>11. SendsBeforeHands(t, msg)
    <3>1. \A x \in Publisher : msg[x] # NoItem => m < msg[x]
      BY <1>2, <2>2, <2>3 DEF Lined, RowsBeforeHands
    <3> QED BY <2>2, <2>7, <3>1 DEF Lined, SendsBeforeHands
  <2>12. Lined(t, r, fate', msg, lockQ)
    BY <2>1, <2>2, <2>6, <2>10, <2>11 DEF Lined, t
  <2>13. Lined(sends', (spool').rows, fate', msg', lockQ')
    BY <2>1, <2>12 DEF t, r
  <2>14. Numbered(fate')
    <3>1. fate[m] # "new"
      <4>1. fate[r[1]] \in {"kept", "sent"}
        BY <1>2, <2>3, Parts DEF Stored, r
      <4> QED BY <2>3, <4>1
    <3> QED BY <1>2, <2>1, <2>2, <3>1 DEF Numbered
  <2>15. Flushed(pc', (spool').rows)
    <3>1. pc[Conn] \notin {"idle", "ended"} /\ Conn \in Actor
      BY <1>1, <2>2 DEF Flushed, Actor
    <3>2. pc'[Conn] \notin {"idle", "ended"}
      BY <2>1, <3>1, Parts
    <3>3. \A b \in Actor : b # a => pc'[b] = pc[b] /\ pc[b] \in Away \cup {"lock"}
      BY <1>1, <2>1, Parts, OthersOut DEF Holds
    <3>4. pc'[a] = "pop"
      BY <2>1, Parts
    <3> QED BY <3>2, <3>3, <3>4 DEF Flushed, Away
  <2>16. (spool').length = Len((spool').rows)
    BY <2>1, <2>2 DEF r
  <2> QED BY <2>13, <2>14, <2>15, <2>16, OrderlyNext
<1>5. CASE Refused /\ GoTo(a, "flushed") /\ UNCHANGED <<msg, lockQ, spool, fate, sends>>
  <2>1. ~stream /\ faults = 0
    BY <1>3, <1>5 DEF Refused
  <2>2. stream
    BY <1>1, <2>1, Faultless DEF Flushed, stream
  <2> QED BY <2>1, <2>2
<1> QED BY <1>3, <1>4, <1>5 DEF flush_send

\* Without a failure an operation that deletes no row changes no fate.
LEMMA NothingWiped ==
    ASSUME IInv, NEW o, o.lost = {}
    PROVE  Wiped(o) = fate
  BY Parts, WipedFates

\* The entry that was sent, or is none, is deleted.
LEMMA PopOrder ==
    ASSUME IInv, Orderly, NEW a \in Actor, flush_pop(a), faults' = 0
    PROVE  Orderly'
<1>1. /\ Holds(a) /\ pc[a] \in {"pop", "corrupt"} /\ spool.rows # <<>>
      /\ msg' = msg /\ lockQ' = lockQ /\ sends' = sends
  BY Parts DEF flush_pop, At, Ready, Knows
<1>2. PICK o \in popleft(spool) :
         /\ Did(o) /\ fate' = Wiped(o)
         /\ GoTo(a, IF o.res = "ok" THEN "flush" ELSE "flushed")
  BY DEF flush_pop
<1>3. /\ o.fault \in BOOLEAN
      /\ ~o.fault => \/ Shortened(spool, o) /\ (spool.length > 0 => o.d.length = spool.length - 1)
                     \/ spool.rows = <<>> /\ o.d = spool
  BY Parts, PopCases
<1>4. ~o.fault /\ faults = 0
  BY <1>2, <1>3, Faultless
<1>5. /\ Lined(sends, spool.rows, fate, msg, lockQ) /\ Numbered(fate) /\ Flushed(pc, spool.rows)
      /\ spool.length = Len(spool.rows)
  BY <1>4, Faultless
<1>6. /\ (spool').rows = Tail(spool.rows) /\ o.lost = {} /\ o.res = "ok"
      /\ spool.length > 0 => (spool').length = spool.length - 1
  BY <1>1, <1>2, <1>3, <1>4 DEF Shortened, Did
<1>7. Len(spool.rows) \in Nat /\ 1 \in 1 .. Len(spool.rows) /\ Len(Tail(spool.rows)) = Len(spool.rows) - 1
  BY <1>1, Parts, TailIndex
<1>8. fate' = fate
  BY <1>2, <1>6, NothingWiped
<1>9. Lined(sends, Tail(spool.rows), fate, msg, lockQ)
  BY <1>1, <1>5, Parts, LinedTail
<1>10. Lined(sends', (spool').rows, fate', msg', lockQ')
  BY <1>1, <1>6, <1>8, <1>9
<1>11. pc' = [pc EXCEPT ![a] = "flush"]
  BY <1>2, <1>6 DEF GoTo
<1>12. pc'[Conn] \notin {"idle", "ended"}
  BY <1>1, <1>5, <1>11, Parts DEF Flushed, Actor
<1>13. Flushed(pc', (spool').rows)
  <2>1. pc'[a] = "flush" /\ \A b \in Actor : b # a => pc'[b] = pc[b] /\ pc[b] \in Away \cup {"lock"}
    BY <1>1, <1>11, Parts, OthersOut DEF Holds
  <2> QED BY <1>12, <2>1 DEF Flushed, Away
<1>14. (spool').length = Len((spool').rows)
  BY <1>5, <1>6, <1>7
<1> QED BY <1>5, <1>8, <1>10, <1>13, <1>14, OrderlyNext

\* The first entry is read, or there is none.
LEMMA PeekOrder ==
    ASSUME IInv, Orderly, NEW a \in Actor, flush_peek(a), faults' = 0
    PROVE  Orderly'
<1>1. Holds(a) /\ pc[a] = "flush" /\ msg' = msg /\ lockQ' = lockQ /\ sends' = sends
  BY DEF flush_peek, At
<1>2. /\ faults = 0 /\ spool' = spool /\ fate' = fate
      /\ \E l \in {"flushed", "corrupt", "resend"} :
            pc' = [pc EXCEPT ![a] = l] /\ (l = "flushed" => spool.rows = <<>>)
  <2>1. CASE spool.length = 0
    <3>1. pc' = [pc EXCEPT ![a] = "flushed"] /\ spool' = spool /\ fate' = fate /\ faults = 0
      BY <2>1 DEF flush_peek, GoTo
    <3>2. spool.rows = <<>>
      BY <2>1, <3>1, Faultless, Parts
    <3> QED BY <3>1, <3>2
  <2>2. CASE spool.length # 0
    <3>1. PICK o \in peek(spool) :
             /\ Did(o) /\ fate' = Wiped(o)
             /\ GoTo(a, IF o.res # "ok" THEN "flushed" ELSE IF o.item = Bad THEN "corrupt" ELSE "resend")
      BY <2>2 DEF flush_peek
    <3>2. /\ o.fault \in BOOLEAN
          /\ Untouched(spool, o) \/ (Emptied(spool, o) /\ o.res # "ok")
          /\ ~o.fault => o.d = spool /\ (o.res # "ok" => spool.rows = <<>>)
      BY Parts, PeekCases
    <3>3. ~o.fault /\ faults = 0
      BY <3>1, <3>2, Faultless
    <3>4. spool' = spool
      BY <3>1, <3>2, <3>3 DEF Did
    <3>5. o.lost = {}
      <4>1. CASE Untouched(spool, o)
        BY <4>1 DEF Untouched
      <4>2. CASE Emptied(spool, o) /\ o.res # "ok"
        BY <3>2, <3>3, <4>2, ToSetEmpty DEF Emptied
      <4> QED BY <3>2, <4>1, <4>2
    <3>6. fate' = fate
      BY <3>1, <3>5, NothingWiped
    <3>7. CASE o.res # "ok"
      <4>1. pc' = [pc EXCEPT ![a] = "flushed"]
        BY <3>1, <3>7 DEF GoTo
      <4> QED BY <3>2, <3>3, <3>4, <3>6, <3>7, <4>1
    <3>8. CASE o.res = "ok"
      <4>1. \E l \in {"corrupt", "resend"} : pc' = [pc EXCEPT ![a] = l]
        BY <3>1, <3>8 DEF GoTo
      <4> QED BY <3>3, <3>4, <3>6, <4>1
    <3> QED BY <3>7, <3>8
  <2> QED BY <2>1, <2>2
<1>3. /\ Lined(sends, spool.rows, fate, msg, lockQ) /\ Numbered(fate) /\ Flushed(pc, spool.rows)
      /\ spool.length = Len(spool.rows)
  BY <1>2, Faultless
<1>4. PICK l \in {"flushed", "corrupt", "resend"} :
         pc' = [pc EXCEPT ![a] = l] /\ (l = "flushed" => spool.rows = <<>>)
  BY <1>2
<1>5. pc'[Conn] \notin {"idle", "ended"}
  BY <1>1, <1>3, <1>4, Parts DEF Flushed, Actor
<1>6. Flushed(pc', spool.rows)
  BY <1>1, <1>4, <1>5, FlushedMoves
<1> QED BY <1>1, <1>2, <1>3, <1>6, OrderlyNext

\* The holder flushes when there is a stream.
LEMMA StartOrder ==
    ASSUME IInv, Orderly, NEW a \in Actor, flush_start(a), faults' = 0
    PROVE  Orderly'
<1>1. /\ Holds(a) /\ msg' = msg /\ lockQ' = lockQ /\ sends' = sends /\ spool' = spool
      /\ fate' = fate /\ faults = 0 /\ pc[a] = "lock"
  BY DEF flush_start, At
<1>2. /\ Lined(sends, spool.rows, fate, msg, lockQ) /\ Numbered(fate) /\ Flushed(pc, spool.rows)
      /\ spool.length = Len(spool.rows)
  BY <1>1, Faultless
<1>3. Flushed(pc', spool.rows)
  <2>1. CASE stream
    <3>1. pc' = [pc EXCEPT ![a] = "flush"]
      BY <2>1 DEF flush_start, GoTo
    <3>2. pc'[Conn] \notin {"idle", "ended"}
      BY <2>1, <3>1, Parts DEF stream, Actor
    <3>3. pc'[a] = "flush" /\ \A b \in Actor : b # a => pc'[b] = pc[b] /\ pc[b] \in Away \cup {"lock"}
      BY <1>1, <3>1, Parts, OthersOut DEF Holds
    <3> QED BY <3>2, <3>3 DEF Flushed, Away
  <2>2. CASE ~stream
    <3>1. pc' = [pc EXCEPT ![a] = "spool"]
      BY <2>2 DEF flush_start, GoTo
    <3>2. pc'[a] = "spool" /\ \A b \in Actor : b # a => pc'[b] = pc[b] /\ pc[b] \in Away \cup {"lock"}
      BY <1>1, <3>1, Parts, OthersOut DEF Holds
    <3> QED BY <3>2 DEF Flushed, Away
  <2> QED BY <2>1, <2>2
<1> QED BY <1>1, <1>2, <1>3, OrderlyNext

\* The flush ends, with nothing left in the spool.
LEMMA EndOrder ==
    ASSUME IInv, Orderly, NEW a \in Actor, flush_end(a), faults' = 0
    PROVE  Orderly'
<1>1. /\ Holds(a) /\ pc[a] = "flushed" /\ msg' = msg /\ sends' = sends
      /\ \/ a = Conn /\ pc' = [pc EXCEPT ![a] = "read"] /\ lockQ' = Tail(lockQ)
         \/ a # Conn /\ pc' = [pc EXCEPT ![a] = "publish"] /\ lockQ' = lockQ
  BY DEF flush_end, At, GoTo
<1>2. faults = 0 /\ spool' = spool /\ fate' = fate
  <2>1. CASE spool.length = 0
    <3>1. PICK o \in vacuum(spool) : Did(o) /\ fate' = Wiped(o)
      BY <2>1 DEF flush_end
    <3>2. /\ o.fault \in BOOLEAN /\ (Untouched(spool, o) \/ Emptied(spool, o))
          /\ ~o.fault => o.d = spool
      BY Parts, VacuumCases
    <3>3. ~o.fault /\ faults = 0
      BY <3>1, <3>2, Faultless
    <3>4. spool' = spool /\ spool.rows = <<>>
      BY <1>1, <3>1, <3>2, <3>3, Faultless DEF Did, Flushed
    <3>5. o.lost = {}
      BY <3>2, <3>4, ToSetEmpty DEF Untouched, Emptied
    <3> QED BY <3>1, <3>3, <3>4, <3>5, NothingWiped
  <2>2. CASE spool.length # 0
    BY <2>2 DEF flush_end
  <2> QED BY <2>1, <2>2
<1>3. /\ Lined(sends, spool.rows, fate, msg, lockQ) /\ Numbered(fate) /\ Flushed(pc, spool.rows)
      /\ spool.length = Len(spool.rows)
  BY <1>2, Faultless
<1>4. spool.rows = <<>> /\ pc[Conn] \notin {"idle", "ended"}
  BY <1>1, <1>3 DEF Flushed
<1>5. CASE a = Conn /\ pc' = [pc EXCEPT ![a] = "read"] /\ lockQ' = Tail(lockQ)
  <2>1. HandsSorted(lockQ, msg)
    BY <1>3 DEF Lined
  <2>2. HandsSorted(Tail(lockQ), msg)
    BY <1>1, <2>1, HandsTail
  <2>3. Lined(sends, spool.rows, fate, msg, Tail(lockQ))
    BY <1>3, <2>2 DEF Lined
  <2>4. Lined(sends', (spool').rows, fate', msg', lockQ')
    BY <1>1, <1>2, <1>5, <2>3
  <2>5. Flushed(pc', spool.rows)
    BY <1>1, <1>5, FlushedMoves, ZenonT(30)
  <2> QED BY <1>2, <1>3, <2>4, <2>5, OrderlyNext
<1>6. CASE a # Conn /\ pc' = [pc EXCEPT ![a] = "publish"] /\ lockQ' = lockQ
  <2>1. pc'[Conn] \notin {"idle", "ended"}
    BY <1>4, <1>6, Parts DEF Actor
  <2>2. Flushed(pc', spool.rows)
    BY <1>1, <1>4, <1>6, <2>1, FlushedMoves
  <2> QED BY <1>1, <1>2, <1>3, <1>6, <2>2, OrderlyNext
<1> QED BY <1>1, <1>5, <1>6

\* The session begins; its end and that of the daemon are failures.
LEMMA SessionOrder ==
    ASSUME IInv, Orderly, connect \/ send_cloud_event \/ session_ends \/ crash, faults' = 0
    PROVE  Orderly'
<1>1. ~Fault
  BY Faultless
<1>2. Conn \in Actor /\ Conn \notin Publisher
  BY SpoolConstants DEF Actor, Publisher
<1>3. /\ faults = 0 /\ spool' = spool /\ fate' = fate /\ sends' = sends /\ msg' = msg
      /\ \/ pc[Conn] = "idle" /\ pc' = [pc EXCEPT ![Conn] = "event"] /\ lockQ' = lockQ
         \/ /\ pc[Conn] = "event" /\ pc' = [pc EXCEPT ![Conn] = "lock"]
            /\ lockQ' = Append(lockQ, Conn)
  BY <1>1 DEF connect, send_cloud_event, session_ends, crash, GoTo
<1>4. /\ Lined(sends, spool.rows, fate, msg, lockQ) /\ Numbered(fate) /\ Flushed(pc, spool.rows)
      /\ spool.length = Len(spool.rows)
  BY <1>3, Faultless
<1>5. HandsSorted(lockQ', msg)
  <2>1. HandsSorted(lockQ, msg)
    BY <1>4 DEF Lined
  <2>2. CASE lockQ' = lockQ
    BY <2>1, <2>2
  <2>3. CASE pc[Conn] = "event" /\ lockQ' = Append(lockQ, Conn)
    <3>1. HandsSorted(Append(lockQ, Conn), msg)
      BY <1>2, <2>1, <2>3, HandsAppend DEF Away
    <3> QED BY <2>3, <3>1
  <2> QED BY <1>3, <2>2, <2>3
<1>6. Lined(sends, spool.rows, fate, msg, lockQ')
  BY <1>4, <1>5 DEF Lined
<1>7. Lined(sends', (spool').rows, fate', msg', lockQ')
  BY <1>3, <1>6
<1>8. pc'[Conn] \in {"event", "lock"} /\ \A b \in Actor : b # Conn => pc'[b] = pc[b]
  BY <1>2, <1>3, Parts
<1>9. Flushed(pc', spool.rows)
  BY <1>4, <1>8 DEF Flushed
<1> QED BY <1>3, <1>4, <1>7, <1>9, OrderlyNext

\* The rows an earlier run left come first, in their order.
LEMMA InitOrderly ==
    ASSUME Init
    PROVE  Orderly
<1>1. PICK rows \in Leftovers :
         /\ spool = Opened(rows)
         /\ fate = [m \in Msg |-> IF m \in ToSet(rows) THEN "kept" ELSE "new"]
  BY DEF Init
<1>2. /\ spool.rows = rows /\ spool.length = Len(rows)
  BY <1>1 DEF Opened
<1>3. /\ rows \in Seq(Row)
      /\ \A i, j \in 1 .. Len(rows) : i < j /\ rows[i] # Bad /\ rows[j] # Bad => rows[i] < rows[j]
      /\ \A i \in 1 .. Len(rows), n \in Msg :
            rows[i] # Bad /\ n < rows[i] => \E j \in 1 .. Len(rows) : rows[j] = n
  BY SpoolConstants DEF Row, Msg
<1>4. \A x : x \in ToSet(rows) <=> \E i \in 1 .. Len(rows) : rows[i] = x
  BY <1>3, ToSetIndex
<1>5. /\ sends = <<>> /\ lockQ = <<>> /\ Len(sends) = 0 /\ Len(lockQ) = 0
      /\ pc = [a \in Actor |-> "idle"] /\ \A x \in Publisher : msg[x] = NoItem
  BY DEF Init
<1>6. RowsSorted(rows)
  BY <1>3 DEF RowsSorted
<1>7. /\ SendsSorted(sends) /\ SendsBeforeRows(sends, rows, fate) /\ SendsBeforeHands(sends, msg)
      /\ HandsSorted(lockQ, msg)
  BY <1>5 DEF SendsSorted, SendsBeforeRows, SendsBeforeHands, HandsSorted
<1>8. RowsBeforeHands(rows, msg)
  BY <1>5 DEF RowsBeforeHands
<1>9. Numbered(fate)
  <2>1. SUFFICES ASSUME NEW m \in Msg, NEW n \in Msg, fate[n] = "new", fate[m] # "new"
                 PROVE  m < n
    BY DEF Numbered
  <2>2. n \notin ToSet(rows) /\ m \in ToSet(rows)
    BY <1>1, <2>1
  <2>3. PICK i \in 1 .. Len(rows) : rows[i] = m
    BY <1>4, <2>2
  <2>4. m # Bad
    BY SpoolConstants DEF Msg
  <2>5. ~(n < m)
    BY <1>3, <1>4, <2>2, <2>3, <2>4
  <2>6. m # n /\ m \in Nat /\ n \in Nat
    BY <2>2, SpoolConstants DEF Msg
  <2> QED BY <2>5, <2>6
<1>10. Flushed(pc, rows)
  BY <1>5 DEF Flushed
<1> QED BY <1>2, <1>6, <1>7, <1>8, <1>9, <1>10 DEF Orderly, Lined

\* No step of the daemon breaks the order, unless it fails.
LEMMA NextOrderly ==
    ASSUME IInv, Paid, Orderly, [Next]_vars
    PROVE  Orderly'
<1>1. CASE faults' # 0
  BY <1>1 DEF Orderly
<1>2. CASE faults' = 0
  <2>1. CASE UNCHANGED vars
    BY <2>1 DEF vars, Orderly, Lined, Numbered, Flushed, SendsSorted, RowsSorted,
                SendsBeforeRows, RowsBeforeHands, SendsBeforeHands, HandsSorted
  <2>2. ASSUME NEW p \in Publisher, enqueue_cloud(p) PROVE Orderly'
    BY <1>2, <2>2, EnqueueOrder
  <2>3. ASSUME NEW a \in Actor, Step(a) PROVE Orderly'
    BY <1>2, <2>3, StartOrder, PeekOrder, ResendOrder, PopOrder, EndOrder, PublishOrder,
       TrimOrder, KeepOrder DEF Step
  <2>4. CASE connect \/ send_cloud_event \/ session_ends \/ crash
    BY <1>2, <2>4, SessionOrder
  <2> QED BY <2>1, <2>2, <2>3, <2>4 DEF Next
<1> QED BY <1>1, <1>2

\* While neither the stream, the database nor the daemon fails, the messages reach the
\* cloud once each and in the order of their calls of enqueue_cloud, those spooled by an
\* earlier run first, whatever the publishers' interleaving with the session's own flush.
THEOREM SentInOrder == Spec => []OnceAndInOrder
<1>1. Init => Orderly
  BY InitOrderly
<1>2. IInv /\ Paid /\ Orderly /\ [Next]_vars => Orderly'
  BY NextOrderly
<1>3. Orderly => OnceAndInOrder
  BY DEF Orderly, OnceAndInOrder, Lined, SendsSorted
<1> QED BY <1>1, <1>2, <1>3, SpoolInvariant, SpoolPaid, PTL DEF Spec
=============================================================================
