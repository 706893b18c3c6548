--------------------------- MODULE RequestsProofs ---------------------------
(***************************************************************************)
(* Proofs about Requests, for any calls, correlation data, limits and bounds. *)
(***************************************************************************)
EXTENDS Requests, QueueLemmas

Place == {"new", "called", "slot", "answer", "send", "pin", "read", "sends", "refused", "reading",
          "take", "took", "write", "wrote", "post", "waits", "done"}
Deque(S) == [rows : Seq(S), length : Nat]
Frame == [kind : {"pin", "chunk", "end"}, of : Call]

Types ==
    /\ who \in Setups /\ pc \in [Call -> Place] /\ ipc \in [Corr -> Call \cup {0}]
    /\ box \in [Call -> Answer] /\ flowQ \in Seq(Call) /\ attempts \in 0 .. MaxAttempts
    /\ readQ \in Seq(Call) /\ read \in [open : BOOLEAN, done : BOOLEAN, chunks : Seq(Call)]
    /\ wire \in Seq(Frame) /\ pending \in Seq(Call) /\ Len(pending) <= PinLimit
    /\ upset \in BOOLEAN

\* A call is one that somebody makes.
Known(p, q) ==
    /\ \A n \in Call : p[n] # "new" => n \in DOMAIN who
    /\ \A i \in 1 .. Len(q) : p[q[i]] # "new"

\* The queue registered for correlation data is that of a call that uses it.
Registered(r) == \A c \in Corr : r[c] # 0 => r[c] \in DOMAIN who /\ who[r[c]].corr = c

\* A reader of the mailbox holds one of its messages; any other text is for an answer.
Texts(p, t, k) ==
    \A n \in Call : IF p[n] = "took" THEN \E i \in 1 .. k : t[n] = <<i>> ELSE t[n] \in Seq(Call)

\* _flow_lock lists the calls that send, and its holder alone transmits a pin read.
Sending(p) == {n \in Call : p[n] \in {"send", "post", "pin"}}
Flow(p, q, a) ==
    /\ Lists(q, Sending(p))
    /\ a > 0 => q # <<>> /\ p[Head(q)] = "pin"

\* _mcu_read_lock lists the calls that read a file, and only its holder is past the wait.
AtRead == {"read", "sends", "refused", "reading"}
Readers(p, r) ==
    /\ Lists(r, ToSet(r))
    /\ \A n \in ToSet(r) : p[n] = "read" \/ (n = Head(r) /\ p[n] \in AtRead \cup {"answer"})
    /\ \A n \in Call : p[n] \in AtRead => n \in ToSet(r)

\* The rows of the incoming mailbox are messages in the order of their numbers, and after
\* each come no more rows than messages were pushed after it.
Incoming(q, k, g, c) ==
    /\ q \in Deque(1 .. k) /\ g \subseteq 1 .. k
    /\ \A i, j \in 1 .. Len(q.rows) : i < j => q.rows[i] < q.rows[j]
    /\ \A i \in 1 .. Len(q.rows) : q.rows[i] + (Len(q.rows) - i) <= k
    /\ q.length <= Len(q.rows) + c
    /\ \A i \in 1 .. k : i \in ToSet(q.rows) \/ i \in g \/ i + MaxLen <= k + c

\* A call that wrote a message for the MCU is here from then on.
Past == {"post", "waits", "done"}

\* A message for the MCU is a row at most once, and its call has written it.
Outgoing(q, p, c) ==
    /\ q \in Deque(Call)
    /\ \A i, j \in 1 .. Len(q.rows) : q.rows[i] = q.rows[j] => i = j
    /\ \A i \in 1 .. Len(q.rows) : p[q.rows[i]] \in Past
    /\ q.length <= Len(q.rows) + c

\* _read_loop does one thing at a time.
Loop ==
    /\ popping \in Call \cup {0} /\ pushing \in BOOLEAN /\ pushed \in 0 .. MaxPush
    /\ pushing => popping = 0 /\ pushed < MaxPush
    /\ cut \in [incoming : Nat, outgoing : Nat]

IInv ==
    /\ Types /\ Known(pc, pending) /\ Registered(ipc)
    /\ text \in [Call -> Seq(Nat)] /\ Texts(pc, text, pushed)
    /\ Flow(pc, flowQ, attempts) /\ Readers(pc, readQ)
    /\ Incoming(incoming, pushed, given, cut.incoming) /\ Outgoing(outgoing, pc, cut.outgoing)
    /\ Loop

\* While no response was lost or came late: the pin reads wait in the order in which their
\* calls wait for the lock, ...
PinSet(p) == {n \in Call : p[n] = "pin"}
PinOrder(p, f, d) ==
    /\ Lists(d, PinSet(p))
    /\ \A i, j \in 1 .. Len(d), k, l \in 1 .. Len(f) : i < j /\ f[k] = d[i] /\ f[l] = d[j] => k < l

\* ... the only response of a pin read is for the holder, ...
PinFrames(w, a, f) ==
    /\ \A i \in 1 .. Len(w) : w[i].kind = "pin" => a > 0 /\ w[i].of = Head(f)
    /\ \A i, j \in 1 .. Len(w) : w[i].kind = "pin" /\ w[j].kind = "pin" => i = j

\* ... what is left of the response to a file read completes what was received, ...
Only(w, S) == \A i \in 1 .. Len(w) : w[i].kind # "pin" => i \in S
Rest(n, r, w) ==
    \/ ~r.done /\ r.chunks = <<>> /\ \E i, j \in 1 .. Len(w) :
          /\ i < j /\ Only(w, {i, j})
          /\ w[i].kind = "chunk" /\ w[i].of = n /\ w[j].kind = "end" /\ w[j].of = n
    \/ ~r.done /\ r.chunks = <<n>> /\ \E i \in 1 .. Len(w) :
          Only(w, {i}) /\ w[i].kind = "end" /\ w[i].of = n
    \/ r.done /\ r.chunks = <<n>> /\ Only(w, {})
FileFrames(p, r, w) ==
    /\ \A n \in Call : p[n] = "sends" => r = [open |-> TRUE, done |-> FALSE, chunks |-> <<>>]
    /\ \A n \in Call : p[n] = "reading" => r.open /\ Rest(n, r, w)
    /\ (\A n \in Call : p[n] # "reading") => Only(w, {})

\* ... and the text of a call is its own.
Own(p, t) == \A n \in Call : p[n] # "took" => t[n] = <<n>>

Quiet ==
    /\ PinOrder(pc, flowQ, pending) /\ PinFrames(wire, attempts, flowQ)
    /\ FileFrames(pc, read, wire) /\ Own(pc, text)
Calm == ~upset => Quiet
----------------------------------------------------------------------------
(* The rows of a mailbox *)

\* An empty sequence has no elements.
LEMMA ToSetEmpty == ToSet(<<>>) = {}
  BY DEF ToSet

\* A deletion by id removes one row, at d, or none (d is behind the last).
RemovedAt(s, e, d) ==
    \/ d = Len(s) + 1 /\ RemoveFirst(s, e) = s /\ \A k \in 1 .. Len(s) : s[k] # e
    \/ d \in 1 .. Len(s) /\ s[d] = e /\ RemoveFirst(s, e) = RemoveAt(s, d)

\* There is one such place.
LEMMA RemovedPlace ==
    ASSUME NEW S, NEW s \in Seq(S), NEW e, \A i, k \in 1 .. Len(s) : s[i] = s[k] => i = k
    PROVE  \E d \in 1 .. Len(s) + 1 : RemovedAt(s, e, d)
<1>1. CASE \A k \in 1 .. Len(s) : s[k] # e
  <2>1. RemoveFirst(s, e) = s
    BY <1>1 DEF RemoveFirst
  <2> QED BY <1>1, <2>1 DEF RemovedAt
<1>2. CASE \E d \in 1 .. Len(s) : s[d] = e
  <2>1. PICK d \in 1 .. Len(s) : s[d] = e
    BY <1>2
  <2>2. RemoveFirst(s, e) = RemoveAt(s, d)
    BY <2>1, RemoveFirstOne
  <2>3. d \in 1 .. Len(s) + 1
    OBVIOUS
  <2> QED BY <2>1, <2>2, <2>3 DEF RemovedAt
<1> QED BY <1>1, <1>2

\* The rows that are left, and where they were.
LEMMA RemovedRows ==
    ASSUME NEW S, NEW s \in Seq(S), NEW e, NEW d \in 1 .. Len(s) + 1, RemovedAt(s, e, d), NEW r,
           r = RemoveFirst(s, e)
    PROVE  /\ r \in Seq(S) /\ Len(s) \in Nat /\ Len(r) \in Nat
           /\ Len(r) = IF d = Len(s) + 1 THEN Len(s) ELSE Len(s) - 1
           /\ \A k \in 1 .. Len(r) : \/ k < d /\ k \in 1 .. Len(s) /\ r[k] = s[k]
                                     \/ k >= d /\ k + 1 \in 1 .. Len(s) /\ r[k] = s[k + 1]
           /\ \A k \in 1 .. Len(s) : \/ k < d /\ k \in 1 .. Len(r) /\ r[k] = s[k]
                                     \/ k > d /\ k - 1 \in 1 .. Len(r) /\ r[k - 1] = s[k]
                                     \/ k = d /\ s[k] = e
<1>1. CASE d = Len(s) + 1 /\ r = s
  BY <1>1
<1>2. CASE d \in 1 .. Len(s) /\ s[d] = e /\ r = RemoveAt(s, d)
  <2>1. /\ r \in Seq(S) /\ Len(r) = Len(s) - 1 /\ Len(s) \in Nat
        /\ \A k \in 1 .. Len(s) - 1 : r[k] = IF k < d THEN s[k] ELSE s[k + 1]
    <3>1. /\ RemoveAt(s, d) \in Seq(S) /\ Len(RemoveAt(s, d)) = Len(s) - 1
          /\ \A k \in 1 .. Len(s) - 1 : RemoveAt(s, d)[k] = IF k < d THEN s[k] ELSE s[k + 1]
      BY <1>2, RemoveIndex
    <3> QED BY <1>2, <3>1
  <2>2. \A k \in 1 .. Len(r) : \/ k < d /\ k \in 1 .. Len(s) /\ r[k] = s[k]
                               \/ k >= d /\ k + 1 \in 1 .. Len(s) /\ r[k] = s[k + 1]
    BY <1>2, <2>1
  <2>3. \A k \in 1 .. Len(s) : \/ k < d /\ k \in 1 .. Len(r) /\ r[k] = s[k]
                               \/ k > d /\ k - 1 \in 1 .. Len(r) /\ r[k - 1] = s[k]
                               \/ k = d /\ s[k] = e
    BY <1>2, <2>1
  <2> QED BY <1>2, <2>1, <2>2, <2>3
<1> QED BY <1>1, <1>2 DEF RemovedAt

\* The rows an append deletes, from the oldest on.
Dropped(q) == IF q.length + 1 > MaxLen THEN q.length + 1 - MaxLen ELSE 0

\* r is what q becomes with x behind its rows, a, and the first f of these deleted.
Follows(q, x, a, f, r) ==
    /\ r.length = q.length + 1 - f /\ f \in Nat /\ q.length \in Nat
    /\ Len(q.rows) \in Nat /\ Len(a) = Len(q.rows) + 1 /\ a[Len(a)] = x
    /\ Len(r.rows) = IF f <= Len(a) THEN Len(a) - f ELSE 0
    /\ \A i \in 1 .. Len(q.rows) : a[i] = q.rows[i]
    /\ \A i \in 1 .. Len(r.rows) : i + f \in 1 .. Len(a) /\ r.rows[i] = a[i + f]
    /\ f > 0 => f = q.length + 1 - MaxLen

\* So an append ends.
LEMMA AppendedRows ==
    ASSUME NEW S, NEW q \in Deque(S), NEW x \in S, NEW a, a = Append(q.rows, x), NEW f, f = Dropped(q),
           NEW r, r = append_impl(q, x)
    PROVE  r \in Deque(S) /\ Follows(q, x, a, f, r)
<1>1. /\ q.rows \in Seq(S) /\ q.length \in Nat /\ MaxLen \in Nat
  BY DequeConstants DEF Deque
<1>2. /\ a \in Seq(S) /\ Len(a) = Len(q.rows) + 1 /\ Len(q.rows) \in Nat /\ a[Len(a)] = x
      /\ \A i \in 1 .. Len(q.rows) : a[i] = q.rows[i]
  BY <1>1
<1>3. f \in Nat /\ (f > 0 => f = q.length + 1 - MaxLen)
  BY <1>1 DEF Dropped
<1>4. CASE q.length + 1 > MaxLen
  <2> DEFINE b == SubSeq(a, f + 1, Len(a))
  <2>1. q.rows \o <<x>> = a
    BY <1>1, <1>2
  <2>2. f + 1 = q.length + 2 - MaxLen
    BY <1>1, <1>4 DEF Dropped
  <2>3. r = [rows |-> b, length |-> MaxLen]
    BY <1>2, <1>4, <2>1, <2>2 DEF append_impl
  <2>4. /\ b \in Seq(S) /\ Len(b) = IF f <= Len(a) THEN Len(a) - f ELSE 0
        /\ \A i \in 1 .. Len(b) : i + f \in 1 .. Len(a) /\ b[i] = a[i + f]
    BY <1>2, <1>3, DropFront, ZenonT(30)
  <2>5. q.length + 1 - f = MaxLen
    BY <1>1, <1>4 DEF Dropped
  <2> HIDE DEF b
  <2>6. r \in Deque(S) /\ r.rows = b /\ r.length = MaxLen
    BY <1>1, <2>3, <2>4 DEF Deque
  <2> QED BY <1>1, <1>2, <1>3, <2>4, <2>5, <2>6 DEF Follows
<1>5. CASE ~(q.length + 1 > MaxLen)
  <2>1. r = [rows |-> a, length |-> q.length + 1] /\ f = 0
    BY <1>5 DEF append_impl, Dropped
  <2>2. r \in Deque(S) /\ r.rows = a /\ r.length = q.length + 1
    BY <1>1, <1>2, <2>1 DEF Deque
  <2> QED BY <1>1, <1>2, <2>1, <2>2 DEF Follows
<1> QED BY <1>4, <1>5

\* The next message is pushed: one that is replaced has MaxLen newer ones, but for the appends
\* that were cut.
LEMMA IncomingAppend ==
    ASSUME NEW q, NEW k \in Nat, NEW g, NEW c \in Nat, Incoming(q, k, g, c), NEW r,
           r = append_impl(q, k + 1)
    PROVE  Incoming(r, k + 1, g, c)
<1> DEFINE a == Append(q.rows, k + 1)
           f == Dropped(q)
           n == Len(q.rows)
           t == r.rows
<1>1. /\ q \in Deque(1 .. k + 1) /\ q.rows \in Seq(1 .. k + 1) /\ q.length \in Nat
      /\ \A i \in 1 .. n : q.rows[i] \in 1 .. k
  BY DEF Incoming, Deque
<1>2. /\ r \in Deque(1 .. k + 1) /\ r.length = q.length + 1 - f /\ f \in Nat
      /\ n \in Nat /\ Len(a) = n + 1 /\ a[n + 1] = k + 1
      /\ Len(t) = IF f <= Len(a) THEN Len(a) - f ELSE 0
      /\ \A i \in 1 .. n : a[i] = q.rows[i]
      /\ \A i \in 1 .. Len(t) : i + f \in 1 .. Len(a) /\ t[i] = a[i + f]
      /\ f > 0 => f = q.length + 1 - MaxLen
  <2>1. k + 1 \in 1 .. k + 1
    OBVIOUS
  <2> DEFINE S == 1 .. k + 1
             x == k + 1
  <2>2. /\ a = Append(q.rows, x) /\ f = Dropped(q) /\ r = append_impl(q, x) /\ x \in S
        /\ q \in Deque(S)
    BY <1>1, <2>1
  <2> HIDE DEF a, f, n, t, S, x
  <2>5. r \in Deque(S) /\ Follows(q, x, a, f, r)
    BY <2>2, AppendedRows
  <2>3. /\ r \in Deque(S) /\ r.length = q.length + 1 - f /\ f \in Nat
        /\ Len(q.rows) \in Nat /\ Len(a) = Len(q.rows) + 1 /\ a[Len(a)] = x
        /\ Len(r.rows) = IF f <= Len(a) THEN Len(a) - f ELSE 0
        /\ \A i \in 1 .. Len(q.rows) : a[i] = q.rows[i]
        /\ \A i \in 1 .. Len(r.rows) : i + f \in 1 .. Len(a) /\ r.rows[i] = a[i + f]
        /\ f > 0 => f = q.length + 1 - MaxLen
    BY <2>5 DEF Follows
  <2>4. a[n + 1] = k + 1
    BY <2>3 DEF n, x
  <2> QED BY <2>3, <2>4 DEF n, t, S
<1>3. /\ \A i, j \in 1 .. n : i < j => q.rows[i] < q.rows[j]
      /\ \A i \in 1 .. n : q.rows[i] + (n - i) <= k
      /\ q.length <= n + c
      /\ \A i \in 1 .. k : (\E j \in 1 .. n : q.rows[j] = i) \/ i \in g \/ i + MaxLen <= k + c
  <2>1. \A x : x \in ToSet(q.rows) <=> \E i \in 1 .. n : q.rows[i] = x
    BY <1>1, ToSetIndex
  <2> QED BY <2>1 DEF Incoming
<1>4. MaxLen \in Nat /\ t \in Seq(1 .. k + 1) /\ Len(t) \in Nat
  BY <1>2, DequeConstants DEF Deque
<1>5. \A x : x \in ToSet(t) <=> \E i \in 1 .. Len(t) : t[i] = x
  BY <1>4, ToSetIndex
<1> HIDE DEF a, f, n, t
<1>6. \A i \in 1 .. n + 1 : (i \in 1 .. n /\ a[i] = q.rows[i]) \/ (i = n + 1 /\ a[i] = k + 1)
  BY <1>2
<1>7. \A i, j \in 1 .. n + 1 : i < j => a[i] < a[j]
  <2>1. SUFFICES ASSUME NEW i \in 1 .. n + 1, NEW j \in 1 .. n + 1, i < j PROVE a[i] < a[j]
    OBVIOUS
  <2>2. i \in 1 .. n /\ a[i] = q.rows[i]
    <3>1. n \in Nat /\ \A l \in 1 .. n : a[l] = q.rows[l]
      BY <1>2
    <3>2. i \in 1 .. n
      BY <2>1, <3>1
    <3> QED BY <3>1, <3>2
  <2>3. a[i] \in 1 .. k
    BY <1>1, <2>2
  <2>4. CASE j \in 1 .. n /\ a[j] = q.rows[j]
    BY <1>3, <2>1, <2>2, <2>4
  <2>5. CASE j = n + 1 /\ a[j] = k + 1
    BY <2>3, <2>5
  <2> QED BY <1>6, <2>4, <2>5
<1>8. \A i \in 1 .. n + 1 : a[i] + (n + 1 - i) <= k + 1
  <2>1. SUFFICES ASSUME NEW i \in 1 .. n + 1 PROVE a[i] + (n + 1 - i) <= k + 1
    OBVIOUS
  <2>2. CASE i \in 1 .. n /\ a[i] = q.rows[i]
    <3>1. q.rows[i] + (n - i) <= k /\ q.rows[i] \in 1 .. k
      BY <1>1, <1>3, <2>2
    <3> QED BY <1>2, <2>2, <3>1
  <2>3. CASE i = n + 1 /\ a[i] = k + 1
    BY <1>2, <2>3
  <2> QED BY <1>6, <2>2, <2>3
<1>9. \A i, j \in 1 .. Len(t) : i < j => t[i] < t[j]
  <2>1. SUFFICES ASSUME NEW i \in 1 .. Len(t), NEW j \in 1 .. Len(t), i < j PROVE t[i] < t[j]
    OBVIOUS
  <2>2. /\ i + f \in 1 .. n + 1 /\ j + f \in 1 .. n + 1 /\ i + f < j + f
        /\ t[i] = a[i + f] /\ t[j] = a[j + f]
    BY <1>2, <2>1
  <2> QED BY <1>7, <2>2
<1>10. \A i \in 1 .. Len(t) : t[i] + (Len(t) - i) <= k + 1
  <2>1. SUFFICES ASSUME NEW i \in 1 .. Len(t) PROVE t[i] + (Len(t) - i) <= k + 1
    OBVIOUS
  <2>2. /\ i + f \in 1 .. n + 1 /\ t[i] = a[i + f] /\ Len(t) - i = n + 1 - (i + f)
    BY <1>2
  <2> QED BY <1>8, <2>2
<1>11. f > Len(a) => MaxLen <= c
  BY <1>1, <1>2, <1>3, <1>4
<1>12. r.length <= Len(t) + c
  BY <1>1, <1>2, <1>3, <1>4
<1>13. \A i \in 1 .. k + 1 : i \in ToSet(t) \/ i \in g \/ i + MaxLen <= k + 1 + c
  <2>1. SUFFICES ASSUME NEW i \in 1 .. k + 1, i \notin g PROVE i \in ToSet(t) \/ i + MaxLen <= k + 1 + c
    OBVIOUS
  <2>2. ASSUME NEW j \in 1 .. n + 1, a[j] = i PROVE i \in ToSet(t) \/ i + MaxLen <= k + 1 + c
    <3>1. CASE j > f
      <4>1. j - f \in 1 .. Len(t) /\ (j - f) + f = j
        BY <1>2, <1>4, <3>1
      <4>2. t[j - f] = i
        BY <1>2, <2>2, <4>1
      <4> QED BY <1>5, <4>1, <4>2
    <3>2. CASE ~(j > f)
      <4>1. i + (n + 1 - j) <= k + 1
        BY <1>8, <2>2
      <4>2. f = q.length + 1 - MaxLen
        BY <1>2, <3>2
      <4>3. q.length \in Nat /\ q.length <= n + c /\ n \in Nat /\ MaxLen \in Nat /\ f \in Nat
        BY <1>1, <1>2, <1>3, <1>4
      <4> QED BY <3>2, <4>1, <4>2, <4>3
    <3> QED BY <3>1, <3>2
  <2>3. CASE i = k + 1
    BY <1>2, <2>2, <2>3
  <2>4. CASE i \in 1 .. k
    <3>1. CASE i + MaxLen <= k + c
      BY <1>4, <3>1
    <3>2. CASE \E j \in 1 .. n : q.rows[j] = i
      <4>1. PICK j \in 1 .. n : q.rows[j] = i
        BY <3>2
      <4>2. j \in 1 .. n + 1 /\ a[j] = i
        BY <1>2, <4>1
      <4> QED BY <2>2, <4>2
    <3> QED BY <1>3, <2>1, <2>4, <3>1, <3>2
  <2> QED BY <2>3, <2>4
<1>14. g \subseteq 1 .. k + 1
  BY DEF Incoming
<1> QED BY <1>2, <1>9, <1>10, <1>12, <1>13, <1>14 DEF Incoming, t

\* A row is deleted or the count lowered: who was given the row has it.
LEMMA IncomingPop ==
    ASSUME NEW q, NEW k \in Nat, NEW g, NEW c \in Nat, Incoming(q, k, g, c), NEW x, NEW h,
           NEW r \in Abandoned(q, x), g \subseteq h, h \subseteq 1 .. k,
           \A y \in ToSet(q.rows) : y \in ToSet(r.rows) \/ y \in h
    PROVE  Incoming(r, k, h, c)
<1> DEFINE s == q.rows
           t == RemoveFirst(q.rows, x)
           l == IF q.length = 0 THEN 0 ELSE q.length - 1
<1>1. /\ q = [rows |-> s, length |-> q.length] /\ s \in Seq(1 .. k) /\ q.length \in Nat
  BY DEF Incoming, Deque
<1>2. /\ \A i, j \in 1 .. Len(s) : i < j => s[i] < s[j]
      /\ \A i \in 1 .. Len(s) : s[i] + (Len(s) - i) <= k
      /\ q.length <= Len(s) + c /\ l \in Nat /\ l <= q.length
      /\ \A i \in 1 .. k : i \in ToSet(s) \/ i \in g \/ i + MaxLen <= k + c
  BY <1>1 DEF Incoming
<1>3. \A i \in 1 .. k : i \in ToSet(r.rows) \/ i \in h \/ i + MaxLen <= k + c
  BY <1>2
<1>4. \A i, j \in 1 .. Len(s) : s[i] = s[j] => i = j
  <2>1. \A i \in 1 .. Len(s) : s[i] \in Int
    BY <1>1
  <2> QED BY <1>2, <2>1
<1>5. CASE r = q \/ r = [rows |-> s, length |-> l]
  <2>1. r \in Deque(1 .. k) /\ r.rows = s /\ r.length <= q.length /\ r.length \in Nat
    BY <1>1, <1>2, <1>5 DEF Deque
  <2>2. r.length <= Len(s) + c
    BY <1>1, <1>2, <2>1
  <2> QED BY <1>2, <1>3, <2>1, <2>2 DEF Incoming
<1>6. CASE r = [rows |-> t, length |-> l]
  <2>1. PICK d \in 1 .. Len(s) + 1 : RemovedAt(s, x, d)
    BY <1>1, <1>4, RemovedPlace
  <2>2. /\ t \in Seq(1 .. k) /\ Len(s) \in Nat /\ Len(t) \in Nat
        /\ Len(t) = IF d = Len(s) + 1 THEN Len(s) ELSE Len(s) - 1
        /\ \A i \in 1 .. Len(t) : \/ i < d /\ i \in 1 .. Len(s) /\ t[i] = s[i]
                                  \/ i >= d /\ i + 1 \in 1 .. Len(s) /\ t[i] = s[i + 1]
    BY <1>1, <2>1, RemovedRows
  <2>3. r \in Deque(1 .. k) /\ r.rows = t /\ r.length = l
    BY <1>2, <1>6, <2>2 DEF Deque
  <2>4. \A i \in 1 .. Len(s) : s[i] \in Int
    BY <1>1
  <2> HIDE DEF t, s, l
  <2>8. \A i \in 1 .. Len(t) : \/ i < d /\ i \in 1 .. Len(s) /\ t[i] = s[i]
                               \/ i >= d /\ i + 1 \in 1 .. Len(s) /\ t[i] = s[i + 1]
    BY <2>2
  <2>9. Len(t) \in Nat /\ Len(s) \in Nat /\ Len(t) <= Len(s)
    BY <2>2
  <2>5. \A i, j \in 1 .. Len(t) : i < j => t[i] < t[j]
    <3>1. SUFFICES ASSUME NEW i \in 1 .. Len(t), NEW j \in 1 .. Len(t), i < j PROVE t[i] < t[j]
      OBVIOUS
    <3> DEFINE o(y) == IF y < d THEN y ELSE y + 1
    <3>2. /\ o(i) \in 1 .. Len(s) /\ o(j) \in 1 .. Len(s) /\ t[i] = s[o(i)] /\ t[j] = s[o(j)]
      BY <2>8
    <3>3. o(i) < o(j)
      BY <3>1
    <3> HIDE DEF o
    <3> QED BY <1>2, <3>2, <3>3
  <2>6. \A i \in 1 .. Len(t) : t[i] + (Len(t) - i) <= k
    <3>1. SUFFICES ASSUME NEW i \in 1 .. Len(t) PROVE t[i] + (Len(t) - i) <= k
      OBVIOUS
    <3>2. CASE i < d /\ i \in 1 .. Len(s) /\ t[i] = s[i]
      <4>1. s[i] + (Len(s) - i) <= k /\ s[i] \in Int
        BY <1>2, <2>4, <3>2
      <4> QED BY <2>9, <3>2, <4>1
    <3>3. CASE i >= d /\ i + 1 \in 1 .. Len(s) /\ t[i] = s[i + 1]
      <4>1. s[i + 1] + (Len(s) - (i + 1)) <= k /\ s[i + 1] \in Int
        BY <1>2, <2>4, <3>3
      <4>2. Len(t) = Len(s) - 1
        BY <2>2, <3>3
      <4> QED BY <2>2, <3>3, <4>1, <4>2
    <3> QED BY <2>2, <3>2, <3>3
  <2>7. l <= Len(t) + c
    <3>1. l = IF q.length = 0 THEN 0 ELSE q.length - 1
      BY DEF l
    <3> QED BY <1>1, <1>2, <2>2, <3>1
  <2> QED BY <1>3, <2>3, <2>5, <2>6, <2>7 DEF Incoming
<1>7. Abandoned(q, x) = {q, [rows |-> s, length |-> l], [rows |-> t, length |-> l]}
  BY <1>1 DEF Abandoned, Popped
<1> QED BY <1>5, <1>6, <1>7

\* The calls that wrote go on.
LEMMA OutgoingKept ==
    ASSUME NEW q, NEW p, NEW c \in Nat, Outgoing(q, p, c), NEW u,
           \A n \in Call : p[n] \in Past => u[n] \in Past
    PROVE  Outgoing(q, u, c)
<1>1. \A i \in 1 .. Len(q.rows) : q.rows[i] \in Call
  BY DEF Outgoing, Deque
<1> QED BY <1>1 DEF Outgoing, Past

\* A message is appended by its call, which wrote none before.
LEMMA OutgoingAppend ==
    ASSUME NEW q, NEW p, NEW c \in Nat, Outgoing(q, p, c), NEW n \in Call, p[n] = "wrote", NEW u,
           u[n] \in Past, \A m \in Call : m # n => u[m] = p[m], NEW r, r = append_impl(q, n)
    PROVE  Outgoing(r, u, c)
<1> DEFINE a == Append(q.rows, n)
           f == Dropped(q)
<1>1. q \in Deque(Call) /\ \A i \in 1 .. Len(q.rows) : q.rows[i] \in Call
  BY DEF Outgoing, Deque
<1>2. a = Append(q.rows, n) /\ f = Dropped(q)
  OBVIOUS
<1> HIDE DEF a, f
<1>3. r \in Deque(Call) /\ Follows(q, n, a, f, r)
  BY <1>1, <1>2, AppendedRows
<1> DEFINE l == Len(q.rows)
<1>4. /\ r.length = q.length + 1 - f /\ f \in Nat /\ q.length \in Nat /\ l \in Nat
      /\ Len(r.rows) = IF f <= l + 1 THEN l + 1 - f ELSE 0
      /\ f > 0 => f = q.length + 1 - MaxLen
  BY <1>3 DEF Follows
<1>5. /\ \A i \in 1 .. Len(r.rows) : i + f \in 1 .. l + 1 /\ r.rows[i] = a[i + f]
      /\ \A i \in 1 .. l + 1 : (i \in 1 .. l /\ a[i] = q.rows[i]) \/ (i = l + 1 /\ a[i] = n)
  BY <1>3 DEF Follows
<1>6. /\ \A i, j \in 1 .. l : q.rows[i] = q.rows[j] => i = j
      /\ \A i \in 1 .. l : p[q.rows[i]] \in Past
      /\ q.length <= l + c
  BY DEF Outgoing, Past
<1> HIDE DEF l
<1>7. \A i \in 1 .. l : q.rows[i] # n /\ q.rows[i] \in Call
  BY <1>1, <1>6 DEF Past, l
<1>8. /\ \A i, j \in 1 .. l + 1 : a[i] = a[j] => i = j
      /\ \A i \in 1 .. l + 1 : u[a[i]] \in Past
  BY <1>5, <1>6, <1>7
<1>9. \A i, j \in 1 .. Len(r.rows) : r.rows[i] = r.rows[j] => i = j
  <2>1. SUFFICES ASSUME NEW i \in 1 .. Len(r.rows), NEW j \in 1 .. Len(r.rows), r.rows[i] = r.rows[j]
                 PROVE  i = j
    OBVIOUS
  <2>2. i + f \in 1 .. l + 1 /\ j + f \in 1 .. l + 1 /\ a[i + f] = a[j + f]
    BY <1>5, <2>1
  <2>3. i + f = j + f
    BY <1>8, <2>2
  <2> QED BY <1>4, <2>3
<1>10. \A i \in 1 .. Len(r.rows) : u[r.rows[i]] \in Past
  BY <1>5, <1>8
<1>11. r.length <= Len(r.rows) + c
  BY <1>4, <1>6, DequeConstants
<1> QED BY <1>3, <1>9, <1>10, <1>11 DEF Outgoing, Past

\* A message is deleted or the count lowered.
LEMMA OutgoingPop ==
    ASSUME NEW q, NEW p, NEW c \in Nat, Outgoing(q, p, c), NEW x, NEW r \in Abandoned(q, x)
    PROVE  Outgoing(r, p, c)
<1> DEFINE s == q.rows
           t == RemoveFirst(q.rows, x)
           l == IF q.length = 0 THEN 0 ELSE q.length - 1
<1>1. /\ q = [rows |-> s, length |-> q.length] /\ s \in Seq(Call) /\ q.length \in Nat
  BY DEF Outgoing, Deque
<1>2. /\ \A i, j \in 1 .. Len(s) : s[i] = s[j] => i = j
      /\ \A i \in 1 .. Len(s) : p[s[i]] \in Past
      /\ q.length <= Len(s) + c /\ l \in Nat /\ l <= q.length
  BY <1>1 DEF Outgoing
<1>3. CASE r = q \/ r = [rows |-> s, length |-> l]
  <2>1. r \in Deque(Call) /\ r.rows = s /\ r.length <= q.length /\ r.length \in Nat
    BY <1>1, <1>2, <1>3 DEF Deque
  <2>2. r.length <= Len(s) + c
    BY <1>1, <1>2, <2>1
  <2> QED BY <1>2, <2>1, <2>2 DEF Outgoing
<1>4. CASE r = [rows |-> t, length |-> l]
  <2>1. PICK d \in 1 .. Len(s) + 1 : RemovedAt(s, x, d)
    BY <1>1, <1>2, RemovedPlace
  <2>2. /\ t \in Seq(Call) /\ Len(s) \in Nat /\ Len(t) \in Nat
        /\ Len(t) = IF d = Len(s) + 1 THEN Len(s) ELSE Len(s) - 1
        /\ \A i \in 1 .. Len(t) : \/ i < d /\ i \in 1 .. Len(s) /\ t[i] = s[i]
                                  \/ i >= d /\ i + 1 \in 1 .. Len(s) /\ t[i] = s[i + 1]
    BY <1>1, <2>1, RemovedRows
  <2>3. r \in Deque(Call) /\ r.rows = t /\ r.length = l
    BY <1>2, <1>4, <2>2 DEF Deque
  <2> HIDE DEF t, s, l
  <2>4. \A i \in 1 .. Len(t) : \/ i < d /\ i \in 1 .. Len(s) /\ t[i] = s[i]
                               \/ i >= d /\ i + 1 \in 1 .. Len(s) /\ t[i] = s[i + 1]
    BY <2>2
  <2>5. \A i, j \in 1 .. Len(t) : t[i] = t[j] => i = j
    <3>1. SUFFICES ASSUME NEW i \in 1 .. Len(t), NEW j \in 1 .. Len(t), t[i] = t[j] PROVE i = j
      OBVIOUS
    <3> DEFINE o(y) == IF y < d THEN y ELSE y + 1
    <3>2. /\ o(i) \in 1 .. Len(s) /\ o(j) \in 1 .. Len(s) /\ t[i] = s[o(i)] /\ t[j] = s[o(j)]
      BY <2>4
    <3>3. o(i) = o(j)
      <4> HIDE DEF o
      <4> QED BY <1>2, <3>1, <3>2
    <3> QED BY <3>3
  <2>6. \A i \in 1 .. Len(t) : p[t[i]] \in Past
    BY <1>2, <2>4
  <2>7. l <= Len(t) + c
    <3>1. l = IF q.length = 0 THEN 0 ELSE q.length - 1
      BY DEF l
    <3> QED BY <1>1, <1>2, <2>2, <3>1
  <2> QED BY <2>3, <2>5, <2>6, <2>7 DEF Outgoing
<1>5. Abandoned(q, x) = {q, [rows |-> s, length |-> l], [rows |-> t, length |-> l]}
  BY <1>1 DEF Abandoned, Popped
<1> QED BY <1>3, <1>4, <1>5

\* How a cancelled append can end: done, or with the count alone, which is recorded.
LEMMA CutCases ==
    ASSUME NEW S, NEW q \in Deque(S), NEW x \in S, NEW r \in Cut(q, x)
    PROVE  \/ r = append_impl(q, x) /\ Lost(q, r) = 0
           \/ /\ r = [rows |-> q.rows, length |-> q.length + 1] /\ Lost(q, r) = 1
<1>1. q = [rows |-> q.rows, length |-> q.length] /\ q.rows \in Seq(S) /\ q.length \in Nat
  BY DEF Deque
<1>2. CASE r = append_impl(q, x)
  <2>1. CASE q.length + 1 > MaxLen
    <3>1. r.length = MaxLen
      BY <1>2, <2>1 DEF append_impl
    <3>2. ~(r.length > q.length)
      BY <1>1, <2>1, <3>1, DequeConstants
    <3> QED BY <1>2, <3>2 DEF Lost
  <2>2. CASE ~(q.length + 1 > MaxLen)
    <3>1. r.rows = Append(q.rows, x)
      BY <1>2, <2>2 DEF append_impl
    <3>2. Len(Append(q.rows, x)) = Len(q.rows) + 1 /\ Len(q.rows) \in Nat
      BY <1>1
    <3>3. r.rows # q.rows
      BY <3>1, <3>2
    <3> QED BY <1>2, <3>3 DEF Lost
  <2> QED BY <2>1, <2>2
<1>3. CASE r = [q EXCEPT !.length = @ + 1]
  <2>1. r = [rows |-> q.rows, length |-> q.length + 1]
    BY <1>1, <1>3
  <2>2. r.rows = q.rows /\ r.length > q.length
    BY <1>1, <2>1
  <2> QED BY <2>1, <2>2 DEF Lost
<1> QED BY <1>2, <1>3 DEF Cut

\* The count alone is raised.
LEMMA CountRaised ==
    ASSUME NEW q, NEW r, r = [rows |-> q.rows, length |-> q.length + 1], NEW c \in Nat
    PROVE  /\ \A p : Outgoing(q, p, c) => Outgoing(r, p, c + 1)
           /\ \A k \in Nat : \A g : Incoming(q, k, g, c) => Incoming(r, k, g, c + 1)
<1>1. ASSUME NEW p, Outgoing(q, p, c) PROVE Outgoing(r, p, c + 1)
  <2>1. q.rows \in Seq(Call) /\ q.length \in Nat /\ q.length <= Len(q.rows) + c /\ Len(q.rows) \in Nat
    BY <1>1 DEF Outgoing, Deque
  <2>2. r \in Deque(Call) /\ r.rows = q.rows /\ r.length = q.length + 1
    BY <2>1 DEF Deque
  <2> QED BY <1>1, <2>1, <2>2 DEF Outgoing
<1>2. ASSUME NEW k \in Nat, NEW g, Incoming(q, k, g, c) PROVE Incoming(r, k, g, c + 1)
  <2>1. /\ q.rows \in Seq(1 .. k) /\ q.length \in Nat /\ q.length <= Len(q.rows) + c
        /\ Len(q.rows) \in Nat
    BY <1>2 DEF Incoming, Deque
  <2>2. r \in Deque(1 .. k) /\ r.rows = q.rows /\ r.length = q.length + 1
    BY <2>1 DEF Deque
  <2>3. \A i \in 1 .. k : i \in ToSet(r.rows) \/ i \in g \/ i + MaxLen <= k + (c + 1)
    <3>1. \A i \in 1 .. k : i + MaxLen <= k + c => i + MaxLen <= k + (c + 1)
      BY DequeConstants
    <3>2. \A i \in 1 .. k : i \in ToSet(q.rows) \/ i \in g \/ i + MaxLen <= k + c
      BY <1>2 DEF Incoming
    <3> QED BY <2>2, <3>1, <3>2
  <2>4. r.length <= Len(r.rows) + (c + 1)
    <3> DEFINE n == Len(q.rows)
               l == q.length
    <3>1. n \in Nat /\ l \in Nat /\ l <= n + c
      BY <2>1
    <3>2. Len(r.rows) = n /\ r.length = l + 1
      BY <2>2
    <3> HIDE DEF n, l
    <3>3. l + 1 <= n + (c + 1)
      BY <3>1
    <3> QED BY <3>2, <3>3
  <2> QED BY <1>2, <2>2, <2>3, <2>4 DEF Incoming
<1> QED BY <1>1, <1>2
----------------------------------------------------------------------------
(* The calls and the locks *)

ReadType == [open : BOOLEAN, done : BOOLEAN, chunks : Seq(Call)]

\* The parts of the invariant.
LEMMA Parts ==
    ASSUME IInv
    PROVE  /\ who \in Setups /\ pc \in [Call -> Place] /\ ipc \in [Corr -> Call \cup {0}]
           /\ box \in [Call -> Answer] /\ flowQ \in Seq(Call) /\ attempts \in 0 .. MaxAttempts
           /\ readQ \in Seq(Call) /\ read \in ReadType /\ wire \in Seq(Frame)
           /\ pending \in Seq(Call) /\ Len(pending) <= PinLimit /\ upset \in BOOLEAN
           /\ \A n \in Call : pc[n] # "new" => n \in DOMAIN who
           /\ \A i \in 1 .. Len(pending) : pc[pending[i]] # "new"
           /\ Registered(ipc) /\ text \in [Call -> Seq(Nat)] /\ Texts(pc, text, pushed)
           /\ Flow(pc, flowQ, attempts) /\ Readers(pc, readQ)
           /\ Incoming(incoming, pushed, given, cut.incoming) /\ Outgoing(outgoing, pc, cut.outgoing)
           /\ Loop
  BY DEF IInv, Types, Known, ReadType

\* And back.
LEMMA Assemble ==
    ASSUME who' = who, Types', Known(pc', pending'), Registered(ipc'),
           text' \in [Call -> Seq(Nat)], Texts(pc', text', pushed'),
           Flow(pc', flowQ', attempts'), Readers(pc', readQ'),
           Incoming(incoming', pushed', given', (cut').incoming),
           Outgoing(outgoing', pc', (cut').outgoing), Loop'
    PROVE  IInv'
  BY DEF IInv, Known, Registered, Texts, Flow, Readers, Sending, Incoming, Outgoing

\* What a setup says of a call.
LEMMA Made ==
    ASSUME IInv, NEW n \in DOMAIN who
    PROVE  /\ n \in Call /\ who[n].corr \in Corr \cup {None} /\ None \notin Corr
           /\ who[n].origin \in {"ipc", "cloud"}
  BY Parts, RequestConstants

\* A call of which the mailboxes learn nothing goes on to l.
LEMMA CallStep ==
    ASSUME IInv, NEW n \in DOMAIN who, NEW l \in Place, pc' = [pc EXCEPT ![n] = l], l # "new",
           pc[n] \in Past => l \in Past, who' = who, mail' = mail,
           ipc' \in [Corr -> Call \cup {0}], Registered(ipc'), box' \in [Call -> Answer],
           text' \in [Call -> Seq(Nat)], Texts(pc', text', pushed),
           flowQ' \in Seq(Call), attempts' \in 0 .. MaxAttempts, Flow(pc', flowQ', attempts'),
           readQ' \in Seq(Call), Readers(pc', readQ'), read' \in ReadType, wire' \in Seq(Frame),
           pending' \in Seq(Call), Len(pending') <= PinLimit,
           \A i \in 1 .. Len(pending') : pending'[i] = n \/ pc[pending'[i]] # "new",
           upset' \in BOOLEAN
    PROVE  IInv'
<1>1. n \in Call /\ pc'[n] = l /\ \A m \in Call : m # n => pc'[m] = pc[m]
  BY Made, Parts
<1>2. Types'
  <2>1. pc' \in [Call -> Place]
    BY <1>1, Parts
  <2> QED BY <2>1, Parts DEF Types, ReadType
<1>3. Known(pc', pending')
  <2>1. \A i \in 1 .. Len(pending') : pending'[i] \in Call
    OBVIOUS
  <2> QED BY <1>1, <2>1, Parts DEF Known
<1>4. /\ incoming' = incoming /\ outgoing' = outgoing /\ popping' = popping /\ pushing' = pushing
      /\ pushed' = pushed /\ given' = given /\ cut' = cut
  BY DEF mail, out
<1>5. Loop'
  BY <1>4, Parts DEF Loop
<1>6. cut.outgoing \in Nat /\ \A m \in Call : pc[m] \in Past => pc'[m] \in Past
  BY <1>1, Parts DEF Loop
<1>7. Outgoing(outgoing', pc', (cut').outgoing)
  BY <1>4, <1>6, Parts, OutgoingKept
<1>8. Incoming(incoming', pushed', given', (cut').incoming)
  BY <1>4, Parts
<1> QED BY <1>2, <1>3, <1>4, <1>5, <1>7, <1>8, Assemble

\* A call that holds no message of the mailbox keeps its text.
LEMMA TextKept ==
    ASSUME IInv, NEW n \in Call, NEW l, pc' = [pc EXCEPT ![n] = l], l # "took", pc[n] # "took"
    PROVE  Texts(pc', text, pushed)
  BY Parts DEF Texts

\* The text of a call is made afresh.
LEMMA TextSet ==
    ASSUME IInv, NEW n \in Call, NEW l, pc' = [pc EXCEPT ![n] = l], l # "took", NEW t \in Seq(Call)
    PROVE  /\ [text EXCEPT ![n] = t] \in [Call -> Seq(Nat)]
           /\ Texts(pc', [text EXCEPT ![n] = t], pushed)
<1>1. Call \subseteq Nat
  BY DEF Call
<1>2. t \in Seq(Nat)
  BY <1>1, SeqMonotonic
<1>3. [text EXCEPT ![n] = t] \in [Call -> Seq(Nat)]
  BY <1>2, Parts
<1> QED BY <1>3, Parts DEF Texts

\* A call aside of _flow_lock goes on.
LEMMA FlowAside ==
    ASSUME IInv, NEW n \in Call, NEW l, pc' = [pc EXCEPT ![n] = l],
           pc[n] \notin {"send", "post", "pin"}, l \notin {"send", "post", "pin"}
    PROVE  Flow(pc', flowQ, attempts)
<1>1. pc'[n] = l /\ \A m \in Call : m # n => pc'[m] = pc[m]
  BY Parts
<1>2. Sending(pc') = Sending(pc)
  BY <1>1 DEF Sending
<1>3. attempts > 0 => flowQ # <<>> /\ pc'[Head(flowQ)] = "pin"
  <2>1. SUFFICES ASSUME attempts > 0 PROVE flowQ # <<>> /\ pc'[Head(flowQ)] = "pin"
    OBVIOUS
  <2>2. flowQ # <<>> /\ pc[Head(flowQ)] = "pin"
    BY <2>1, Parts DEF Flow
  <2>3. Head(flowQ) \in Call /\ Head(flowQ) # n
    BY <2>2, Parts, TailIndex
  <2> QED BY <1>1, <2>2, <2>3
<1> QED BY <1>2, <1>3, Parts DEF Flow

\* A call asks for _flow_lock.
LEMMA FlowJoin ==
    ASSUME IInv, NEW n \in Call, NEW l, pc' = [pc EXCEPT ![n] = l],
           pc[n] \notin {"send", "post", "pin"}, l \in {"send", "post", "pin"}
    PROVE  Append(flowQ, n) \in Seq(Call) /\ Flow(pc', Append(flowQ, n), attempts)
<1> DEFINE w == Append(flowQ, n)
<1>1. pc'[n] = l /\ \A m \in Call : m # n => pc'[m] = pc[m]
  BY Parts
<1>2. Sending(pc') = Sending(pc) \cup {n} /\ n \notin Sending(pc)
  BY <1>1 DEF Sending
<1>3. Lists(flowQ, Sending(pc))
  BY Parts DEF Flow
<1>4. w \in Seq(Call) /\ Lists(w, Sending(pc) \cup {n})
  BY <1>2, <1>3, Parts, ListsAppend
<1>5. attempts > 0 => w # <<>> /\ pc'[Head(w)] = "pin"
  <2>1. SUFFICES ASSUME attempts > 0 PROVE w # <<>> /\ pc'[Head(w)] = "pin"
    OBVIOUS
  <2>2. flowQ # <<>> /\ pc[Head(flowQ)] = "pin"
    BY <2>1, Parts DEF Flow
  <2>3. Head(flowQ) \in Call /\ Head(flowQ) # n
    BY <2>2, Parts, TailIndex
  <2>4. Head(w) = Head(flowQ) /\ w # <<>>
    <3>1. Head(flowQ) = flowQ[1] /\ 1 \in 1 .. Len(flowQ)
      BY <2>2, Parts, TailIndex
    <3>2. 1 \in 1 .. Len(w) /\ w[1] = flowQ[1]
      BY <3>1, Parts, AppendIndex
    <3>3. w # <<>>
      BY <1>4, <3>2
    <3>4. Head(w) = w[1]
      BY <1>4, <3>3, TailIndex
    <3> QED BY <3>1, <3>2, <3>3, <3>4
  <2> QED BY <1>1, <2>2, <2>3, <2>4
<1> QED BY <1>2, <1>4, <1>5 DEF Flow

\* The holder leaves _flow_lock.
LEMMA FlowLeave ==
    ASSUME IInv, NEW n \in Call, NEW l, pc' = [pc EXCEPT ![n] = l], Sender(n),
           l \notin {"send", "post", "pin"}
    PROVE  Tail(flowQ) \in Seq(Call) /\ Flow(pc', Tail(flowQ), 0)
<1>1. pc'[n] = l /\ \A m \in Call : m # n => pc'[m] = pc[m]
  BY Parts
<1>2. Sending(pc') = Sending(pc) \ {n}
  BY <1>1 DEF Sending
<1>3. Lists(flowQ, Sending(pc)) /\ flowQ # <<>> /\ Head(flowQ) = n
  BY Parts DEF Flow, Sender
<1> DEFINE w == Tail(flowQ)
<1>4. w \in Seq(Call) /\ Lists(w, Sending(pc) \ {n})
  BY <1>3, Parts, ListsTail
<1> HIDE DEF w
<1>5. Flow(pc', w, 0)
  <2>1. Lists(w, Sending(pc'))
    BY <1>2, <1>4
  <2>2. ~(0 > 0)
    OBVIOUS
  <2> QED BY <2>1, <2>2 DEF Flow
<1> QED BY <1>4, <1>5 DEF w

\* A cancelled call leaves _flow_lock, if it is there.
LEMMA FlowCancel ==
    ASSUME IInv, NEW n \in Call, NEW l, pc' = [pc EXCEPT ![n] = l], l \notin {"send", "post", "pin"}
    PROVE  /\ RemoveFirst(flowQ, n) \in Seq(Call)
           /\ Flow(pc', RemoveFirst(flowQ, n), IF flowQ # <<>> /\ Head(flowQ) = n THEN 0 ELSE attempts)
<1> DEFINE w == RemoveFirst(flowQ, n)
           a == IF flowQ # <<>> /\ Head(flowQ) = n THEN 0 ELSE attempts
<1>1. pc'[n] = l /\ \A m \in Call : m # n => pc'[m] = pc[m]
  BY Parts
<1>2. Sending(pc') = Sending(pc) \ {n}
  BY <1>1 DEF Sending
<1>3. Lists(flowQ, Sending(pc))
  BY Parts DEF Flow
<1>4. /\ w \in Seq(Call) /\ Lists(w, Sending(pc) \ {n})
      /\ flowQ # <<>> /\ Head(flowQ) # n => w # <<>> /\ Head(w) = Head(flowQ)
  <2> DEFINE S == Sending(pc)
  <2>1. Lists(flowQ, S) /\ flowQ \in Seq(Call)
    BY <1>3, Parts
  <2> HIDE DEF S
  <2>2. /\ w \in Seq(Call) /\ Lists(w, S \ {n})
        /\ flowQ # <<>> /\ Head(flowQ) # n => w # <<>> /\ Head(w) = Head(flowQ)
    BY <2>1, ListsRemove
  <2> QED BY <2>2 DEF S
<1> HIDE DEF w
<1>5. a > 0 => w # <<>> /\ pc'[Head(w)] = "pin"
  <2>1. SUFFICES ASSUME a > 0 PROVE w # <<>> /\ pc'[Head(w)] = "pin"
    OBVIOUS
  <2>2. flowQ # <<>> /\ pc[Head(flowQ)] = "pin" /\ Head(flowQ) # n
    BY <2>1, Parts DEF Flow
  <2>3. Head(flowQ) \in Call
    BY <2>2, Parts, TailIndex
  <2> QED BY <1>1, <1>4, <2>2, <2>3
<1> HIDE DEF a
<1>6. Flow(pc', w, a)
  BY <1>2, <1>4, <1>5 DEF Flow
<1> QED BY <1>4, <1>6 DEF w, a

\* A queue without repetitions lists its elements.
LEMMA ListsElements ==
    ASSUME NEW A, NEW S, NEW w \in Seq(A), Lists(w, S)
    PROVE  ToSet(w) = S
<1>1. \A x : x \in ToSet(w) <=> \E i \in 1 .. Len(w) : w[i] = x
  BY ToSetIndex
<1> QED BY <1>1 DEF Lists

\* The head of a queue stays when it grows at its end.
LEMMA HeadStays ==
    ASSUME NEW A, NEW w \in Seq(A), w # <<>>, NEW a \in A
    PROVE  Append(w, a) # <<>> /\ Head(Append(w, a)) = Head(w)
<1> DEFINE v == Append(w, a)
<1>1. Head(w) = w[1] /\ 1 \in 1 .. Len(w)
  BY TailIndex
<1>2. v \in Seq(A) /\ 1 \in 1 .. Len(v) /\ v[1] = w[1]
  BY <1>1, AppendIndex
<1> HIDE DEF v
<1>3. v # <<>>
  BY <1>2
<1>4. Head(v) = v[1]
  BY <1>2, <1>3, TailIndex
<1>5. v # <<>> /\ Head(v) = Head(w)
  BY <1>1, <1>2, <1>3, <1>4
<1> QED BY <1>5 DEF v

\* The elements of a queue of calls are calls.
LEMMA ReadersAreCalls ==
    ASSUME IInv
    PROVE  ToSet(readQ) \subseteq Call
<1>1. readQ \in Seq(Call)
  BY Parts
<1>2. \A x : x \in ToSet(readQ) <=> \E i \in 1 .. Len(readQ) : readQ[i] = x
  BY <1>1, ToSetIndex
<1> QED BY <1>1, <1>2

\* A call aside of _mcu_read_lock goes on.
LEMMA ReadAside ==
    ASSUME IInv, NEW n \in Call, NEW l, pc' = [pc EXCEPT ![n] = l],
           pc[n] \notin AtRead \cup {"answer"}, l \notin AtRead
    PROVE  Readers(pc', readQ)
<1>1. pc'[n] = l /\ \A m \in Call : m # n => pc'[m] = pc[m]
  BY Parts
<1>2. ToSet(readQ) \subseteq Call
  BY Parts, ReadersAreCalls
<1>3. n \notin ToSet(readQ)
  BY Parts DEF Readers, AtRead
<1> QED BY <1>1, <1>2, <1>3, Parts DEF Readers

\* The holder of _mcu_read_lock goes on.
LEMMA ReadOn ==
    ASSUME IInv, NEW n \in Call, NEW l \in AtRead \cup {"answer"}, pc' = [pc EXCEPT ![n] = l],
           pc[n] \in AtRead, Reader(n) \/ pc[n] # "read"
    PROVE  Readers(pc', readQ)
<1>1. pc'[n] = l /\ \A m \in Call : m # n => pc'[m] = pc[m]
  BY Parts
<1>2. ToSet(readQ) \subseteq Call /\ n \in ToSet(readQ) /\ n = Head(readQ)
  BY Parts, ReadersAreCalls DEF Readers, Reader
<1> QED BY <1>1, <1>2, Parts DEF Readers

\* A call asks for _mcu_read_lock.
LEMMA ReadJoin ==
    ASSUME IInv, NEW n \in Call, pc' = [pc EXCEPT ![n] = "read"], pc[n] = "called"
    PROVE  Append(readQ, n) \in Seq(Call) /\ Readers(pc', Append(readQ, n))
<1> DEFINE w == Append(readQ, n)
<1>1. pc'[n] = "read" /\ \A m \in Call : m # n => pc'[m] = pc[m]
  BY Parts
<1>2. ToSet(readQ) \subseteq Call /\ n \notin ToSet(readQ)
  <2>1. ToSet(readQ) \subseteq Call
    BY Parts, ReadersAreCalls
  <2> QED BY <2>1, Parts DEF Readers, AtRead
<1>3. Lists(readQ, ToSet(readQ))
  BY Parts DEF Readers
<1>4. w \in Seq(Call) /\ Lists(w, ToSet(readQ) \cup {n})
  BY <1>2, <1>3, Parts, ListsAppend
<1>5. readQ # <<>> => Head(w) = Head(readQ)
  BY Parts, HeadStays
<1>6. \A x \in ToSet(readQ) : readQ # <<>>
  BY ToSetEmpty
<1> HIDE DEF w
<1>7. ToSet(w) = ToSet(readQ) \cup {n}
  BY <1>4, ListsElements
<1>8. Readers(pc', w)
  <2>1. Lists(w, ToSet(w))
    BY <1>4, <1>7
  <2>2. \A x \in ToSet(w) : pc'[x] = "read" \/ (x = Head(w) /\ pc'[x] \in AtRead \cup {"answer"})
    <3>1. SUFFICES ASSUME NEW x \in ToSet(readQ), x # n
                   PROVE  pc'[x] = "read" \/ (x = Head(w) /\ pc'[x] \in AtRead \cup {"answer"})
      BY <1>1, <1>7
    <3>2. pc'[x] = pc[x] /\ Head(w) = Head(readQ)
      BY <1>1, <1>2, <1>5, <1>6, <3>1
    <3> QED BY <3>2, Parts DEF Readers
  <2>3. \A x \in Call : pc'[x] \in AtRead => x \in ToSet(w)
    BY <1>1, <1>7, Parts DEF Readers
  <2> QED BY <2>1, <2>2, <2>3 DEF Readers
<1> QED BY <1>4, <1>8 DEF w

\* A call leaves _mcu_read_lock, if it is there.
LEMMA ReadLeave ==
    ASSUME IInv, NEW n \in Call, NEW l, pc' = [pc EXCEPT ![n] = l], l \notin AtRead
    PROVE  RemoveFirst(readQ, n) \in Seq(Call) /\ Readers(pc', RemoveFirst(readQ, n))
<1> DEFINE w == RemoveFirst(readQ, n)
           S == ToSet(readQ)
<1>1. pc'[n] = l /\ \A m \in Call : m # n => pc'[m] = pc[m]
  BY Parts
<1>2. S \subseteq Call
  BY Parts, ReadersAreCalls
<1>3. Lists(readQ, S) /\ readQ \in Seq(Call)
  BY Parts DEF Readers
<1>4. /\ \A x \in S : pc[x] = "read" \/ (x = Head(readQ) /\ pc[x] \in AtRead \cup {"answer"})
      /\ \A x \in Call : pc[x] \in AtRead => x \in S
  BY Parts DEF Readers
<1>5. \A x \in S : readQ # <<>>
  BY ToSetEmpty
<1> HIDE DEF S
<1>6. /\ w \in Seq(Call) /\ Lists(w, S \ {n})
      /\ readQ # <<>> /\ Head(readQ) # n => w # <<>> /\ Head(w) = Head(readQ)
  BY <1>3, ListsRemove
<1> HIDE DEF w
<1>7. ToSet(w) = S \ {n}
  BY <1>6, ListsElements
<1>8. Readers(pc', w)
  <2>1. Lists(w, ToSet(w))
    BY <1>6, <1>7
  <2>2. \A x \in ToSet(w) : pc'[x] = "read" \/ (x = Head(w) /\ pc'[x] \in AtRead \cup {"answer"})
    BY <1>1, <1>2, <1>4, <1>5, <1>6, <1>7
  <2>3. \A x \in Call : pc'[x] \in AtRead => x \in ToSet(w)
    BY <1>1, <1>4, <1>7
  <2> QED BY <2>1, <2>2, <2>3 DEF Readers
<1> QED BY <1>6, <1>8 DEF w

\* A call ends its registration, or whatever is registered for its correlation data.
LEMMA UnregisterType ==
    ASSUME IInv, NEW n \in DOMAIN who, Unregister(n)
    PROVE  ipc' \in [Corr -> Call \cup {0}] /\ Registered(ipc')
<1>1. CASE Registers(n)
  <2>1. who[n].corr \in Corr
    BY <1>1, Made DEF Registers
  <2>2. ipc' = [ipc EXCEPT ![who[n].corr] = 0]
    BY <1>1 DEF Unregister
  <2> QED BY <2>1, <2>2, Parts DEF Registered
<1>2. CASE ~Registers(n)
  BY <1>2, Parts DEF Unregister
<1> QED BY <1>1, <1>2

\* The queue that gets an answer, if one does, is that of a call with its correlation data.
LEMMA ReceiverType ==
    ASSUME IInv, NEW n \in DOMAIN who
    PROVE  /\ Receiver(n) \in Call \cup {0}
           /\ Receiver(n) # 0 => Receiver(n) \in DOMAIN who /\ who[Receiver(n)].corr = who[n].corr
<1>1. CASE who[n].corr = None
  BY <1>1 DEF Receiver
<1>2. CASE who[n].corr # None
  <2>1. who[n].corr \in Corr /\ Receiver(n) = ipc[who[n].corr]
    BY <1>2, Made DEF Receiver
  <2> QED BY <2>1, Parts DEF Registered
<1> QED BY <1>1, <1>2

\* An answer is put in it.
LEMMA PutType ==
    ASSUME IInv, NEW n \in DOMAIN who, NEW t \in Seq(Call), Put(n, t)
    PROVE  box' \in [Call -> Answer]
<1>1. Receiver(n) \in Call \cup {0} /\ n \in Call
  BY ReceiverType, Made
<1>2. [to |-> n, of |-> t] \in Answer
  BY <1>1 DEF Answer
<1> QED BY <1>1, <1>2, Parts DEF Put

\* No answer, no read and the places of the calls are well formed.
LEMMA Constant ==
    /\ NoAnswer \in Answer /\ NoRead \in ReadType /\ \A n \in Call : <<n>> \in Seq(Call)
    /\ \A n : Returned(n) \in {"waits", "done"}
  BY DEF NoAnswer, NoRead, Answer, ReadType, Returned

----------------------------------------------------------------------------
(* The steps of a call *)

\* The places of a call that is in the queue of no lock.
Aside == {"called", "slot", "answer", "take", "write", "wrote", "waits", "done"}

\* A call goes on that was in no queue and is in none.
LEMMA AsideStep ==
    ASSUME IInv, NEW n \in DOMAIN who, NEW l \in Aside, pc' = [pc EXCEPT ![n] = l],
           pc[n] \in {"new", "called", "slot", "take", "write", "waits"},
           pc[n] = "waits" => l = "done", UNCHANGED <<who, text, lines, mail>>,
           ipc' \in [Corr -> Call \cup {0}], Registered(ipc'), box' \in [Call -> Answer],
           upset' \in BOOLEAN
    PROVE  IInv'
<1>1. n \in Call /\ l \in Place /\ l # "new" /\ (pc[n] \in Past => l \in Past)
  BY Made DEF Aside, Place, Past
<1>2. l # "took" /\ l \notin {"send", "post", "pin"} /\ l \notin AtRead
  BY DEF Aside, AtRead
<1>3. pc[n] # "took" /\ pc[n] \notin {"send", "post", "pin"} /\ pc[n] \notin AtRead \cup {"answer"}
  BY DEF AtRead
<1>4. Texts(pc', text, pushed)
  BY <1>1, <1>2, <1>3, TextKept
<1>5. Flow(pc', flowQ, attempts)
  BY <1>1, <1>2, <1>3, FlowAside
<1>6. Readers(pc', readQ)
  BY <1>1, <1>2, <1>3, ReadAside
<1>7. /\ text' = text /\ flowQ' = flowQ /\ attempts' = attempts /\ readQ' = readQ /\ read' = read
      /\ wire' = wire /\ pending' = pending /\ mail' = mail /\ who' = who
  BY DEF lines
<1>8. /\ text' \in [Call -> Seq(Nat)] /\ Texts(pc', text', pushed)
      /\ flowQ' \in Seq(Call) /\ attempts' \in 0 .. MaxAttempts /\ Flow(pc', flowQ', attempts')
      /\ readQ' \in Seq(Call) /\ Readers(pc', readQ') /\ read' \in ReadType /\ wire' \in Seq(Frame)
      /\ pending' \in Seq(Call) /\ Len(pending') <= PinLimit
      /\ \A i \in 1 .. Len(pending') : pending'[i] = n \/ pc[pending'[i]] # "new"
  BY <1>4, <1>5, <1>6, <1>7, Parts
<1> QED BY <1>1, <1>7, <1>8, CallStep

\* A new request, which replaces the entry of its correlation id, keeps the invariant.
LEMMA RequestStep ==
    ASSUME IInv, NEW n \in Call, request(n)
    PROVE  IInv'
<1>1. n \in DOMAIN who /\ pc[n] = "new" /\ pc' = [pc EXCEPT ![n] = "called"]
  BY DEF request, GoTo
<1>2. ipc' \in [Corr -> Call \cup {0}] /\ Registered(ipc')
  <2>1. CASE Registers(n)
    <3>1. who[n].corr \in Corr /\ ipc' = [ipc EXCEPT ![who[n].corr] = n]
      BY <1>1, <2>1, Made DEF Registers, request
    <3> QED BY <1>1, <3>1, Parts DEF Registered
  <2>2. CASE ~Registers(n)
    BY <2>2, Parts DEF request
  <2> QED BY <2>1, <2>2
<1>3. "called" \in Aside
  BY DEF Aside
<1>4. UNCHANGED <<who, text, lines, mail>> /\ box' \in [Call -> Answer] /\ upset' \in BOOLEAN
  BY Parts DEF request
<1> QED BY <1>1, <1>2, <1>3, <1>4, AsideStep

\* A handler that raises before anything is sent keeps the invariant.
LEMMA RaiseStep ==
    ASSUME IInv, NEW n \in Call, raise(n)
    PROVE  IInv'
<1>1. n \in DOMAIN who /\ pc[n] = "called" /\ pc' = [pc EXCEPT ![n] = "done"] /\ Unregister(n)
  BY Parts DEF raise, GoTo
<1>2. ipc' \in [Corr -> Call \cup {0}] /\ Registered(ipc')
  BY <1>1, UnregisterType
<1>3. "done" \in Aside
  BY DEF Aside
<1>4. UNCHANGED <<who, text, lines, mail>> /\ box' \in [Call -> Answer] /\ upset' \in BOOLEAN
  BY Parts DEF raise
<1> QED BY <1>1, <1>2, <1>3, <1>4, AsideStep

\* The end of the wait of a caller keeps the invariant.
LEMMA WaitStep ==
    ASSUME IInv, NEW n \in Call, wait(n)
    PROVE  IInv'
<1>1. n \in DOMAIN who /\ pc[n] = "waits" /\ pc' = [pc EXCEPT ![n] = "done"] /\ Unregister(n)
  BY Parts DEF wait, GoTo
<1>2. ipc' \in [Corr -> Call \cup {0}] /\ Registered(ipc')
  BY <1>1, UnregisterType
<1>3. "done" \in Aside
  BY DEF Aside
<1>4. UNCHANGED <<who, text, lines, mail>> /\ upset' \in BOOLEAN
  BY Parts DEF wait
<1>5. box' \in [Call -> Answer]
  BY Constant, Parts DEF wait
<1> QED BY <1>1, <1>2, <1>3, <1>4, <1>5, AsideStep

\* The start of a write to the outgoing mailbox keeps the invariant.
LEMMA WriteStep ==
    ASSUME IInv, NEW n \in Call, write(n)
    PROVE  IInv'
<1>1. n \in DOMAIN who /\ pc[n] = "write" /\ pc' = [pc EXCEPT ![n] = "wrote"]
  BY Parts DEF write, GoTo
<1>3. "wrote" \in Aside
  BY DEF Aside
<1>4. /\ UNCHANGED <<who, text, lines, mail>> /\ box' \in [Call -> Answer] /\ upset' \in BOOLEAN
      /\ ipc' = ipc
  BY Parts DEF write
<1>5. ipc' \in [Corr -> Call \cup {0}] /\ Registered(ipc')
  BY <1>4, Parts
<1> QED BY <1>1, <1>3, <1>4, <1>5, AsideStep

\* A command that gets its slot keeps the invariant.
LEMMA SlotStep ==
    ASSUME IInv, NEW n \in Call, get_slot(n)
    PROVE  IInv'
<1>1. n \in DOMAIN who /\ pc[n] = "slot" /\ pc' = [pc EXCEPT ![n] = "answer"]
  BY Parts DEF get_slot, GoTo
<1>2. "answer" \in Aside
  BY DEF Aside
<1>3. /\ UNCHANGED <<who, text, lines, mail>> /\ box' \in [Call -> Answer] /\ upset' \in BOOLEAN
      /\ ipc' = ipc
  BY Parts DEF get_slot
<1>4. ipc' \in [Corr -> Call \cup {0}] /\ Registered(ipc')
  BY <1>3, Parts
<1> QED BY <1>1, <1>2, <1>3, <1>4, AsideStep

\* The start of a read of the incoming mailbox keeps the invariant.
LEMMA TakeStep ==
    ASSUME IInv, NEW n \in Call, take(n)
    PROVE  IInv'
<1>1. n \in DOMAIN who /\ pc[n] = "take"
  BY Parts DEF take
<1>2. /\ UNCHANGED <<who, ipc, box, lines, mail, upset>> /\ ipc' \in [Corr -> Call \cup {0}]
      /\ box' \in [Call -> Answer] /\ upset' \in BOOLEAN /\ Registered(ipc')
  BY Parts DEF take
<1>3. CASE incoming.rows = <<>>
  <2>1. "answer" \in Aside
    BY DEF Aside
  <2>2. pc' = [pc EXCEPT ![n] = "answer"] /\ text' = text
    BY <1>3 DEF take, GoTo
  <2> QED BY <1>1, <1>2, <2>1, <2>2, AsideStep
<1>4. CASE incoming.rows # <<>>
  <2> DEFINE h == Head(incoming.rows)
  <2>1. pc' = [pc EXCEPT ![n] = "took"] /\ text' = [text EXCEPT ![n] = <<h>>]
    BY <1>4 DEF take, GoTo
  <2>2. h \in 1 .. pushed /\ pushed \in Nat
    <3>1. incoming.rows \in Seq(1 .. pushed) /\ pushed \in Nat
      BY Parts DEF Incoming, Deque, Loop
    <3> QED BY <1>4, <3>1, TailIndex
  <2> HIDE DEF h
  <2>3. <<h>> \in Seq(Nat)
    BY <2>2
  <2>4. text' \in [Call -> Seq(Nat)] /\ Texts(pc', text', pushed)
    <3>1. text' \in [Call -> Seq(Nat)]
      BY <2>1, <2>3, Parts
    <3>2. pc'[n] = "took" /\ text'[n] = <<h>> /\ \A m \in Call : m # n => pc'[m] = pc[m] /\ text'[m] = text[m]
      BY <2>1, Parts
    <3> QED BY <2>2, <3>1, <3>2, Parts DEF Texts
  <2>5. "took" \in Place /\ pc[n] \notin Past
    BY <1>1 DEF Place, Past
  <2>6. Flow(pc', flowQ, attempts)
    BY <1>1, <2>1, FlowAside
  <2>7. Readers(pc', readQ)
    <3>1. pc[n] \notin AtRead \cup {"answer"} /\ "took" \notin AtRead
      BY <1>1 DEF AtRead
    <3> QED BY <2>1, <3>1, ReadAside
  <2>8. /\ flowQ' = flowQ /\ attempts' = attempts /\ readQ' = readQ /\ read' = read
        /\ wire' = wire /\ pending' = pending /\ mail' = mail /\ who' = who
    BY <1>2 DEF lines
  <2>9. /\ flowQ' \in Seq(Call) /\ attempts' \in 0 .. MaxAttempts /\ Flow(pc', flowQ', attempts')
        /\ readQ' \in Seq(Call) /\ Readers(pc', readQ') /\ read' \in ReadType /\ wire' \in Seq(Frame)
        /\ pending' \in Seq(Call) /\ Len(pending') <= PinLimit
        /\ \A i \in 1 .. Len(pending') : pending'[i] = n \/ pc[pending'[i]] # "new"
    BY <2>6, <2>7, <2>8, Parts
  <2> QED BY <1>1, <1>2, <2>1, <2>4, <2>5, <2>8, <2>9, CallStep
<1> QED BY <1>3, <1>4

\* A handler asks for _flow_lock.
LEMMA FlowStep ==
    ASSUME IInv, NEW n \in DOMAIN who, NEW l \in {"send", "pin"}, pc' = [pc EXCEPT ![n] = l],
           pc[n] = "called", flowQ' = Append(flowQ, n),
           UNCHANGED <<who, ipc, box, text, attempts, readQ, read, wire, mail, upset>>,
           pending' \in Seq(Call), Len(pending') <= PinLimit,
           \A i \in 1 .. Len(pending') : pending'[i] = n \/ pc[pending'[i]] # "new"
    PROVE  IInv'
<1>1. n \in Call /\ l \in Place /\ l # "new" /\ pc[n] \notin Past
  BY Made DEF Place, Past
<1>2. l # "took" /\ l \in {"send", "post", "pin"} /\ l \notin AtRead
  BY DEF AtRead
<1>3. pc[n] # "took" /\ pc[n] \notin {"send", "post", "pin"} /\ pc[n] \notin AtRead \cup {"answer"}
  BY DEF AtRead
<1>4. Texts(pc', text, pushed)
  BY <1>1, <1>2, <1>3, TextKept
<1>5. flowQ' \in Seq(Call) /\ Flow(pc', flowQ', attempts)
  BY <1>1, <1>2, <1>3, FlowJoin
<1>6. Readers(pc', readQ)
  BY <1>1, <1>2, <1>3, ReadAside
<1>8. /\ ipc' \in [Corr -> Call \cup {0}] /\ Registered(ipc') /\ box' \in [Call -> Answer]
      /\ text' \in [Call -> Seq(Nat)] /\ Texts(pc', text', pushed)
      /\ attempts' \in 0 .. MaxAttempts /\ Flow(pc', flowQ', attempts')
      /\ readQ' \in Seq(Call) /\ Readers(pc', readQ') /\ read' \in ReadType /\ wire' \in Seq(Frame)
      /\ upset' \in BOOLEAN /\ who' = who /\ mail' = mail
  BY <1>4, <1>5, <1>6, Parts
<1> QED BY <1>1, <1>5, <1>8, CallStep

\* The dispatch of a request to its handler keeps the invariant.
LEMMA HandleStep ==
    ASSUME IInv, NEW n \in Call, handle_request(n)
    PROVE  IInv'
<1>1. /\ n \in DOMAIN who /\ pc[n] = "called"
      /\ UNCHANGED <<who, ipc, box, text, attempts, read, wire, mail, upset>>
  BY Parts DEF handle_request
<1>2. ipc' \in [Corr -> Call \cup {0}] /\ Registered(ipc') /\ box' \in [Call -> Answer] /\ upset' \in BOOLEAN
  BY <1>1, Parts
<1>3. ASSUME NEW l \in Aside, pc' = [pc EXCEPT ![n] = l], UNCHANGED <<pending, flowQ, readQ>>
      PROVE  IInv'
  <2>1. UNCHANGED <<who, text, lines, mail>>
    BY <1>1, <1>3 DEF lines
  <2> QED BY <1>1, <1>2, <1>3, <2>1, AsideStep
<1>4. CASE start_pin(n) /\ UNCHANGED readQ
  <2>1. CASE Len(pending) < PinLimit
    <3>1. pending' = Append(pending, n) /\ flowQ' = Append(flowQ, n) /\ pc' = [pc EXCEPT ![n] = "pin"]
      BY <1>4, <2>1 DEF start_pin, GoTo
    <3>2. /\ pending' \in Seq(Call) /\ Len(pending') = Len(pending) + 1
          /\ \A i \in 1 .. Len(pending') :
                (i \in 1 .. Len(pending) /\ pending'[i] = pending[i]) \/ i = Len(pending) + 1
          /\ pending'[Len(pending) + 1] = n /\ Len(pending) \in Nat
      BY <3>1, Parts, AppendIndex
    <3>3. Len(pending') <= PinLimit
      BY <2>1, <3>2, RequestConstants
    <3>4. \A i \in 1 .. Len(pending') : pending'[i] = n \/ pc[pending'[i]] # "new"
      BY <3>2, Parts
    <3> QED BY <1>1, <1>4, <3>1, <3>2, <3>3, <3>4, FlowStep
  <2>2. CASE ~(Len(pending) < PinLimit)
    <3>1. pc' = [pc EXCEPT ![n] = "answer"] /\ UNCHANGED <<pending, flowQ, readQ>>
      BY <1>4, <2>2 DEF start_pin, GoTo
    <3>2. "answer" \in Aside
      BY DEF Aside
    <3> QED BY <1>3, <3>1, <3>2
  <2> QED BY <2>1, <2>2
<1>5. CASE flowQ' = Append(flowQ, n) /\ GoTo(n, "send") /\ UNCHANGED <<pending, readQ>>
  <2>1. pc' = [pc EXCEPT ![n] = "send"] /\ pending' = pending /\ readQ' = readQ
    BY <1>5 DEF GoTo
  <2>2. /\ pending' \in Seq(Call) /\ Len(pending') <= PinLimit
        /\ \A i \in 1 .. Len(pending') : pending'[i] = n \/ pc[pending'[i]] # "new"
    BY <2>1, Parts
  <2> QED BY <1>1, <1>5, <2>1, <2>2, FlowStep
<1>6. CASE readQ' = Append(readQ, n) /\ GoTo(n, "read") /\ UNCHANGED <<pending, flowQ>>
  <2>1. pc' = [pc EXCEPT ![n] = "read"] /\ pending' = pending /\ flowQ' = flowQ
    BY <1>6 DEF GoTo
  <2>2. "read" \in Place /\ pc[n] \notin Past
    BY <1>1 DEF Place, Past
  <2>3. Texts(pc', text, pushed)
    BY <1>1, <2>1, TextKept
  <2>4. Flow(pc', flowQ, attempts)
    BY <1>1, <2>1, FlowAside
  <2>5. readQ' \in Seq(Call) /\ Readers(pc', readQ')
    BY <1>1, <1>6, <2>1, ReadJoin
  <2>6. /\ text' \in [Call -> Seq(Nat)] /\ Texts(pc', text', pushed)
        /\ flowQ' \in Seq(Call) /\ attempts' \in 0 .. MaxAttempts /\ Flow(pc', flowQ', attempts')
        /\ read' \in ReadType /\ wire' \in Seq(Frame) /\ who' = who /\ mail' = mail
        /\ pending' \in Seq(Call) /\ Len(pending') <= PinLimit
        /\ \A i \in 1 .. Len(pending') : pending'[i] = n \/ pc[pending'[i]] # "new"
    BY <1>1, <2>1, <2>3, <2>4, Parts
  <2> QED BY <1>1, <1>2, <2>1, <2>2, <2>5, <2>6, CallStep
<1>7. CASE GoTo(n, Returned(n)) /\ UNCHANGED <<pending, flowQ, readQ>>
  <2>1. Returned(n) \in Aside
    BY Constant DEF Aside
  <2> QED BY <1>3, <1>7, <2>1 DEF GoTo
<1>8. ASSUME NEW j \in {"answer", "take", "write", "slot"}, GoTo(n, j), UNCHANGED <<pending, flowQ, readQ>>
      PROVE  IInv'
  <2>1. j \in Aside
    BY DEF Aside
  <2> QED BY <1>3, <1>8, <2>1 DEF GoTo
<1> QED BY <1>4, <1>5, <1>6, <1>7, <1>8 DEF handle_request

\* The reply to the caller keeps the invariant.
LEMMA AnswerStep ==
    ASSUME IInv, NEW n \in Call, answer(n)
    PROVE  IInv'
<1>1. /\ n \in DOMAIN who /\ pc[n] \in {"answer", "refused"}
      /\ UNCHANGED <<who, flowQ, attempts, wire, pending, mail, upset>>
      /\ text' = [text EXCEPT ![n] = <<n>>]
  BY Parts DEF answer
<1>2. text[n] \in Seq(Call) /\ <<n>> \in Seq(Call)
  BY <1>1, Constant, Parts DEF Texts
<1>3. \E l \in {"waits", "done"} :
        /\ pc' = [pc EXCEPT ![n] = l] /\ readQ' = RemoveFirst(readQ, n) /\ read' \in ReadType
        /\ ipc' \in [Corr -> Call \cup {0}] /\ Registered(ipc') /\ box' \in [Call -> Answer]
  <2>1. CASE QueueFull(n)
    <3>1. /\ pc' = [pc EXCEPT ![n] = "done"] /\ Unregister(n) /\ box' = box /\ LeaveReadLock(n)
      BY <2>1 DEF answer, GoTo
    <3>2. ipc' \in [Corr -> Call \cup {0}] /\ Registered(ipc')
      BY <1>1, <3>1, UnregisterType
    <3>3. readQ' = RemoveFirst(readQ, n) /\ read' \in ReadType
      BY <3>1, Parts, Constant DEF LeaveReadLock
    <3> QED BY <3>1, <3>2, <3>3, Parts
  <2>2. CASE ~QueueFull(n)
    <3>1. /\ pc' = [pc EXCEPT ![n] = Returned(n)] /\ Put(n, text[n]) /\ ipc' = ipc
          /\ readQ' = RemoveFirst(readQ, n) /\ read' = IF Reader(n) THEN NoRead ELSE read
      BY <2>2 DEF answer, GoTo
    <3>2. box' \in [Call -> Answer]
      BY <1>1, <1>2, <3>1, PutType
    <3>3. read' \in ReadType /\ Returned(n) \in {"waits", "done"}
      BY <3>1, Parts, Constant
    <3> QED BY <3>1, <3>2, <3>3, Parts
  <2> QED BY <2>1, <2>2
<1>4. PICK l \in {"waits", "done"} :
        /\ pc' = [pc EXCEPT ![n] = l] /\ readQ' = RemoveFirst(readQ, n) /\ read' \in ReadType
        /\ ipc' \in [Corr -> Call \cup {0}] /\ Registered(ipc') /\ box' \in [Call -> Answer]
  BY <1>3
<1>5. /\ l \in Place /\ l # "new" /\ l # "took" /\ l \notin AtRead /\ l \notin {"send", "post", "pin"}
      /\ pc[n] \notin Past /\ pc[n] # "took" /\ pc[n] \notin {"send", "post", "pin"}
  BY <1>1 DEF Place, Past, AtRead
<1>6. text' \in [Call -> Seq(Nat)] /\ Texts(pc', text', pushed)
  BY <1>1, <1>2, <1>4, <1>5, TextSet
<1>7. Flow(pc', flowQ, attempts)
  BY <1>4, <1>5, FlowAside
<1>8. readQ' \in Seq(Call) /\ Readers(pc', readQ')
  BY <1>4, <1>5, ReadLeave
<1>9. /\ flowQ' \in Seq(Call) /\ attempts' \in 0 .. MaxAttempts /\ Flow(pc', flowQ', attempts')
      /\ wire' \in Seq(Frame) /\ who' = who /\ mail' = mail /\ upset' \in BOOLEAN
      /\ pending' \in Seq(Call) /\ Len(pending') <= PinLimit
      /\ \A i \in 1 .. Len(pending') : pending'[i] = n \/ pc[pending'[i]] # "new"
  BY <1>1, <1>7, Parts
<1> QED BY <1>1, <1>4, <1>5, <1>6, <1>8, <1>9, CallStep

\* The holder of _flow_lock has done with it.
LEMMA LeaveStep ==
    ASSUME IInv, NEW n \in Call, NEW l \in {"waits", "done", "answer"}, pc' = [pc EXCEPT ![n] = l],
           Sender(n), pc[n] \in {"send", "post", "pin"}, pc[n] = "post" => l # "answer",
           flowQ' = Tail(flowQ), attempts' = 0, UNCHANGED <<who, ipc, text, readQ, read, mail>>,
           box' \in [Call -> Answer], wire' \in Seq(Frame), pending' \in Seq(Call),
           Len(pending') <= PinLimit, \A i \in 1 .. Len(pending') : pc[pending'[i]] # "new",
           upset' \in BOOLEAN
    PROVE  IInv'
<1>1. n \in DOMAIN who /\ l \in Place /\ l # "new" /\ (pc[n] \in Past => l \in Past)
  <2>1. pc[n] # "new"
    OBVIOUS
  <2> QED BY <2>1, Parts DEF Place, Past
<1>2. l # "took" /\ l \notin {"send", "post", "pin"} /\ l \notin AtRead
  BY DEF AtRead
<1>3. pc[n] # "took" /\ pc[n] \notin AtRead \cup {"answer"}
  BY DEF AtRead
<1>4. Texts(pc', text, pushed)
  BY <1>2, <1>3, TextKept
<1>5. flowQ' \in Seq(Call) /\ Flow(pc', flowQ', attempts')
  BY <1>2, FlowLeave
<1>6. Readers(pc', readQ)
  BY <1>2, <1>3, ReadAside
<1>7. attempts' \in 0 .. MaxAttempts
  BY RequestConstants
<1>8. /\ ipc' \in [Corr -> Call \cup {0}] /\ Registered(ipc')
      /\ text' \in [Call -> Seq(Nat)] /\ Texts(pc', text', pushed)
      /\ readQ' \in Seq(Call) /\ Readers(pc', readQ') /\ read' \in ReadType
      /\ who' = who /\ mail' = mail
      /\ \A i \in 1 .. Len(pending') : pending'[i] = n \/ pc[pending'[i]] # "new"
  BY <1>4, <1>6, Parts
<1> QED BY <1>1, <1>5, <1>7, <1>8, CallStep

\* A send that ends, whether it succeeded or not, keeps the invariant.
LEMMA SendStep ==
    ASSUME IInv, NEW n \in Call, send(n)
    PROVE  IInv'
<1>1. /\ pc[n] \in {"send", "post"} /\ Sender(n) /\ flowQ' = Tail(flowQ)
      /\ UNCHANGED <<who, ipc, box, text, attempts, readQ, read, wire, pending, mail, upset>>
  BY DEF send
<1>2. attempts' = 0
  BY <1>1, Parts DEF Flow, Sender
<1>3. PICK l \in {"waits", "done", "answer"} : pc' = [pc EXCEPT ![n] = l] /\ (pc[n] = "post" => l # "answer")
  <2>1. CASE GoTo(n, Returned(n))
    BY <2>1, Constant DEF GoTo
  <2>2. CASE pc[n] = "send" /\ GoTo(n, "answer")
    BY <2>2 DEF GoTo
  <2> QED BY <2>1, <2>2 DEF send
<1>4. /\ box' \in [Call -> Answer] /\ wire' \in Seq(Frame) /\ pending' \in Seq(Call)
      /\ Len(pending') <= PinLimit /\ upset' \in BOOLEAN
      /\ \A i \in 1 .. Len(pending') : pc[pending'[i]] # "new"
  BY <1>1, Parts
<1> QED BY <1>1, <1>2, <1>3, <1>4, LeaveStep

\* A pin request whose send gives up keeps the invariant.
LEMMA SendPinFailsStep ==
    ASSUME IInv, NEW n \in Call, send_pin_fails(n)
    PROVE  IInv'
<1>1. /\ pc[n] = "pin" /\ Sender(n) /\ flowQ' = Tail(flowQ) /\ attempts' = 0 /\ upset' = TRUE
      /\ pc' = [pc EXCEPT ![n] = Returned(n)]
      /\ UNCHANGED <<who, ipc, box, text, readQ, read, wire, pending, mail>>
  BY DEF send_pin_fails, GoTo
<1>3. Returned(n) \in {"waits", "done", "answer"}
  BY Constant
<1>4. /\ box' \in [Call -> Answer] /\ wire' \in Seq(Frame) /\ pending' \in Seq(Call)
      /\ Len(pending') <= PinLimit /\ upset' \in BOOLEAN
      /\ \A i \in 1 .. Len(pending') : pc[pending'[i]] # "new"
  BY <1>1, Parts
<1> QED BY <1>1, <1>3, <1>4, LeaveStep

\* One attempt to send a pin request keeps the invariant.
LEMMA SendPinStep ==
    ASSUME IInv, NEW n \in Call, send_pin(n)
    PROVE  IInv'
<1> DEFINE r == [kind |-> "pin", of |-> n]
<1>1. /\ pc[n] = "pin" /\ Sender(n) /\ attempts < MaxAttempts /\ attempts' = attempts + 1
      /\ wire' = Append(wire, r) /\ upset' = (upset \/ r \in ToSet(wire))
      /\ UNCHANGED <<who, pc, ipc, box, text, flowQ, readQ, read, pending, mail>>
  BY DEF send_pin
<1>2. pc' = [pc EXCEPT ![n] = "pin"] /\ n \in DOMAIN who
  BY <1>1, Parts
<1>3. wire' \in Seq(Frame)
  <2>1. r \in Frame
    BY DEF Frame
  <2> HIDE DEF r
  <2> QED BY <1>1, <2>1, Parts, AppendIndex
<1>4. attempts' \in 0 .. MaxAttempts
  BY <1>1, Parts, RequestConstants
<1>5. Flow(pc', flowQ', attempts')
  BY <1>1, Parts DEF Flow, Sender, Sending
<1>6. "pin" \in Place /\ pc[n] \notin Past
  BY <1>1 DEF Place, Past
<1>7. upset' \in BOOLEAN
  BY <1>1
<1>8. /\ ipc' \in [Corr -> Call \cup {0}] /\ Registered(ipc') /\ box' \in [Call -> Answer]
      /\ text' \in [Call -> Seq(Nat)] /\ Texts(pc', text', pushed) /\ flowQ' \in Seq(Call)
      /\ readQ' \in Seq(Call) /\ Readers(pc', readQ') /\ read' \in ReadType
      /\ pending' \in Seq(Call) /\ Len(pending') <= PinLimit /\ who' = who /\ mail' = mail
      /\ \A i \in 1 .. Len(pending') : pending'[i] = n \/ pc[pending'[i]] # "new"
  BY <1>1, Parts
<1> QED BY <1>2, <1>3, <1>4, <1>5, <1>6, <1>7, <1>8, CallStep

\* The holder of _mcu_read_lock goes on.
LEMMA ReadStep ==
    ASSUME IInv, NEW n \in Call, NEW l \in {"sends", "refused", "reading", "answer"},
           pc' = [pc EXCEPT ![n] = l], pc[n] \in AtRead, Reader(n) \/ pc[n] # "read",
           UNCHANGED <<who, ipc, box, flowQ, attempts, readQ, pending, mail>>,
           read' \in ReadType, wire' \in Seq(Frame), upset' \in BOOLEAN,
           text' \in [Call -> Seq(Nat)], Texts(pc', text', pushed)
    PROVE  IInv'
<1>1. n \in DOMAIN who /\ l \in Place /\ l # "new" /\ pc[n] \notin Past
  <2>1. pc[n] # "new" /\ pc[n] \notin Past
    BY DEF AtRead, Past
  <2> QED BY <2>1, Parts DEF Place
<1>2. /\ l \notin {"send", "post", "pin"} /\ pc[n] \notin {"send", "post", "pin"}
      /\ l \in AtRead \cup {"answer"}
  BY DEF AtRead
<1>3. Flow(pc', flowQ, attempts)
  BY <1>2, FlowAside
<1>4. Readers(pc', readQ)
  BY <1>2, ReadOn
<1>5. /\ ipc' \in [Corr -> Call \cup {0}] /\ Registered(ipc') /\ box' \in [Call -> Answer]
      /\ flowQ' \in Seq(Call) /\ attempts' \in 0 .. MaxAttempts /\ Flow(pc', flowQ', attempts')
      /\ readQ' \in Seq(Call) /\ Readers(pc', readQ')
      /\ pending' \in Seq(Call) /\ Len(pending') <= PinLimit /\ who' = who /\ mail' = mail
      /\ \A i \in 1 .. Len(pending') : pending'[i] = n \/ pc[pending'[i]] # "new"
  BY <1>3, <1>4, Parts
<1> QED BY <1>1, <1>5, CallStep

\* The reader that holds the lock of the file reads starts: the invariant holds after it.
LEMMA ReadStartStep ==
    ASSUME IInv, NEW n \in Call, read_start(n)
    PROVE  IInv'
<1>1. /\ pc[n] = "read" /\ Reader(n) /\ pc' = [pc EXCEPT ![n] = "sends"]
      /\ read' = [open |-> TRUE, done |-> FALSE, chunks |-> <<>>]
      /\ UNCHANGED <<who, ipc, box, text, flowQ, attempts, readQ, wire, pending, mail, upset>>
  BY DEF read_start, GoTo
<1>2. read' \in ReadType /\ pc[n] \in AtRead
  <2>2. read' \in ReadType
    BY <1>1 DEF ReadType
  <2> QED BY <1>1, <2>2 DEF AtRead
<1>3. Texts(pc', text, pushed)
  BY <1>1, TextKept
<1>4. /\ wire' \in Seq(Frame) /\ upset' \in BOOLEAN
      /\ text' \in [Call -> Seq(Nat)] /\ Texts(pc', text', pushed)
  BY <1>1, <1>3, Parts
<1> QED BY <1>1, <1>2, <1>4, ReadStep

\* The frame that asks for a file keeps the invariant.
LEMMA ReadSendStep ==
    ASSUME IInv, NEW n \in Call, read_send(n)
    PROVE  IInv'
<1>1. /\ pc[n] = "sends"
      /\ UNCHANGED <<who, ipc, box, text, flowQ, attempts, readQ, read, pending, mail, upset>>
  BY DEF read_send
<1>2. PICK l \in {"refused", "reading"} : pc' = [pc EXCEPT ![n] = l]
  <2>1. CASE GoTo(n, "reading")
    BY <2>1 DEF GoTo
  <2>2. CASE GoTo(n, "refused")
    BY <2>2 DEF GoTo
  <2> QED BY <2>1, <2>2 DEF read_send
<1>3. wire' \in Seq(Frame)
  <2> DEFINE w == <<[kind |-> "chunk", of |-> n], [kind |-> "end", of |-> n]>>
  <2>1. [kind |-> "chunk", of |-> n] \in Frame /\ [kind |-> "end", of |-> n] \in Frame
    BY DEF Frame
  <2>2. w \in Seq(Frame)
    BY <2>1
  <2>3. wire' = wire \/ wire' = wire \o w
    BY DEF read_send
  <2> HIDE DEF w
  <2>4. wire \in Seq(Frame)
    BY Parts
  <2>5. wire \o w \in Seq(Frame)
    BY <2>2, <2>4, ConcatProperties
  <2> QED BY <2>3, <2>4, <2>5
<1>4. pc[n] \in AtRead /\ pc[n] # "read"
  BY <1>1 DEF AtRead
<1>5. Texts(pc', text, pushed)
  BY <1>1, <1>2, TextKept
<1>6. /\ read' \in ReadType /\ upset' \in BOOLEAN
      /\ text' \in [Call -> Seq(Nat)] /\ Texts(pc', text', pushed)
  BY <1>1, <1>5, Parts
<1> QED BY <1>1, <1>2, <1>3, <1>4, <1>6, ReadStep

\* The end of a file read, complete or timed out, keeps the invariant.
LEMMA ReadEndStep ==
    ASSUME IInv, NEW n \in Call, read_end(n)
    PROVE  IInv'
<1>1. /\ pc[n] = "reading" /\ pc' = [pc EXCEPT ![n] = "answer"]
      /\ UNCHANGED <<who, ipc, box, mail>> /\ lines' = lines
  BY DEF read_end, GoTo
<1>2. UNCHANGED <<flowQ, attempts, readQ, read, wire, pending>>
  BY <1>1 DEF lines
<1>3. pc[n] \in AtRead /\ pc[n] # "read"
  BY <1>1 DEF AtRead
<1>4. text' \in [Call -> Seq(Nat)] /\ Texts(pc', text', pushed) /\ upset' \in BOOLEAN
  <2>1. CASE read.done
    <3>1. text' = [text EXCEPT ![n] = read.chunks] /\ upset' = upset
      BY <2>1 DEF read_end
    <3>2. read.chunks \in Seq(Call)
      BY Parts DEF ReadType
    <3>3. text' \in [Call -> Seq(Nat)] /\ Texts(pc', text', pushed)
      BY <1>1, <3>1, <3>2, TextSet
    <3> QED BY <3>1, <3>3, Parts
  <2>2. CASE ~read.done
    <3>1. text' = text /\ upset' = TRUE
      BY <2>2 DEF read_end
    <3>2. Texts(pc', text, pushed)
      BY <1>1, TextKept
    <3> QED BY <3>1, <3>2, Parts
  <2> QED BY <2>1, <2>2
<1>5. read' \in ReadType /\ wire' \in Seq(Frame)
  BY <1>2, Parts
<1> QED BY <1>1, <1>2, <1>3, <1>4, <1>5, ReadStep

\* A call that reads or writes a mailbox goes on to l.
LEMMA MailStep ==
    ASSUME IInv, NEW n \in DOMAIN who, NEW l \in Place, pc' = [pc EXCEPT ![n] = l], l # "new",
           UNCHANGED <<who, wire, pending, popping, pushing, pushed>>,
           ipc' \in [Corr -> Call \cup {0}], Registered(ipc'), box' \in [Call -> Answer],
           text' \in [Call -> Seq(Nat)], Texts(pc', text', pushed),
           flowQ' \in Seq(Call), attempts' \in 0 .. MaxAttempts, Flow(pc', flowQ', attempts'),
           readQ' \in Seq(Call), Readers(pc', readQ'), read' \in ReadType, upset' \in BOOLEAN,
           Incoming(incoming', pushed, given', (cut').incoming),
           Outgoing(outgoing', pc', (cut').outgoing), cut' \in [incoming : Nat, outgoing : Nat]
    PROVE  IInv'
<1>1. n \in Call /\ pc'[n] = l /\ \A m \in Call : m # n => pc'[m] = pc[m]
  BY Made, Parts
<1>2. Types'
  <2>1. pc' \in [Call -> Place]
    BY <1>1, Parts
  <2> QED BY <2>1, Parts DEF Types, ReadType
<1>3. Known(pc', pending')
  <2>1. pending' = pending /\ \A i \in 1 .. Len(pending) : pending[i] \in Call
    BY Parts
  <2> QED BY <1>1, <2>1, Parts DEF Known
<1>4. Loop'
  BY Parts DEF Loop
<1> QED BY <1>2, <1>3, <1>4, Assemble

\* The row appended to the outgoing mailbox keeps the invariant: at the limit the oldest goes.
LEMMA WroteStep ==
    ASSUME IInv, NEW n \in Call, wrote(n)
    PROVE  IInv'
<1>1. /\ n \in DOMAIN who /\ pc[n] = "wrote" /\ pc' = [pc EXCEPT ![n] = "post"]
      /\ flowQ' = Append(flowQ, n) /\ outgoing' = append_impl(outgoing, n)
      /\ UNCHANGED <<who, wire, pending, popping, pushing, pushed, ipc, box, text, attempts, readQ,
                     read, incoming, given, cut, upset>>
  BY Parts DEF wrote, GoTo
<1>2. "post" \in Place /\ pc[n] \notin AtRead \cup {"answer"} /\ "post" \notin AtRead
  BY <1>1 DEF Place, AtRead
<1>3. Texts(pc', text, pushed)
  BY <1>1, TextKept
<1>4. flowQ' \in Seq(Call) /\ Flow(pc', flowQ', attempts)
  BY <1>1, FlowJoin
<1>5. Readers(pc', readQ)
  BY <1>1, <1>2, ReadAside
<1>6. Outgoing(outgoing', pc', cut.outgoing)
  <2>1. pc'[n] \in Past /\ \A m \in Call : m # n => pc'[m] = pc[m]
    BY <1>1, Parts DEF Past
  <2>2. cut.outgoing \in Nat /\ Outgoing(outgoing, pc, cut.outgoing)
    BY Parts DEF Loop
  <2> QED BY <1>1, <2>1, <2>2, OutgoingAppend
<1>7. /\ ipc' \in [Corr -> Call \cup {0}] /\ Registered(ipc') /\ box' \in [Call -> Answer]
      /\ text' \in [Call -> Seq(Nat)] /\ Texts(pc', text', pushed)
      /\ attempts' \in 0 .. MaxAttempts /\ Flow(pc', flowQ', attempts')
      /\ readQ' \in Seq(Call) /\ Readers(pc', readQ') /\ read' \in ReadType /\ upset' \in BOOLEAN
      /\ Incoming(incoming', pushed, given', (cut').incoming)
      /\ Outgoing(outgoing', pc', (cut').outgoing)
  BY <1>1, <1>3, <1>4, <1>5, <1>6, Parts
<1>8. cut' \in [incoming : Nat, outgoing : Nat]
  BY <1>1, Parts DEF Loop
<1> QED BY <1>1, <1>2, <1>4, <1>7, <1>8, MailStep

\* The message a reader of the mailbox holds.
LEMMA Held ==
    ASSUME IInv, NEW n \in Call, pc[n] = "took"
    PROVE  text[n][1] \in 1 .. pushed
<1>1. PICK i \in 1 .. pushed : text[n] = <<i>>
  BY Parts DEF Texts
<1> QED BY <1>1

\* Deleting row x takes no other message away.
LEMMA PoppedRows ==
    ASSUME NEW q, NEW k \in Nat, NEW g, NEW c \in Nat, Incoming(q, k, g, c), NEW x, NEW r,
           r = Popped(q, x)
    PROVE  \A y \in ToSet(q.rows) : y \in ToSet(r.rows) \/ y = x
<1> DEFINE s == q.rows
           t == RemoveFirst(q.rows, x)
<1>1. s \in Seq(1 .. k) /\ r.rows = t /\ \A i, j \in 1 .. Len(s) : i < j => s[i] < s[j]
  BY DEF Incoming, Deque, Popped
<1>2. \A i, j \in 1 .. Len(s) : s[i] = s[j] => i = j
  <2>1. \A i \in 1 .. Len(s) : s[i] \in Nat
    BY <1>1
  <2> QED BY <1>1, <2>1
<1> DEFINE S == 1 .. k
<1>3. s \in Seq(S) /\ t = RemoveFirst(s, x)
  BY <1>1
<1> HIDE DEF s, t, S
<1>4. PICK d \in 1 .. Len(s) + 1 : RemovedAt(s, x, d)
  BY <1>2, <1>3, RemovedPlace
<1>5. /\ t \in Seq(S)
      /\ \A i \in 1 .. Len(s) : \/ i < d /\ i \in 1 .. Len(t) /\ t[i] = s[i]
                                \/ i > d /\ i - 1 \in 1 .. Len(t) /\ t[i - 1] = s[i]
                                \/ i = d /\ s[i] = x
  BY <1>3, <1>4, RemovedRows
<1>6. \A y : y \in ToSet(s) <=> \E i \in 1 .. Len(s) : s[i] = y
  BY <1>3, ToSetIndex
<1>7. \A y : y \in ToSet(t) <=> \E i \in 1 .. Len(t) : t[i] = y
  BY <1>5, ToSetIndex
<1>8. \A y \in ToSet(s) : y \in ToSet(t) \/ y = x
  BY <1>5, <1>6, <1>7
<1> QED BY <1>1, <1>8 DEF s

\* The row taken from the incoming mailbox keeps the invariant: it counts as given.
LEMMA TookStep ==
    ASSUME IInv, NEW n \in Call, took(n)
    PROVE  IInv'
<1> DEFINE x == text[n][1]
<1>1. /\ n \in DOMAIN who /\ pc[n] = "took" /\ pc' = [pc EXCEPT ![n] = "answer"]
      /\ incoming' = Popped(incoming, x) /\ given' = given \cup {x} /\ text' = [text EXCEPT ![n] = <<n>>]
      /\ UNCHANGED <<who, ipc, box, lines, out, pushing, pushed, cut, upset>>
  BY Parts DEF took, GoTo
<1>2. UNCHANGED <<who, wire, pending, popping, pushing, pushed, ipc, box, flowQ, attempts, readQ,
                  read, outgoing, cut, upset>>
  BY <1>1 DEF lines, out
<1>3. "answer" \in Place /\ pc[n] \notin AtRead \cup {"answer"} /\ "answer" \notin AtRead
  BY <1>1 DEF Place, AtRead
<1>4. text' \in [Call -> Seq(Nat)] /\ Texts(pc', text', pushed)
  <2>1. <<n>> \in Seq(Call)
    BY Constant
  <2> QED BY <1>1, <2>1, TextSet
<1>5. Flow(pc', flowQ, attempts)
  BY <1>1, FlowAside
<1>6. Readers(pc', readQ)
  BY <1>1, <1>3, ReadAside
<1>7. x \in 1 .. pushed
  BY <1>1, Held
<1>8. /\ pushed \in Nat /\ cut.incoming \in Nat /\ cut.outgoing \in Nat /\ given \subseteq 1 .. pushed
      /\ Incoming(incoming, pushed, given, cut.incoming)
  BY Parts DEF Incoming, Loop
<1> HIDE DEF x
<1>9. Incoming(incoming', pushed, given', cut.incoming)
  <2>1. \A y \in ToSet(incoming.rows) : y \in ToSet((incoming').rows) \/ y = x
    BY <1>1, <1>8, PoppedRows
  <2>2. incoming' \in Abandoned(incoming, x)
    BY <1>1 DEF Abandoned
  <2>3. /\ given \subseteq given' /\ given' \subseteq 1 .. pushed
        /\ \A y \in ToSet(incoming.rows) : y \in ToSet((incoming').rows) \/ y \in given'
    BY <1>1, <1>7, <1>8, <2>1
  <2> QED BY <1>8, <2>2, <2>3, IncomingPop
<1>10. Outgoing(outgoing, pc', cut.outgoing)
  <2>1. \A m \in Call : pc[m] \in Past => pc'[m] \in Past
    BY <1>1, Parts DEF Past
  <2> QED BY <1>8, <2>1, Parts, OutgoingKept
<1>11. /\ ipc' \in [Corr -> Call \cup {0}] /\ Registered(ipc') /\ box' \in [Call -> Answer]
       /\ flowQ' \in Seq(Call) /\ attempts' \in 0 .. MaxAttempts /\ Flow(pc', flowQ', attempts')
       /\ readQ' \in Seq(Call) /\ Readers(pc', readQ') /\ read' \in ReadType /\ upset' \in BOOLEAN
       /\ Incoming(incoming', pushed, given', (cut').incoming)
       /\ Outgoing(outgoing', pc', (cut').outgoing)
  BY <1>2, <1>5, <1>6, <1>9, <1>10, Parts
<1>12. cut' \in [incoming : Nat, outgoing : Nat]
  BY <1>2, Parts DEF Loop
<1> QED BY <1>1, <1>2, <1>3, <1>4, <1>11, <1>12, MailStep

\* What becomes of the mailboxes when a call is cancelled.
LEMMA CancelMail ==
    ASSUME IInv, NEW n \in Call, cancel(n)
    PROVE  /\ Incoming(incoming', pushed, given', (cut').incoming)
           /\ Outgoing(outgoing', pc', (cut').outgoing) /\ cut' \in [incoming : Nat, outgoing : Nat]
<1>1. /\ pc' = [pc EXCEPT ![n] = "done"] /\ pc[n] # "new"
      /\ IF pc[n] # "took" \/ pushing THEN UNCHANGED <<incoming, given>>
         ELSE /\ incoming' \in Abandoned(incoming, text[n][1])
              /\ given' = given \cup (ToSet(incoming.rows) \ ToSet(incoming'.rows))
      /\ IF pc[n] # "wrote" THEN UNCHANGED <<outgoing, cut>>
         ELSE /\ outgoing' \in Cut(outgoing, n)
              /\ cut' = [cut EXCEPT !.outgoing = @ + Lost(outgoing, outgoing')]
  BY DEF cancel, GoTo
<1>2. pc'[n] = "done" /\ \A m \in Call : m # n => pc'[m] = pc[m]
  BY <1>1, Parts
<1>3. /\ pushed \in Nat /\ cut.incoming \in Nat /\ cut.outgoing \in Nat /\ given \subseteq 1 .. pushed
      /\ Incoming(incoming, pushed, given, cut.incoming) /\ Outgoing(outgoing, pc, cut.outgoing)
      /\ cut \in [incoming : Nat, outgoing : Nat] /\ outgoing \in Deque(Call)
      /\ incoming.rows \in Seq(1 .. pushed)
  BY Parts DEF Incoming, Loop, Outgoing, Deque
<1>4. Incoming(incoming', pushed, given', cut.incoming)
  <2>1. CASE pc[n] # "took" \/ pushing
    BY <1>1, <1>3, <2>1
  <2>2. CASE ~(pc[n] # "took" \/ pushing)
    <3> DEFINE x == text[n][1]
    <3>1. incoming' \in Abandoned(incoming, x)
      BY <1>1, <2>2
    <3>2. given' = given \cup (ToSet(incoming.rows) \ ToSet(incoming'.rows))
      BY <1>1, <2>2
    <3>3. ToSet(incoming.rows) \subseteq 1 .. pushed
      <4>1. \A y : y \in ToSet(incoming.rows) <=> \E i \in 1 .. Len(incoming.rows) : incoming.rows[i] = y
        BY <1>3, ToSetIndex
      <4> QED BY <1>3, <4>1
    <3> HIDE DEF x
    <3>4. /\ given \subseteq given' /\ given' \subseteq 1 .. pushed
          /\ \A y \in ToSet(incoming.rows) : y \in ToSet((incoming').rows) \/ y \in given'
      BY <1>3, <3>2, <3>3
    <3> QED BY <1>3, <3>1, <3>4, IncomingPop
  <2> QED BY <2>1, <2>2
<1>5. /\ \A m \in Call : m # n => pc'[m] = pc[m]
      /\ pc'[n] \in Past /\ \A m \in Call : pc[m] \in Past => pc'[m] \in Past
  BY <1>2 DEF Past
<1>6. CASE pc[n] # "wrote"
  <2>1. outgoing' = outgoing /\ cut' = cut
    BY <1>1, <1>6
  <2>2. Outgoing(outgoing, pc', cut.outgoing)
    BY <1>3, <1>5, OutgoingKept
  <2> QED BY <1>3, <1>4, <2>1, <2>2
<1>7. CASE pc[n] = "wrote"
  <2>1. outgoing' \in Cut(outgoing, n) /\ cut' = [cut EXCEPT !.outgoing = @ + Lost(outgoing, outgoing')]
    BY <1>1, <1>7
  <2>2. CASE outgoing' = append_impl(outgoing, n) /\ Lost(outgoing, outgoing') = 0
    <3>1. Outgoing(outgoing', pc', cut.outgoing)
      BY <1>3, <1>5, <1>7, <2>2, OutgoingAppend
    <3>2. cut' = [cut EXCEPT !.outgoing = @ + 0]
      BY <2>1, <2>2
    <3>3. cut' \in [incoming : Nat, outgoing : Nat] /\ (cut').outgoing = cut.outgoing /\ (cut').incoming = cut.incoming
      BY <1>3, <3>2
    <3> QED BY <1>4, <3>1, <3>3
  <2>3. CASE outgoing' = [rows |-> outgoing.rows, length |-> outgoing.length + 1] /\ Lost(outgoing, outgoing') = 1
    <3>1. Outgoing(outgoing', pc', cut.outgoing + 1)
      <4>1. Outgoing(outgoing, pc', cut.outgoing)
        BY <1>3, <1>5, OutgoingKept
      <4> QED BY <1>3, <2>3, <4>1, CountRaised
    <3>2. cut' = [cut EXCEPT !.outgoing = @ + 1]
      BY <2>1, <2>3
    <3>3. cut' \in [incoming : Nat, outgoing : Nat] /\ (cut').outgoing = cut.outgoing + 1 /\ (cut').incoming = cut.incoming
      BY <1>3, <3>2
    <3> QED BY <1>4, <3>1, <3>3
  <2> QED BY <1>3, <2>1, <2>2, <2>3, CutCases
<1> QED BY <1>6, <1>7

\* A caller that goes away keeps the invariant, wherever its request was.
LEMMA CancelStep ==
    ASSUME IInv, NEW n \in Call, cancel(n)
    PROVE  IInv'
<1>1. /\ n \in DOMAIN who /\ pc' = [pc EXCEPT ![n] = "done"] /\ Unregister(n)
      /\ flowQ' = RemoveFirst(flowQ, n) /\ LeaveReadLock(n)
      /\ attempts' = IF flowQ # <<>> /\ Head(flowQ) = n THEN 0 ELSE attempts
      /\ upset' = (upset \/ pc[n] \in {"pin", "reading"})
      /\ box' = [box EXCEPT ![n] = NoAnswer] /\ text' = [text EXCEPT ![n] = <<n>>]
      /\ UNCHANGED <<who, wire, pending, popping, pushing, pushed>>
  BY Parts DEF cancel, GoTo
<1>2. ipc' \in [Corr -> Call \cup {0}] /\ Registered(ipc')
  BY <1>1, UnregisterType
<1>3. flowQ' \in Seq(Call) /\ Flow(pc', flowQ', attempts')
  BY <1>1, FlowCancel
<1>4. attempts' \in 0 .. MaxAttempts
  BY <1>1, Parts, RequestConstants
<1>5. "done" \in Place /\ "done" \notin AtRead
  BY DEF Place, AtRead
<1>6. readQ' \in Seq(Call) /\ Readers(pc', readQ') /\ read' \in ReadType
  <2>1. readQ' = RemoveFirst(readQ, n) /\ read' \in ReadType
    BY <1>1, Parts, Constant DEF LeaveReadLock
  <2> QED BY <1>1, <1>5, <2>1, ReadLeave
<1>7. text' \in [Call -> Seq(Nat)] /\ Texts(pc', text', pushed)
  <2>1. <<n>> \in Seq(Call)
    BY Constant
  <2> QED BY <1>1, <2>1, TextSet
<1>8. box' \in [Call -> Answer] /\ upset' \in BOOLEAN
  BY <1>1, Parts, Constant
<1> QED BY <1>1, <1>2, <1>3, <1>4, <1>5, <1>6, <1>7, <1>8, CancelMail, MailStep

----------------------------------------------------------------------------
(* The steps of _read_loop *)

\* _read_loop changes what it may, and no call goes on.
LEMMA LoopStep ==
    ASSUME IInv, UNCHANGED <<who, pc, ipc, text, flowQ, attempts, readQ>>,
           box' \in [Call -> Answer], read' \in ReadType, wire' \in Seq(Frame),
           pending' \in Seq(Call), Len(pending') <= PinLimit,
           \A i \in 1 .. Len(pending') : pc[pending'[i]] # "new", upset' \in BOOLEAN,
           pushed' \in Nat, pushed <= pushed',
           Incoming(incoming', pushed', given', (cut').incoming),
           Outgoing(outgoing', pc, (cut').outgoing), Loop'
    PROVE  IInv'
<1>1. Types'
  BY Parts DEF Types, ReadType
<1>2. Known(pc', pending')
  BY Parts DEF Known
<1>3. Texts(pc', text', pushed')
  <2>1. pushed \in Nat /\ 1 .. pushed \subseteq 1 .. pushed'
    BY Parts DEF Loop
  <2>2. Texts(pc, text, pushed)
    BY Parts
  <2>3. Texts(pc, text, pushed')
    BY <2>1, <2>2 DEF Texts
  <2> QED BY <2>3
<1>4. /\ who' = who /\ Registered(ipc') /\ text' \in [Call -> Seq(Nat)]
      /\ Flow(pc', flowQ', attempts') /\ Readers(pc', readQ')
      /\ Outgoing(outgoing', pc', (cut').outgoing)
  BY Parts
<1> QED BY <1>1, <1>2, <1>3, <1>4, Assemble

\* The same when the mailboxes stay as they are.
LEMMA FrameStep ==
    ASSUME IInv, UNCHANGED <<who, pc, ipc, text, flowQ, attempts, readQ, mail>>,
           box' \in [Call -> Answer], read' \in ReadType, wire' \in Seq(Frame),
           pending' \in Seq(Call), Len(pending') <= PinLimit,
           \A i \in 1 .. Len(pending') : pc[pending'[i]] # "new", upset' \in BOOLEAN
    PROVE  IInv'
<1>1. /\ incoming' = incoming /\ outgoing' = outgoing /\ popping' = popping /\ pushing' = pushing
      /\ pushed' = pushed /\ given' = given /\ cut' = cut
  BY DEF mail, out
<1>2. /\ Loop' /\ Incoming(incoming', pushed', given', (cut').incoming)
      /\ Outgoing(outgoing', pc, (cut').outgoing)
  BY <1>1, Parts DEF Loop
<1>3. pushed' \in Nat /\ pushed <= pushed'
  BY <1>1, Parts DEF Loop
<1> QED BY <1>2, <1>3, LoopStep

\* A pin response, matched to the oldest pending request, keeps the invariant.
LEMMA PinRespStep ==
    ASSUME IInv, on_pin_resp
    PROVE  IInv'
<1>1. /\ wire # <<>> /\ UNCHANGED <<who, ipc, text, readQ, read, mail>>
      /\ IF attempts > 0
         THEN GoTo(Head(flowQ), Returned(Head(flowQ))) /\ flowQ' = Tail(flowQ) /\ attempts' = 0
         ELSE UNCHANGED <<pc, flowQ, attempts>>
  BY DEF on_pin_resp
<1>2. /\ box' \in [Call -> Answer] /\ wire' \in Seq(Frame) /\ pending' \in Seq(Call)
      /\ Len(pending') <= PinLimit /\ \A i \in 1 .. Len(pending') : pc[pending'[i]] # "new"
      /\ upset' \in BOOLEAN
  <2>1. CASE pending # <<>> /\ QueueFull(Head(pending))
    <3>1. wire' = <<>> /\ pending' = Tail(pending) /\ upset' \in BOOLEAN /\ box' = box
      BY <2>1 DEF on_pin_resp, port_closed
    <3>2. /\ pending' \in Seq(Call) /\ Len(pending') = Len(pending) - 1 /\ Len(pending) \in Nat
          /\ \A i \in 1 .. Len(pending') : i + 1 \in 1 .. Len(pending) /\ pending'[i] = pending[i + 1]
      <4>1. pending \in Seq(Call) /\ pending # <<>>
        BY <2>1, Parts
      <4> QED BY <3>1, <4>1, TailIndex
    <3>3. Len(pending') <= PinLimit
      BY <3>2, Parts, RequestConstants
    <3>4. \A i \in 1 .. Len(pending') : pc[pending'[i]] # "new"
      BY <3>2, Parts
    <3>5. wire' \in Seq(Frame)
      BY <3>1
    <3> QED BY <3>1, <3>2, <3>3, <3>4, <3>5, Parts
  <2>2. CASE ~(pending # <<>> /\ QueueFull(Head(pending)))
    <3>1. /\ wire' = Tail(wire) /\ upset' = upset
          /\ IF pending = <<>> THEN UNCHANGED <<box, pending>>
             ELSE Put(Head(pending), <<Head(wire).of>>) /\ pending' = Tail(pending)
      BY <2>2 DEF on_pin_resp
    <3>2. wire' \in Seq(Frame) /\ Head(wire) \in Frame
      BY <1>1, <3>1, Parts, TailIndex
    <3>3. CASE pending = <<>>
      BY <3>1, <3>2, <3>3, Parts
    <3>4. CASE pending # <<>>
      <4>1. /\ Head(pending) = pending[1] /\ 1 \in 1 .. Len(pending) /\ Len(pending) \in Nat
            /\ pending' \in Seq(Call) /\ Len(pending') = Len(pending) - 1
            /\ \A i \in 1 .. Len(pending') : i + 1 \in 1 .. Len(pending) /\ pending'[i] = pending[i + 1]
        <5>1. pending \in Seq(Call) /\ pending' = Tail(pending)
          BY <3>1, <3>4, Parts
        <5> QED BY <3>4, <5>1, TailIndex
      <4>2. Head(pending) \in DOMAIN who
        BY <3>4, <4>1, Parts
      <4>3. <<Head(wire).of>> \in Seq(Call)
        BY <3>2 DEF Frame
      <4>4. box' \in [Call -> Answer]
        <5> DEFINE m == Head(pending)
                   t == <<Head(wire).of>>
        <5>1. Put(m, t) /\ m \in DOMAIN who /\ t \in Seq(Call)
          BY <3>1, <3>4, <4>2, <4>3
        <5> HIDE DEF m, t
        <5> QED BY <5>1, PutType
      <4>5. Len(pending') <= PinLimit
        BY <4>1, Parts, RequestConstants
      <4>6. \A i \in 1 .. Len(pending') : pc[pending'[i]] # "new"
        BY <4>1, Parts
      <4> QED BY <3>1, <3>2, <4>1, <4>4, <4>5, <4>6, Parts
    <3> QED BY <3>3, <3>4
  <2> QED BY <2>1, <2>2
<1>3. CASE attempts > 0
  <2> DEFINE n == Head(flowQ)
  <2>1. flowQ # <<>> /\ pc[n] = "pin" /\ Sender(n)
    BY <1>3, Parts DEF Flow, Sender
  <2>2. n \in Call
    BY <2>1, Parts, TailIndex
  <2>3. pc' = [pc EXCEPT ![n] = Returned(n)] /\ flowQ' = Tail(flowQ) /\ attempts' = 0
    BY <1>1, <1>3 DEF GoTo
  <2> HIDE DEF n
  <2>4. Returned(n) \in {"waits", "done", "answer"}
    BY Constant
  <2> QED BY <1>1, <1>2, <2>1, <2>2, <2>3, <2>4, LeaveStep
<1>4. CASE ~(attempts > 0)
  <2>1. UNCHANGED <<who, pc, ipc, text, flowQ, attempts, readQ, mail>> /\ read' \in ReadType
    BY <1>1, <1>4, Parts
  <2> QED BY <1>2, <2>1, FrameStep
<1> QED BY <1>3, <1>4

\* A response to a file read keeps the invariant.
LEMMA FileRespStep ==
    ASSUME IInv, on_file_read_resp
    PROVE  IInv'
<1>1. /\ wire # <<>> /\ wire' = Tail(wire)
      /\ read' = IF ~read.open \/ read.done THEN read
                 ELSE IF Head(wire).kind = "end" THEN [read EXCEPT !.done = TRUE]
                 ELSE [read EXCEPT !.chunks = Append(@, Head(wire).of)]
      /\ UNCHANGED <<who, pc, ipc, box, text, flowQ, attempts, readQ, pending, mail, upset>>
  BY DEF on_file_read_resp
<1>2. wire' \in Seq(Frame) /\ Head(wire) \in Frame
  BY <1>1, Parts, TailIndex
<1>3. read' \in ReadType
  <2>1. Head(wire).of \in Call
    BY <1>2 DEF Frame
  <2>2. read \in ReadType /\ read.chunks \in Seq(Call)
    BY Parts DEF ReadType
  <2>3. Append(read.chunks, Head(wire).of) \in Seq(Call)
    BY <2>1, <2>2
  <2> QED BY <1>1, <2>2, <2>3 DEF ReadType
<1>4. /\ box' \in [Call -> Answer] /\ pending' \in Seq(Call) /\ Len(pending') <= PinLimit
      /\ \A i \in 1 .. Len(pending') : pc[pending'[i]] # "new"
      /\ upset' \in BOOLEAN
  BY <1>1, Parts
<1> QED BY <1>1, <1>2, <1>3, <1>4, FrameStep

\* A lost frame keeps the invariant.
LEMMA LoseStep ==
    ASSUME IInv, lose
    PROVE  IInv'
<1>1. /\ wire # <<>> /\ wire' = Tail(wire) /\ upset' = (upset \/ Head(wire).kind # "pin")
      /\ UNCHANGED <<who, pc, ipc, box, text, flowQ, attempts, readQ, read, pending, mail>>
  BY DEF lose
<1>2. wire' \in Seq(Frame)
  BY <1>1, Parts, TailIndex
<1>3. upset' \in BOOLEAN
  BY <1>1
<1>4. /\ box' \in [Call -> Answer] /\ pending' \in Seq(Call) /\ Len(pending') <= PinLimit
      /\ \A i \in 1 .. Len(pending') : pc[pending'[i]] # "new" /\ read' \in ReadType
  BY <1>1, Parts
<1>5. read' \in ReadType
  BY <1>1, Parts
<1> QED BY <1>1, <1>2, <1>3, <1>4, <1>5, FrameStep

\* A connection that an exception of a handler ends keeps the invariant.
LEMMA EscapeStep ==
    ASSUME IInv, escape
    PROVE  IInv'
<1>1. /\ wire' = <<>> /\ upset' \in BOOLEAN
      /\ UNCHANGED <<who, pc, ipc, box, text, flowQ, attempts, readQ, read, pending, mail>>
  BY DEF escape, port_closed
<1>2. /\ box' \in [Call -> Answer] /\ pending' \in Seq(Call) /\ Len(pending') <= PinLimit
      /\ \A i \in 1 .. Len(pending') : pc[pending'[i]] # "new" /\ read' \in ReadType
  BY <1>1, Parts
<1>3. read' \in ReadType /\ wire' \in Seq(Frame)
  BY <1>1, Parts
<1> QED BY <1>1, <1>2, <1>3, FrameStep

\* The typing facts of what no mailbox step touches.
LEMMA LinesKept ==
    ASSUME IInv, UNCHANGED <<box, lines, upset>>
    PROVE  /\ box' \in [Call -> Answer] /\ read' \in ReadType /\ wire' \in Seq(Frame)
           /\ pending' \in Seq(Call) /\ Len(pending') <= PinLimit
           /\ \A i \in 1 .. Len(pending') : pc[pending'[i]] # "new"
           /\ upset' \in BOOLEAN /\ UNCHANGED <<flowQ, attempts, readQ>>
<1>1. UNCHANGED <<flowQ, attempts, readQ, read, wire, pending>>
  BY DEF lines
<1> QED BY <1>1, Parts

\* The start of a push of the MCU keeps the invariant.
LEMMA PushStep ==
    ASSUME IInv, mailbox_push
    PROVE  IInv'
<1>1. /\ pushed < MaxPush /\ popping = 0 /\ pushing' = TRUE
      /\ UNCHANGED <<who, pc, ipc, box, text, lines, incoming, outgoing, popping, pushed, given, cut, upset>>
  BY DEF mailbox_push, Free, out
<1>2. Loop'
  BY <1>1, Parts DEF Loop
<1>3. /\ pushed' \in Nat /\ pushed <= pushed'
      /\ Incoming(incoming', pushed', given', (cut').incoming)
      /\ Outgoing(outgoing', pc, (cut').outgoing)
  BY <1>1, Parts DEF Loop
<1> QED BY <1>1, <1>2, <1>3, LinesKept, LoopStep

\* The row a push appends to the incoming mailbox keeps the invariant.
LEMMA PushedStep ==
    ASSUME IInv, mailbox_pushed
    PROVE  IInv'
<1>1. /\ pushing /\ pushing' = FALSE /\ pushed' = pushed + 1
      /\ incoming' = append_impl(incoming, pushed + 1)
      /\ UNCHANGED <<who, pc, ipc, box, text, lines, outgoing, popping, given, cut, upset>>
  BY DEF mailbox_pushed, out
<1>2. /\ pushed \in Nat /\ pushed < MaxPush /\ cut.incoming \in Nat
      /\ Incoming(incoming, pushed, given, cut.incoming)
  BY <1>1, Parts DEF Loop
<1>3. pushed' \in Nat /\ pushed <= pushed' /\ pushed' \in 0 .. MaxPush
  BY <1>1, <1>2, RequestConstants
<1>4. Loop'
  BY <1>1, <1>3, Parts DEF Loop
<1>5. Incoming(incoming', pushed + 1, given, cut.incoming)
  BY <1>1, <1>2, IncomingAppend
<1>6. /\ Incoming(incoming', pushed', given', (cut').incoming)
      /\ Outgoing(outgoing', pc, (cut').outgoing)
  BY <1>1, <1>5, Parts
<1> QED BY <1>1, <1>3, <1>4, <1>6, LinesKept, LoopStep

\* The start of a read of the mailbox by the MCU keeps the invariant.
LEMMA MailboxReadStep ==
    ASSUME IInv, mailbox_read
    PROVE  IInv'
<1>1. /\ ~pushing /\ outgoing.rows # <<>> /\ popping' = Head(outgoing.rows)
      /\ UNCHANGED <<who, pc, ipc, box, text, lines, incoming, outgoing, pushing, pushed, given, cut, upset>>
  BY DEF mailbox_read, Free
<1>2. popping' \in Call
  <2>1. outgoing.rows \in Seq(Call)
    BY Parts DEF Outgoing, Deque
  <2> QED BY <1>1, <2>1, TailIndex
<1>3. Loop'
  BY <1>1, <1>2, Parts DEF Loop
<1>4. /\ pushed' \in Nat /\ pushed <= pushed'
      /\ Incoming(incoming', pushed', given', (cut').incoming)
      /\ Outgoing(outgoing', pc, (cut').outgoing)
  BY <1>1, Parts DEF Loop
<1> QED BY <1>1, <1>3, <1>4, LinesKept, LoopStep

\* The row removed once the MCU has it keeps the invariant.
LEMMA MailboxSentStep ==
    ASSUME IInv, mailbox_sent
    PROVE  IInv'
<1>1. /\ popping' = 0 /\ outgoing' = Popped(outgoing, popping)
      /\ UNCHANGED <<who, pc, ipc, box, text, lines, incoming, pushing, pushed, given, cut, upset>>
  BY DEF mailbox_sent
<1>2. Loop'
  BY <1>1, Parts DEF Loop
<1>3. Outgoing(outgoing', pc, cut.outgoing)
  <2>1. outgoing' \in Abandoned(outgoing, popping)
    BY <1>1 DEF Abandoned
  <2>2. cut.outgoing \in Nat /\ Outgoing(outgoing, pc, cut.outgoing)
    BY Parts DEF Loop
  <2> QED BY <2>1, <2>2, OutgoingPop
<1>4. /\ pushed' \in Nat /\ pushed <= pushed'
      /\ Incoming(incoming', pushed', given', (cut').incoming)
      /\ Outgoing(outgoing', pc, (cut').outgoing)
  BY <1>1, <1>3, Parts DEF Loop
<1> QED BY <1>1, <1>2, <1>4, LinesKept, LoopStep

\* A lost connection, with whatever it cuts short, keeps the invariant.
LEMMA DisconnectStep ==
    ASSUME IInv, disconnect
    PROVE  IInv'
<1>1. /\ wire' = <<>> /\ pending' = <<>> /\ upset' \in BOOLEAN
      /\ outgoing' \in IF popping = 0 \/ Writing THEN {outgoing} ELSE Abandoned(outgoing, popping)
      /\ incoming' \in IF pushing THEN Cut(incoming, pushed + 1) ELSE {incoming}
      /\ cut' = [cut EXCEPT !.incoming = @ + Lost(incoming, incoming')]
      /\ pushed' = IF pushing /\ Lost(incoming, incoming') = 0 THEN pushed + 1 ELSE pushed
      /\ popping' = 0 /\ pushing' = FALSE
      /\ UNCHANGED <<who, pc, ipc, box, text, flowQ, attempts, readQ, read, given>>
  BY DEF disconnect, port_closed, on_serial_disconnected
<1>2. /\ pushed \in 0 .. MaxPush /\ pushed \in Nat /\ (pushing => pushed < MaxPush) /\ pushing \in BOOLEAN
      /\ cut \in [incoming : Nat, outgoing : Nat] /\ cut.incoming \in Nat /\ cut.outgoing \in Nat
      /\ Incoming(incoming, pushed, given, cut.incoming) /\ Outgoing(outgoing, pc, cut.outgoing)
  BY Parts DEF Loop
<1>3. Outgoing(outgoing', pc, cut.outgoing)
  <2>1. CASE popping = 0 \/ Writing
    BY <1>1, <1>2, <2>1
  <2>2. CASE ~(popping = 0 \/ Writing)
    <3>1. outgoing' \in Abandoned(outgoing, popping)
      BY <1>1, <2>2
    <3> QED BY <1>2, <3>1, OutgoingPop
  <2> QED BY <2>1, <2>2
<1>4. \E c \in {0, 1} :
        /\ Lost(incoming, incoming') = c /\ pushed' \in {pushed, pushed + 1}
        /\ pushed' \in 0 .. MaxPush /\ Incoming(incoming', pushed', given, cut.incoming + c)
  <2>1. CASE ~pushing
    <3>1. incoming' = incoming /\ pushed' = pushed
      BY <1>1, <2>1
    <3>2. Lost(incoming, incoming') = 0
      <4>1. incoming.length \in Nat
        BY <1>2 DEF Incoming, Deque
      <4>2. ~(incoming.length > incoming.length)
        BY <4>1
      <4> QED BY <3>1, <4>2 DEF Lost
    <3>3. cut.incoming + 0 = cut.incoming
      BY <1>2
    <3> QED BY <1>2, <3>1, <3>2, <3>3
  <2>2. CASE pushing
    <3> DEFINE S == 1 .. pushed + 1
               x == pushed + 1
    <3>1. incoming' \in Cut(incoming, x)
      BY <1>1, <2>2
    <3>2. incoming \in Deque(S) /\ x \in S
      BY <1>2 DEF Incoming, Deque
    <3> HIDE DEF S
    <3>3. CASE incoming' = append_impl(incoming, x) /\ Lost(incoming, incoming') = 0
      <4>1. Incoming(incoming', pushed + 1, given, cut.incoming)
        BY <1>2, <3>3, IncomingAppend
      <4>2. pushed' = pushed + 1 /\ pushed' \in 0 .. MaxPush
        BY <1>1, <1>2, <2>2, <3>3, RequestConstants
      <4>3. cut.incoming + 0 = cut.incoming
        BY <1>2
      <4> QED BY <3>3, <4>1, <4>2, <4>3
    <3>4. CASE incoming' = [rows |-> incoming.rows, length |-> incoming.length + 1] /\ Lost(incoming, incoming') = 1
      <4>1. Incoming(incoming', pushed, given, cut.incoming + 1)
        BY <1>2, <3>4, CountRaised
      <4>2. pushed' = pushed
        BY <1>1, <3>4
      <4> QED BY <1>2, <3>4, <4>1, <4>2
    <3> HIDE DEF x
    <3> QED BY <3>1, <3>2, <3>3, <3>4, CutCases
  <2> QED BY <1>2, <2>1, <2>2
<1>5. PICK c \in {0, 1} :
        /\ Lost(incoming, incoming') = c /\ pushed' \in {pushed, pushed + 1}
        /\ pushed' \in 0 .. MaxPush /\ Incoming(incoming', pushed', given, cut.incoming + c)
  BY <1>4
<1>6. /\ cut' \in [incoming : Nat, outgoing : Nat] /\ (cut').incoming = cut.incoming + c
      /\ (cut').outgoing = cut.outgoing
  <2>1. cut' = [cut EXCEPT !.incoming = @ + c] /\ c \in Nat
    BY <1>1, <1>5
  <2> QED BY <1>2, <2>1
<1>7. Loop'
  BY <1>1, <1>5, <1>6 DEF Loop
<1>8. /\ pushed' \in Nat /\ pushed <= pushed'
      /\ Incoming(incoming', pushed', given', (cut').incoming)
      /\ Outgoing(outgoing', pc, (cut').outgoing)
  <2>1. pushed' \in Nat /\ pushed <= pushed'
    BY <1>2, <1>5
  <2> QED BY <1>1, <1>3, <1>5, <1>6, <2>1
<1>9. /\ box' \in [Call -> Answer] /\ read' \in ReadType /\ wire' \in Seq(Frame)
      /\ pending' \in Seq(Call) /\ Len(pending') <= PinLimit
      /\ \A i \in 1 .. Len(pending') : pc[pending'[i]] # "new"
  <2>1. Len(pending') <= PinLimit /\ \A i \in 1 .. Len(pending') : FALSE
    BY <1>1, RequestConstants
  <2> QED BY <1>1, <2>1, Parts
<1> QED BY <1>1, <1>7, <1>8, <1>9, LoopStep

----------------------------------------------------------------------------
(* The invariant *)

\* The daemon starts in a state of the invariant.
LEMMA InitIInv ==
    ASSUME Init
    PROVE  IInv
<1>1. Types
  <2>1. <<>> \in Seq(Call) /\ <<>> \in Seq(Frame) /\ Len(<<>>) = 0
    OBVIOUS
  <2>2. NoAnswer \in Answer /\ NoRead \in ReadType
    BY Constant
  <2>3. who \in Setups /\ attempts = 0 /\ upset = FALSE /\ read = NoRead
        /\ flowQ = <<>> /\ readQ = <<>> /\ wire = <<>> /\ pending = <<>>
    BY DEF Init
  <2>4. pc \in [Call -> Place] /\ ipc \in [Corr -> Call \cup {0}]
    BY DEF Init, Place
  <2>5. box \in [Call -> Answer]
    BY <2>2 DEF Init
  <2>6. attempts \in 0 .. MaxAttempts /\ 0 <= PinLimit
    BY <2>3, RequestConstants
  <2> QED BY <2>1, <2>2, <2>3, <2>4, <2>5, <2>6 DEF Types, ReadType
<1>2. Known(pc, pending) /\ Registered(ipc)
  BY DEF Init, Known, Registered
<1>3. text \in [Call -> Seq(Nat)] /\ Texts(pc, text, pushed)
  <2>1. \A n \in Call : <<n>> \in Seq(Call) /\ <<n>> \in Seq(Nat)
    BY DEF Call
  <2>2. \A n \in Call : text[n] = <<n>> /\ pc[n] # "took"
    BY DEF Init
  <2>3. text \in [Call -> Seq(Nat)]
    BY <2>1 DEF Init
  <2> QED BY <2>1, <2>2, <2>3 DEF Texts
<1>4. Flow(pc, flowQ, attempts)
  <2>1. Sending(pc) = {} /\ attempts = 0 /\ flowQ = <<>>
    BY DEF Init, Sending
  <2>2. Lists(<<>>, {})
    BY DEF Lists
  <2> QED BY <2>1, <2>2 DEF Flow
<1>5. Readers(pc, readQ)
  <2>1. Lists(<<>>, {}) /\ ToSet(<<>>) = {}
    BY ToSetEmpty DEF Lists
  <2> QED BY <2>1 DEF Init, Readers, AtRead
<1>6. /\ incoming = [rows |-> <<>>, length |-> 0] /\ outgoing = [rows |-> <<>>, length |-> 0]
      /\ cut = [incoming |-> 0, outgoing |-> 0] /\ pushed = 0 /\ given = {}
      /\ popping = 0 /\ pushing = FALSE
  BY DEF Init, Opened
<1>7. Incoming(incoming, pushed, given, cut.incoming)
  <2>1. incoming.rows = <<>> /\ incoming.length = 0 /\ cut.incoming = 0 /\ Len(<<>>) = 0
    BY <1>6
  <2>2. incoming \in Deque(1 .. pushed)
    BY <1>6 DEF Deque
  <2>3. 1 .. pushed = {}
    BY <1>6
  <2> QED BY <1>6, <2>1, <2>2, <2>3 DEF Incoming
<1>8. Outgoing(outgoing, pc, cut.outgoing)
  <2>1. outgoing.rows = <<>> /\ outgoing.length = 0 /\ cut.outgoing = 0 /\ Len(<<>>) = 0
    BY <1>6
  <2>2. outgoing \in Deque(Call)
    BY <1>6 DEF Deque
  <2> QED BY <2>1, <2>2 DEF Outgoing
<1>9. Loop
  <2>1. pushed \in 0 .. MaxPush
    BY <1>6, RequestConstants
  <2>2. cut \in [incoming : Nat, outgoing : Nat]
    BY <1>6
  <2> QED BY <1>6, <2>1, <2>2 DEF Loop
<1> QED BY <1>1, <1>2, <1>3, <1>4, <1>5, <1>7, <1>8, <1>9 DEF IInv

\* A stuttering step keeps the invariant.
LEMMA IdleStep ==
    ASSUME IInv, UNCHANGED vars
    PROVE  IInv'
<1>1. UNCHANGED <<who, pc, ipc, text, flowQ, attempts, readQ, box, read, wire, pending, mail, upset>>
  BY DEF vars, lines
<1>2. /\ box' \in [Call -> Answer] /\ read' \in ReadType /\ wire' \in Seq(Frame)
      /\ pending' \in Seq(Call) /\ Len(pending') <= PinLimit
      /\ \A i \in 1 .. Len(pending') : pc[pending'[i]] # "new"
      /\ upset' \in BOOLEAN
  BY <1>1, Parts
<1> QED BY <1>1, <1>2, FrameStep

\* Every step keeps the invariant.
LEMMA NextIInv ==
    ASSUME IInv, [Next]_vars
    PROVE  IInv'
<1>1. ASSUME NEW n \in Call, Serve(n) PROVE IInv'
  <2>1. CASE handle_request(n)
    BY <2>1, HandleStep
  <2>2. CASE raise(n)
    BY <2>2, RaiseStep
  <2>3. CASE answer(n)
    BY <2>3, AnswerStep
  <2>4. CASE wait(n)
    BY <2>4, WaitStep
  <2>5. CASE send(n)
    BY <2>5, SendStep
  <2>6. CASE send_pin(n)
    BY <2>6, SendPinStep
  <2>7. CASE send_pin_fails(n)
    BY <2>7, SendPinFailsStep
  <2>8. CASE read_start(n)
    BY <2>8, ReadStartStep
  <2>9. CASE read_send(n)
    BY <2>9, ReadSendStep
  <2>10. CASE read_end(n)
    BY <2>10, ReadEndStep
  <2>11. CASE take(n)
    BY <2>11, TakeStep
  <2>12. CASE took(n)
    BY <2>12, TookStep
  <2>13. CASE write(n)
    BY <2>13, WriteStep
  <2>14. CASE wrote(n)
    BY <2>14, WroteStep
  <2> QED BY <1>1, <2>1, <2>2, <2>3, <2>4, <2>5, <2>6, <2>7, <2>8, <2>9, <2>10, <2>11, <2>12,
             <2>13, <2>14 DEF Serve
<1>2. ASSUME NEW n \in Call, request(n) PROVE IInv'
  BY <1>2, RequestStep
<1>3. ASSUME NEW n \in Call, cancel(n) PROVE IInv'
  BY <1>3, CancelStep
<1>4. CASE on_pin_resp
  BY <1>4, PinRespStep
<1>5. CASE on_file_read_resp
  BY <1>5, FileRespStep
<1>6. CASE lose
  BY <1>6, LoseStep
<1>7. CASE disconnect
  BY <1>7, DisconnectStep
<1>8. CASE mailbox_push
  BY <1>8, PushStep
<1>9. CASE mailbox_pushed
  BY <1>9, PushedStep
<1>10. CASE mailbox_read
  BY <1>10, MailboxReadStep
<1>11. CASE mailbox_sent
  BY <1>11, MailboxSentStep
<1>12. CASE UNCHANGED vars
  BY <1>12, IdleStep
<1>13. ASSUME NEW n \in Call, get_slot(n) PROVE IInv'
  BY <1>13, SlotStep
<1>14. CASE escape
  BY <1>14, EscapeStep
<1> QED BY <1>1, <1>2, <1>3, <1>4, <1>5, <1>6, <1>7, <1>8, <1>9, <1>10, <1>11, <1>12, <1>13, <1>14
        DEF Next

\* The inductive invariant holds in every state.
THEOREM RequestsInvariant == Spec => []IInv
<1>1. Init => IInv
  BY InitIInv
<1>2. IInv /\ [Next]_vars => IInv'
  BY NextIInv
<1> QED BY <1>1, <1>2, PTL DEF Spec

\* Every variable keeps its type: the table of pin reads its limit, a reader of the mailbox is
\* given only what was pushed, and _read_loop has one frame in hand.
THEOREM RequestsTypeOK == Spec => []TypeOK
<1>1. IInv => TypeOK
  <2>1. SUFFICES ASSUME IInv PROVE TypeOK
    OBVIOUS
  <2>2. read.open \in BOOLEAN /\ read.done \in BOOLEAN /\ read.chunks \in Seq(Call)
    BY <2>1, Parts DEF ReadType
  <2>3. flowQ = <<>> => attempts = 0
    BY <2>1, Parts DEF Flow
  <2>4. /\ incoming.rows \in Seq(1 .. pushed) /\ incoming.length \in Nat /\ given \subseteq 1 .. pushed
        /\ outgoing.rows \in Seq(Call) /\ outgoing.length \in Nat
    BY <2>1, Parts DEF Incoming, Outgoing, Deque
  <2>5. /\ popping \in Call \cup {0} /\ pushing \in BOOLEAN /\ pushed \in 0 .. MaxPush
        /\ pushing => popping = 0
    BY <2>1, Parts DEF Loop
  <2>6. cut \in [incoming : Nat, outgoing : Nat]
    BY <2>1, Parts DEF Loop
  <2> QED BY <2>1, <2>2, <2>3, <2>4, <2>5, <2>6, Parts DEF TypeOK, Place, Frame
<1> QED BY <1>1, RequestsInvariant, PTL

\* A message pushed to the mailbox is there or was given to a reader, unless enough newer ones
\* replaced it: whatever readers, deletions by id and cancelled calls do meanwhile.
THEOREM PushedMessagesKept == Spec => []PushedKept
<1>1. IInv => PushedKept
  BY Parts DEF Incoming, PushedKept
<1> QED BY <1>1, RequestsInvariant, PTL

\* The MCU is told of no more messages than there are, but for those being written and for
\* the appends cancelled at a full mailbox.
THEOREM NoPhantomMessages == Spec => []NoPhantoms
<1>1. IInv => NoPhantoms
  <2>1. SUFFICES ASSUME IInv PROVE NoPhantoms
    OBVIOUS
  <2>2. incoming.length <= Len(incoming.rows) + cut.incoming
    BY <2>1, Parts DEF Incoming
  <2>3. /\ outgoing.length <= Len(outgoing.rows) + cut.outgoing /\ outgoing.length \in Nat
        /\ Len(outgoing.rows) \in Nat /\ cut.outgoing \in Nat
    BY <2>1, Parts DEF Outgoing, Deque, Loop
  <2> DEFINE w == IF Writing THEN 1 ELSE 0
  <2>4. w \in Nat
    OBVIOUS
  <2> HIDE DEF w
  <2>5. outgoing.length + w <= Len(outgoing.rows) + cut.outgoing + w
    BY <2>3, <2>4
  <2> QED BY <2>2, <2>5 DEF NoPhantoms, mailbox_available, w
<1> QED BY <1>1, RequestsInvariant, PTL

----------------------------------------------------------------------------
(* The answers.  First what a step leaves as it was. *)

\* The parts of the second invariant in the next state.
LEMMA Quietly ==
    ASSUME PinOrder(pc', flowQ', pending'), PinFrames(wire', attempts', flowQ'),
           FileFrames(pc', read', wire'), Own(pc', text')
    PROVE  Quiet'
  BY DEF Quiet, PinOrder, PinSet, PinFrames, FileFrames, Rest, Only, Own

\* A call that reads no pin goes on to where it reads none.
LEMMA OrderAside ==
    ASSUME IInv, Quiet, NEW n \in Call, NEW l, pc' = [pc EXCEPT ![n] = l], pc[n] # "pin", l # "pin"
    PROVE  PinSet(pc') = PinSet(pc) /\ PinOrder(pc', flowQ, pending)
<1>1. pc'[n] = l /\ \A m \in Call : m # n => pc'[m] = pc[m]
  BY Parts
<1>2. PinSet(pc') = PinSet(pc)
  BY <1>1 DEF PinSet
<1> QED BY <1>2 DEF Quiet, PinOrder

\* A call asks for _flow_lock for something else.
LEMMA OrderJoin ==
    ASSUME IInv, Quiet, NEW n \in Call, NEW l, pc' = [pc EXCEPT ![n] = l], pc[n] # "pin", l # "pin"
    PROVE  PinOrder(pc', Append(flowQ, n), pending)
<1> DEFINE f == Append(flowQ, n)
<1>1. PinSet(pc') = PinSet(pc)
  BY OrderAside
<1>2. /\ Len(f) = Len(flowQ) + 1 /\ f[Len(flowQ) + 1] = n
      /\ \A i \in 1 .. Len(f) : (i \in 1 .. Len(flowQ) /\ f[i] = flowQ[i]) \/ i = Len(flowQ) + 1
  BY Parts, AppendIndex
<1>3. Lists(pending, PinSet(pc)) /\ \A i \in 1 .. Len(pending) : pending[i] # n
  BY DEF Quiet, PinOrder, Lists, PinSet
<1> HIDE DEF f
<1>4. \A i \in 1 .. Len(pending), k \in 1 .. Len(f) : f[k] = pending[i] => k \in 1 .. Len(flowQ) /\ f[k] = flowQ[k]
  BY <1>2, <1>3
<1>5. PinOrder(pc', f, pending)
  BY <1>1, <1>3, <1>4 DEF Quiet, PinOrder
<1> QED BY <1>5 DEF f

\* The holder of _flow_lock, or one that waits for it, leaves: another one than a pin read.
LEMMA OrderLeave ==
    ASSUME IInv, Quiet, NEW n \in Call, NEW l, pc' = [pc EXCEPT ![n] = l], pc[n] # "pin", l # "pin"
    PROVE  PinOrder(pc', RemoveFirst(flowQ, n), pending)
<1> DEFINE f == RemoveFirst(flowQ, n)
<1>1. PinSet(pc') = PinSet(pc)
  BY OrderAside
<1>2. flowQ \in Seq(Call) /\ \A i, k \in 1 .. Len(flowQ) : flowQ[i] = flowQ[k] => i = k
  BY Parts DEF Flow, Lists
<1>3. PICK d \in 1 .. Len(flowQ) + 1 : RemovedAt(flowQ, n, d)
  BY <1>2, RemovedPlace
<1>4. f = RemoveFirst(flowQ, n)
  OBVIOUS
<1> HIDE DEF f
<1>5. \A k \in 1 .. Len(f) : \/ k < d /\ k \in 1 .. Len(flowQ) /\ f[k] = flowQ[k]
                             \/ k >= d /\ k + 1 \in 1 .. Len(flowQ) /\ f[k] = flowQ[k + 1]
  BY <1>2, <1>3, <1>4, RemovedRows
<1>6. /\ Lists(pending, PinSet(pc))
      /\ \A i, j \in 1 .. Len(pending), k, m \in 1 .. Len(flowQ) :
            i < j /\ flowQ[k] = pending[i] /\ flowQ[m] = pending[j] => k < m
  BY DEF Quiet, PinOrder
<1>7. ASSUME NEW i \in 1 .. Len(pending), NEW j \in 1 .. Len(pending), NEW k \in 1 .. Len(f),
             NEW m \in 1 .. Len(f), i < j, f[k] = pending[i], f[m] = pending[j]
      PROVE  k < m
  <2> DEFINE o(y) == IF y < d THEN y ELSE y + 1
  <2>1. o(k) \in 1 .. Len(flowQ) /\ f[k] = flowQ[o(k)] /\ o(m) \in 1 .. Len(flowQ) /\ f[m] = flowQ[o(m)]
    BY <1>5
  <2>2. o(k) < o(m) => k < m
    OBVIOUS
  <2> HIDE DEF o
  <2>3. o(k) < o(m)
    BY <1>6, <1>7, <2>1
  <2> QED BY <2>2, <2>3
<1>8. PinOrder(pc', f, pending)
  BY <1>1, <1>6, <1>7 DEF PinOrder
<1> QED BY <1>8 DEF f

\* The order of a queue and of its tail.
LEMMA OrderTail ==
    ASSUME IInv, Quiet, NEW n \in Call, NEW l, pc' = [pc EXCEPT ![n] = l], pc[n] # "pin", l # "pin",
           Sender(n)
    PROVE  PinOrder(pc', Tail(flowQ), pending)
<1> DEFINE f == Tail(flowQ)
<1>1. PinSet(pc') = PinSet(pc)
  BY OrderAside
<1>2. \A i \in 1 .. Len(f) : i + 1 \in 1 .. Len(flowQ) /\ f[i] = flowQ[i + 1]
  BY Parts, TailIndex DEF Sender
<1> HIDE DEF f
<1>3. /\ Lists(pending, PinSet(pc))
      /\ \A i, j \in 1 .. Len(pending), k, m \in 1 .. Len(flowQ) :
            i < j /\ flowQ[k] = pending[i] /\ flowQ[m] = pending[j] => k < m
  BY DEF Quiet, PinOrder
<1>4. ASSUME NEW i \in 1 .. Len(pending), NEW j \in 1 .. Len(pending), NEW k \in 1 .. Len(f),
             NEW m \in 1 .. Len(f), i < j, f[k] = pending[i], f[m] = pending[j]
      PROVE  k < m
  <2>1. k + 1 \in 1 .. Len(flowQ) /\ flowQ[k + 1] = pending[i] /\ m + 1 \in 1 .. Len(flowQ) /\ flowQ[m + 1] = pending[j]
    BY <1>2, <1>4
  <2>2. k + 1 < m + 1
    BY <1>3, <1>4, <2>1
  <2> QED BY <2>2
<1>5. PinOrder(pc', f, pending)
  BY <1>1, <1>3, <1>4 DEF PinOrder
<1> QED BY <1>5 DEF f

\* A call asks for _flow_lock: the frames are still for its holder.
LEMMA FramesJoin ==
    ASSUME IInv, Quiet, NEW n \in Call
    PROVE  PinFrames(wire, attempts, Append(flowQ, n))
<1>1. attempts > 0 => flowQ # <<>>
  BY Parts DEF Flow
<1>2. flowQ # <<>> => Head(Append(flowQ, n)) = Head(flowQ)
  BY Parts, HeadStays
<1> QED BY <1>1, <1>2 DEF Quiet, PinFrames

\* Without a transmission no response of a pin read is on its way, whatever the lock is for.
LEMMA FramesNone ==
    ASSUME IInv, Quiet, ~(attempts > 0), NEW f, NEW a
    PROVE  PinFrames(wire, a, f)
  BY DEF Quiet, PinFrames

\* A call that reads no file goes on to where it reads none.
LEMMA FilesAside ==
    ASSUME IInv, Quiet, NEW n \in Call, NEW l, pc' = [pc EXCEPT ![n] = l], pc[n] # "reading",
           l \notin {"sends", "reading"}
    PROVE  FileFrames(pc', read, wire)
<1>1. pc'[n] = l /\ \A m \in Call : m # n => pc'[m] = pc[m]
  BY Parts
<1> QED BY <1>1 DEF Quiet, FileFrames

\* The holder of _mcu_read_lock is the only one that has begun.
LEMMA OneReader ==
    ASSUME IInv, NEW n \in Call, NEW m \in Call, pc[m] \in {"sends", "refused", "reading"},
           n \in ToSet(readQ), pc[n] # "read" \/ Reader(n)
    PROVE  m = n
<1>1. m = Head(readQ)
  BY Parts DEF Readers, AtRead
<1>2. n = Head(readQ)
  BY Parts DEF Readers, Reader
<1> QED BY <1>1, <1>2

\* Its holder is in its queue.
LEMMA HolderWaits ==
    ASSUME IInv, NEW n \in Call, Reader(n)
    PROVE  n \in ToSet(readQ)
<1>1. readQ \in Seq(Call) /\ readQ # <<>> /\ Head(readQ) = n
  BY Parts DEF Reader
<1>2. readQ[1] = n /\ 1 \in 1 .. Len(readQ)
  BY <1>1, TailIndex
<1>3. \A x : x \in ToSet(readQ) <=> \E i \in 1 .. Len(readQ) : readQ[i] = x
  BY <1>1, ToSetIndex
<1> QED BY <1>2, <1>3

\* A call holds no message and is given none.
LEMMA OwnKept ==
    ASSUME IInv, Quiet, NEW n \in Call, NEW l, pc' = [pc EXCEPT ![n] = l], pc[n] # "took"
    PROVE  Own(pc', text)
  BY Parts DEF Quiet, Own

\* The text of a call is made afresh.
LEMMA OwnSet ==
    ASSUME IInv, Quiet, NEW n \in Call, NEW l, pc' = [pc EXCEPT ![n] = l]
    PROVE  Own(pc', [text EXCEPT ![n] = <<n>>])
  BY Parts DEF Quiet, Own

\* A call goes on that has nothing to do with pins and files.
LEMMA QuietAside ==
    ASSUME IInv, Quiet, NEW n \in Call, NEW l, pc' = [pc EXCEPT ![n] = l], UNCHANGED <<lines, text>>,
           pc[n] \notin {"pin", "reading", "took"}, l \notin {"pin", "sends", "reading"}
    PROVE  Quiet'
<1>1. UNCHANGED <<flowQ, attempts, readQ, read, wire, pending, text>>
  BY DEF lines
<1>2. PinOrder(pc', flowQ, pending)
  BY OrderAside
<1>3. FileFrames(pc', read, wire)
  BY FilesAside
<1>4. Own(pc', text)
  BY OwnKept
<1>5. PinFrames(wire, attempts, flowQ)
  BY DEF Quiet
<1>6. /\ PinOrder(pc', flowQ', pending') /\ PinFrames(wire', attempts', flowQ')
      /\ FileFrames(pc', read', wire') /\ Own(pc', text')
  BY <1>1, <1>2, <1>3, <1>4, <1>5
<1> QED BY <1>6, Quietly

\* A pin read is entered and asks for the lock: it is behind the others in both.
LEMMA OrderPin ==
    ASSUME IInv, Quiet, NEW n \in Call, pc' = [pc EXCEPT ![n] = "pin"], pc[n] = "called"
    PROVE  PinOrder(pc', Append(flowQ, n), Append(pending, n))
<1> DEFINE f == Append(flowQ, n)
           d == Append(pending, n)
<1>1. pc'[n] = "pin" /\ \A m \in Call : m # n => pc'[m] = pc[m]
  BY Parts
<1>2. PinSet(pc') = PinSet(pc) \cup {n} /\ n \notin PinSet(pc)
  BY <1>1 DEF PinSet
<1>3. /\ Lists(pending, PinSet(pc))
      /\ \A i, j \in 1 .. Len(pending), k, m \in 1 .. Len(flowQ) :
            i < j /\ flowQ[k] = pending[i] /\ flowQ[m] = pending[j] => k < m
  BY DEF Quiet, PinOrder
<1>4. Lists(d, PinSet(pc'))
  <2> DEFINE S == PinSet(pc)
  <2>1. Lists(pending, S) /\ n \notin S /\ PinSet(pc') = S \cup {n} /\ pending \in Seq(Call)
    BY <1>2, <1>3, Parts
  <2> HIDE DEF S
  <2>2. Lists(d, S \cup {n})
    BY <2>1, ListsAppend
  <2> QED BY <2>1, <2>2
<1>5. /\ Len(f) = Len(flowQ) + 1 /\ Len(flowQ) \in Nat
      /\ \A i \in 1 .. Len(f) : (i \in 1 .. Len(flowQ) /\ f[i] = flowQ[i]) \/ i = Len(flowQ) + 1
      /\ f[Len(flowQ) + 1] = n
  BY Parts, AppendIndex
<1>6. /\ Len(d) = Len(pending) + 1 /\ Len(pending) \in Nat
      /\ \A i \in 1 .. Len(d) : (i \in 1 .. Len(pending) /\ d[i] = pending[i]) \/ i = Len(pending) + 1
      /\ d[Len(pending) + 1] = n
  BY Parts, AppendIndex
<1>7. \A k \in 1 .. Len(flowQ) : flowQ[k] # n
  BY Parts DEF Flow, Lists, Sending
<1>8. \A i \in 1 .. Len(pending) : pending[i] # n
  BY <1>2, <1>3 DEF Lists
<1> HIDE DEF f, d
<1>9. ASSUME NEW i \in 1 .. Len(d), NEW j \in 1 .. Len(d), NEW k \in 1 .. Len(f), NEW m \in 1 .. Len(f),
             i < j, f[k] = d[i], f[m] = d[j]
      PROVE  k < m
  <2>1. i \in 1 .. Len(pending) /\ d[i] = pending[i]
    BY <1>6, <1>9
  <2>2. k \in 1 .. Len(flowQ) /\ f[k] = flowQ[k]
    BY <1>5, <1>8, <1>9, <2>1
  <2>3. CASE j = Len(pending) + 1
    <3>1. m = Len(flowQ) + 1
      BY <1>5, <1>6, <1>7, <1>9, <2>3
    <3> QED BY <1>5, <2>2, <3>1
  <2>4. CASE j \in 1 .. Len(pending) /\ d[j] = pending[j]
    <3>1. m \in 1 .. Len(flowQ) /\ f[m] = flowQ[m]
      BY <1>5, <1>8, <1>9, <2>4
    <3> QED BY <1>3, <1>9, <2>1, <2>2, <2>4, <3>1
  <2> QED BY <1>6, <2>3, <2>4
<1>10. PinOrder(pc', f, d)
  BY <1>4, <1>9 DEF PinOrder
<1> QED BY <1>10 DEF f, d

\* The dispatch of a request keeps the order: a pin request joins both queues at the end.
LEMMA HandleQuiet ==
    ASSUME IInv, Quiet, NEW n \in Call, handle_request(n)
    PROVE  Quiet'
<1>1. pc[n] = "called" /\ UNCHANGED <<text, attempts, read, wire>>
  BY DEF handle_request
<1>2. ASSUME NEW l, l \notin {"pin", "sends", "reading"}, pc' = [pc EXCEPT ![n] = l],
             UNCHANGED <<pending, flowQ, readQ>>
      PROVE  Quiet'
  <2>1. UNCHANGED <<lines, text>>
    BY <1>1, <1>2 DEF lines
  <2> QED BY <1>1, <1>2, <2>1, QuietAside
<1>3. ASSUME NEW l, l \notin {"sends", "reading"}, pc' = [pc EXCEPT ![n] = l]
      PROVE  FileFrames(pc', read', wire') /\ Own(pc', text')
  <2>1. FileFrames(pc', read, wire)
    BY <1>1, <1>3, FilesAside
  <2>2. Own(pc', text)
    BY <1>1, <1>3, OwnKept
  <2> QED BY <1>1, <2>1, <2>2
<1>4. ASSUME flowQ' = Append(flowQ, n) PROVE PinFrames(wire', attempts', flowQ')
  <2>1. PinFrames(wire, attempts, Append(flowQ, n))
    BY FramesJoin
  <2> QED BY <1>1, <1>4, <2>1
<1>5. CASE start_pin(n)  /\ UNCHANGED readQ
  <2>1. CASE Len(pending) < PinLimit
    <3>1. pending' = Append(pending, n) /\ flowQ' = Append(flowQ, n) /\ pc' = [pc EXCEPT ![n] = "pin"]
      BY <1>5, <2>1 DEF start_pin, GoTo
    <3>2. PinOrder(pc', Append(flowQ, n), Append(pending, n))
      BY <1>1, <3>1, OrderPin
    <3>3. PinOrder(pc', flowQ', pending')
      BY <3>1, <3>2
    <3> QED BY <1>3, <1>4, <3>1, <3>3, Quietly
  <2>2. CASE ~(Len(pending) < PinLimit)
    <3>1. pc' = [pc EXCEPT ![n] = "answer"] /\ UNCHANGED <<pending, flowQ, readQ>>
      BY <1>5, <2>2 DEF start_pin, GoTo
    <3> QED BY <1>2, <3>1
  <2> QED BY <2>1, <2>2
<1>6. CASE flowQ' = Append(flowQ, n) /\ GoTo(n, "send") /\ UNCHANGED <<pending, readQ>>
  <2>1. pc' = [pc EXCEPT ![n] = "send"] /\ pending' = pending /\ flowQ' = Append(flowQ, n)
    BY <1>6 DEF GoTo
  <2>2. PinOrder(pc', Append(flowQ, n), pending)
    BY <1>1, <2>1, OrderJoin
  <2>3. PinOrder(pc', flowQ', pending')
    BY <2>1, <2>2
  <2> QED BY <1>3, <1>4, <2>1, <2>3, Quietly
<1>7. CASE readQ' = Append(readQ, n) /\ GoTo(n, "read") /\ UNCHANGED <<pending, flowQ>>
  <2>1. pc' = [pc EXCEPT ![n] = "read"] /\ pending' = pending /\ flowQ' = flowQ
    BY <1>7 DEF GoTo
  <2>2. PinOrder(pc', flowQ, pending)
    BY <1>1, <2>1, OrderAside
  <2>3. PinOrder(pc', flowQ', pending') /\ PinFrames(wire', attempts', flowQ')
    BY <1>1, <2>1, <2>2 DEF Quiet
  <2> QED BY <1>3, <2>1, <2>3, Quietly
<1>8. CASE GoTo(n, Returned(n)) /\ UNCHANGED <<pending, flowQ, readQ>>
  <2>1. Returned(n) \notin {"pin", "sends", "reading"}
    BY Constant
  <2> QED BY <1>2, <1>8, <2>1 DEF GoTo
<1>9. ASSUME NEW j \in {"answer", "take", "write", "slot"}, GoTo(n, j), UNCHANGED <<pending, flowQ, readQ>>
      PROVE  Quiet'
  BY <1>2, <1>9 DEF GoTo
<1> QED BY <1>5, <1>6, <1>7, <1>8, <1>9 DEF handle_request

\* The reply to the caller keeps the order.
LEMMA AnswerQuiet ==
    ASSUME IInv, Quiet, NEW n \in Call, answer(n)
    PROVE  Quiet'
<1>1. /\ pc[n] \in {"answer", "refused"} /\ UNCHANGED <<flowQ, attempts, wire, pending>>
      /\ text' = [text EXCEPT ![n] = <<n>>]
  BY DEF answer
<1>2. PICK l \in {"waits", "done"} : pc' = [pc EXCEPT ![n] = l] /\ (read' = read \/ (Reader(n) /\ read' = NoRead))
  <2>1. CASE QueueFull(n)
    BY <2>1 DEF answer, GoTo, LeaveReadLock
  <2>2. CASE ~QueueFull(n)
    BY <2>2, Constant DEF answer, GoTo
  <2> QED BY <2>1, <2>2
<1>3. PinOrder(pc', flowQ, pending)
  BY <1>1, <1>2, OrderAside
<1>4. Own(pc', text')
  BY <1>1, <1>2, OwnSet
<1>5. FileFrames(pc', read, wire)
  BY <1>1, <1>2, FilesAside
<1>6. FileFrames(pc', read', wire)
  <2>1. CASE read' = read
    BY <1>5, <2>1
  <2>2. CASE Reader(n) /\ read' = NoRead
    <3>1. \A m \in Call : pc[m] \in {"sends", "reading"} => m = n
      BY <2>2, HolderWaits, OneReader
    <3>2. pc'[n] \in {"waits", "done"} /\ \A m \in Call : m # n => pc'[m] = pc[m]
      BY <1>2, Parts
    <3>3. \A m \in Call : pc'[m] # "sends" /\ pc'[m] # "reading"
      BY <3>1, <3>2
    <3> QED BY <1>5, <3>3 DEF FileFrames
  <2> QED BY <1>2, <2>1, <2>2
<1>7. /\ PinOrder(pc', flowQ', pending') /\ PinFrames(wire', attempts', flowQ')
      /\ FileFrames(pc', read', wire')
  BY <1>1, <1>3, <1>6 DEF Quiet
<1> QED BY <1>4, <1>7, Quietly

\* A caller that goes away where nothing it asked for is under way keeps the order.
LEMMA CancelQuiet ==
    ASSUME IInv, Quiet, NEW n \in Call, cancel(n), ~upset'
    PROVE  Quiet'
<1>1. /\ pc' = [pc EXCEPT ![n] = "done"] /\ flowQ' = RemoveFirst(flowQ, n) /\ LeaveReadLock(n)
      /\ attempts' = IF flowQ # <<>> /\ Head(flowQ) = n THEN 0 ELSE attempts
      /\ pc[n] # "pin" /\ pc[n] # "reading" /\ text' = [text EXCEPT ![n] = <<n>>]
      /\ wire' = wire /\ pending' = pending
  BY DEF cancel, GoTo
<1>2. PinOrder(pc', flowQ', pending')
  <2>1. PinOrder(pc', RemoveFirst(flowQ, n), pending)
    BY <1>1, OrderLeave
  <2> QED BY <1>1, <2>1
<1>3. Own(pc', text')
  BY <1>1, OwnSet
<1>4. PinFrames(wire', attempts', flowQ')
  <2>1. CASE attempts > 0
    <3>1. flowQ # <<>> /\ Head(flowQ) # n
      BY <1>1, <2>1, Parts DEF Flow
    <3>2. Head(RemoveFirst(flowQ, n)) = Head(flowQ)
      <4> DEFINE S == Sending(pc)
      <4>1. Lists(flowQ, S) /\ flowQ \in Seq(Call)
        BY Parts DEF Flow
      <4> HIDE DEF S
      <4>2. /\ RemoveFirst(flowQ, n) \in Seq(Call) /\ Lists(RemoveFirst(flowQ, n), S \ {n})
            /\ flowQ # <<>> /\ Head(flowQ) # n =>
                  RemoveFirst(flowQ, n) # <<>> /\ Head(RemoveFirst(flowQ, n)) = Head(flowQ)
        BY <4>1, ListsRemove
      <4> QED BY <3>1, <4>2
    <3> QED BY <1>1, <3>1, <3>2 DEF Quiet, PinFrames
  <2>2. CASE ~(attempts > 0)
    <3>1. PinFrames(wire, attempts', flowQ')
      BY <2>2, FramesNone
    <3> QED BY <1>1, <3>1
  <2> QED BY <2>1, <2>2
<1>5. FileFrames(pc', read, wire)
  <2>1. "done" \notin {"sends", "reading"}
    OBVIOUS
  <2> QED BY <1>1, <2>1, FilesAside
<1>6. FileFrames(pc', read', wire')
  <2>1. CASE read' = read
    BY <1>1, <1>5, <2>1
  <2>2. CASE Reader(n) /\ read' = NoRead
    <3>1. \A m \in Call : pc[m] \in {"sends", "reading"} => m = n
      BY <2>2, HolderWaits, OneReader
    <3>2. pc'[n] = "done" /\ \A m \in Call : m # n => pc'[m] = pc[m]
      BY <1>1, Parts
    <3>3. \A m \in Call : pc'[m] # "sends" /\ pc'[m] # "reading"
      BY <3>1, <3>2
    <3> QED BY <1>1, <1>5, <3>3 DEF FileFrames
  <2> QED BY <1>1, <2>1, <2>2 DEF LeaveReadLock
<1> QED BY <1>2, <1>3, <1>4, <1>6, Quietly

\* The end of a send keeps the order.
LEMMA SendQuiet ==
    ASSUME IInv, Quiet, NEW n \in Call, send(n)
    PROVE  Quiet'
<1>1. /\ pc[n] \in {"send", "post"} /\ Sender(n) /\ flowQ' = Tail(flowQ)
      /\ UNCHANGED <<text, attempts, read, wire, pending>>
  BY DEF send
<1>2. PICK l \in {"waits", "done", "answer"} : pc' = [pc EXCEPT ![n] = l]
  <2>1. CASE GoTo(n, Returned(n))
    BY <2>1, Constant DEF GoTo
  <2>2. CASE GoTo(n, "answer")
    BY <2>2 DEF GoTo
  <2> QED BY <2>1, <2>2 DEF send
<1>3. ~(attempts > 0)
  BY <1>1, Parts DEF Flow, Sender
<1>4. PinOrder(pc', Tail(flowQ), pending)
  BY <1>1, <1>2, OrderTail
<1>5. PinFrames(wire, attempts, Tail(flowQ))
  BY <1>3, FramesNone
<1>6. FileFrames(pc', read, wire)
  BY <1>1, <1>2, FilesAside
<1>7. Own(pc', text)
  BY <1>1, <1>2, OwnKept
<1>8. /\ PinOrder(pc', flowQ', pending') /\ PinFrames(wire', attempts', flowQ')
      /\ FileFrames(pc', read', wire') /\ Own(pc', text')
  BY <1>1, <1>4, <1>5, <1>6, <1>7
<1> QED BY <1>8, Quietly

\* A write to the outgoing mailbox keeps the order.
LEMMA WroteQuiet ==
    ASSUME IInv, Quiet, NEW n \in Call, wrote(n)
    PROVE  Quiet'
<1>1. /\ pc[n] = "wrote" /\ pc' = [pc EXCEPT ![n] = "post"] /\ flowQ' = Append(flowQ, n)
      /\ UNCHANGED <<text, attempts, read, wire, pending>>
  BY DEF wrote, GoTo
<1>2. PinOrder(pc', Append(flowQ, n), pending)
  BY <1>1, OrderJoin
<1>3. PinFrames(wire, attempts, Append(flowQ, n))
  BY FramesJoin
<1>4. FileFrames(pc', read, wire)
  <2>1. "post" \notin {"sends", "reading"} /\ pc[n] # "reading"
    BY <1>1
  <2> QED BY <1>1, <2>1, FilesAside
<1>5. Own(pc', text)
  BY <1>1, OwnKept
<1>6. /\ PinOrder(pc', flowQ', pending') /\ PinFrames(wire', attempts', flowQ')
      /\ FileFrames(pc', read', wire') /\ Own(pc', text')
  BY <1>1, <1>2, <1>3, <1>4, <1>5
<1> QED BY <1>6, Quietly

\* A read of the incoming mailbox keeps the order.
LEMMA MailboxQuiet ==
    ASSUME IInv, Quiet, NEW n \in Call, take(n) \/ took(n)
    PROVE  Quiet'
<1>1. pc[n] \in {"take", "took"} /\ UNCHANGED lines
  BY DEF take, took
<1>2. UNCHANGED <<flowQ, attempts, readQ, read, wire, pending>>
  BY <1>1 DEF lines
<1>3. PICK l \in {"answer", "took"} : /\ pc' = [pc EXCEPT ![n] = l] /\ Own(pc', text')
  <2>1. CASE take(n) /\ incoming.rows = <<>>
    <3>1. pc' = [pc EXCEPT ![n] = "answer"] /\ text' = text /\ pc[n] = "take"
      BY <2>1 DEF take, GoTo
    <3>2. Own(pc', text)
      BY <3>1, OwnKept
    <3> QED BY <3>1, <3>2
  <2>2. CASE take(n) /\ incoming.rows # <<>>
    <3>1. pc' = [pc EXCEPT ![n] = "took"] /\ text' = [text EXCEPT ![n] = <<Head(incoming.rows)>>]
      BY <2>2 DEF take, GoTo
    <3>2. pc'[n] = "took" /\ \A m \in Call : m # n => pc'[m] = pc[m] /\ text'[m] = text[m]
      BY <3>1, Parts
    <3> QED BY <3>1, <3>2 DEF Quiet, Own
  <2>3. CASE took(n)
    <3>1. pc' = [pc EXCEPT ![n] = "answer"] /\ text' = [text EXCEPT ![n] = <<n>>]
      BY <2>3 DEF took, GoTo
    <3> QED BY <3>1, OwnSet
  <2> QED BY <2>1, <2>2, <2>3
<1>4. PinOrder(pc', flowQ, pending)
  BY <1>1, <1>3, OrderAside
<1>5. FileFrames(pc', read, wire)
  BY <1>1, <1>3, FilesAside
<1>6. /\ PinOrder(pc', flowQ', pending') /\ PinFrames(wire', attempts', flowQ')
      /\ FileFrames(pc', read', wire')
  BY <1>2, <1>4, <1>5 DEF Quiet
<1> QED BY <1>3, <1>6, Quietly

\* A response of a pin read behind the others leaves those of a file read as they are.
LEMMA RestAppend ==
    ASSUME NEW w \in Seq(Frame), NEW f \in Frame, f.kind = "pin", NEW v, v = Append(w, f)
    PROVE  /\ Only(w, {}) => Only(v, {})
           /\ \A n, r : Rest(n, r, w) => Rest(n, r, v)
<1>1. /\ Len(v) = Len(w) + 1 /\ Len(w) \in Nat /\ v[Len(w) + 1] = f
      /\ \A i \in 1 .. Len(v) : (i \in 1 .. Len(w) /\ v[i] = w[i]) \/ i = Len(w) + 1
      /\ \A i \in 1 .. Len(w) : i \in 1 .. Len(v) /\ v[i] = w[i]
  BY AppendIndex
<1>2. ASSUME NEW S, Only(w, S) PROVE Only(v, S)
  BY <1>1, <1>2 DEF Only
<1>3. ASSUME NEW n, NEW r, Rest(n, r, w) PROVE Rest(n, r, v)
  <2>1. CASE ~r.done /\ r.chunks = <<>> /\ \E i, j \in 1 .. Len(w) :
               /\ i < j /\ Only(w, {i, j})
               /\ w[i].kind = "chunk" /\ w[i].of = n /\ w[j].kind = "end" /\ w[j].of = n
    <3>1. PICK i \in 1 .. Len(w), j \in 1 .. Len(w) :
               /\ i < j /\ Only(w, {i, j})
               /\ w[i].kind = "chunk" /\ w[i].of = n /\ w[j].kind = "end" /\ w[j].of = n
      BY <2>1
    <3>2. i \in 1 .. Len(v) /\ v[i] = w[i] /\ j \in 1 .. Len(v) /\ v[j] = w[j] /\ Only(v, {i, j})
      BY <1>1, <1>2, <3>1
    <3> QED BY <2>1, <3>1, <3>2 DEF Rest
  <2>2. CASE ~r.done /\ r.chunks = <<n>> /\ \E i \in 1 .. Len(w) :
               Only(w, {i}) /\ w[i].kind = "end" /\ w[i].of = n
    <3>1. PICK i \in 1 .. Len(w) : Only(w, {i}) /\ w[i].kind = "end" /\ w[i].of = n
      BY <2>2
    <3>2. i \in 1 .. Len(v) /\ v[i] = w[i] /\ Only(v, {i})
      BY <1>1, <1>2, <3>1
    <3> QED BY <2>2, <3>1, <3>2 DEF Rest
  <2>3. CASE r.done /\ r.chunks = <<n>> /\ Only(w, {})
    BY <1>2, <2>3 DEF Rest
  <2> QED BY <1>3, <2>1, <2>2, <2>3 DEF Rest
<1> QED BY <1>2, <1>3

\* So does one in front of them that is taken.
LEMMA RestTail ==
    ASSUME NEW w \in Seq(Frame), w # <<>>, Head(w).kind = "pin", NEW v, v = Tail(w)
    PROVE  /\ Only(w, {}) => Only(v, {})
           /\ \A n, r : Rest(n, r, w) => Rest(n, r, v)
<1>1. /\ w[1].kind = "pin" /\ Len(w) \in Nat /\ Len(v) = Len(w) - 1
      /\ \A i \in 1 .. Len(v) : i + 1 \in 1 .. Len(w) /\ v[i] = w[i + 1]
      /\ \A i \in 1 .. Len(w) : i = 1 \/ (i - 1 \in 1 .. Len(v) /\ v[i - 1] = w[i])
  BY TailIndex
<1>2. Only(w, {}) => Only(v, {})
  BY <1>1 DEF Only
<1>3. ASSUME NEW n, NEW r, Rest(n, r, w) PROVE Rest(n, r, v)
  <2>1. CASE ~r.done /\ r.chunks = <<>> /\ \E i, j \in 1 .. Len(w) :
               /\ i < j /\ Only(w, {i, j})
               /\ w[i].kind = "chunk" /\ w[i].of = n /\ w[j].kind = "end" /\ w[j].of = n
    <3>1. PICK i \in 1 .. Len(w), j \in 1 .. Len(w) :
               /\ i < j /\ Only(w, {i, j})
               /\ w[i].kind = "chunk" /\ w[i].of = n /\ w[j].kind = "end" /\ w[j].of = n
      BY <2>1
    <3>2. i # 1 /\ j # 1
      BY <1>1, <3>1
    <3>3. /\ i - 1 \in 1 .. Len(v) /\ v[i - 1] = w[i] /\ j - 1 \in 1 .. Len(v) /\ v[j - 1] = w[j]
          /\ i - 1 < j - 1
      BY <1>1, <3>1, <3>2
    <3>4. Only(v, {i - 1, j - 1})
      <4>1. SUFFICES ASSUME NEW k \in 1 .. Len(v), v[k].kind # "pin" PROVE k = i - 1 \/ k = j - 1
        BY DEF Only
      <4>2. k + 1 \in 1 .. Len(w) /\ w[k + 1].kind # "pin"
        BY <1>1, <4>1
      <4>3. k + 1 = i \/ k + 1 = j
        BY <3>1, <4>2 DEF Only
      <4> QED BY <4>3
    <3> QED BY <2>1, <3>1, <3>3, <3>4 DEF Rest
  <2>2. CASE ~r.done /\ r.chunks = <<n>> /\ \E i \in 1 .. Len(w) :
               Only(w, {i}) /\ w[i].kind = "end" /\ w[i].of = n
    <3>1. PICK i \in 1 .. Len(w) : Only(w, {i}) /\ w[i].kind = "end" /\ w[i].of = n
      BY <2>2
    <3>2. i - 1 \in 1 .. Len(v) /\ v[i - 1] = w[i]
      BY <1>1, <3>1
    <3>3. Only(v, {i - 1})
      <4>1. SUFFICES ASSUME NEW k \in 1 .. Len(v), v[k].kind # "pin" PROVE k = i - 1
        BY DEF Only
      <4>2. k + 1 \in 1 .. Len(w) /\ w[k + 1].kind # "pin"
        BY <1>1, <4>1
      <4>3. k + 1 = i
        BY <3>1, <4>2 DEF Only
      <4> QED BY <4>3
    <3> QED BY <2>2, <3>1, <3>2, <3>3 DEF Rest
  <2>3. CASE r.done /\ r.chunks = <<n>> /\ Only(w, {})
    BY <1>2, <2>3 DEF Rest
  <2> QED BY <1>3, <2>1, <2>2, <2>3 DEF Rest
<1> QED BY <1>2, <1>3

\* No response of a pin read comes to be on its way when the first one is taken.
LEMMA FramesTail ==
    ASSUME NEW w \in Seq(Frame), w # <<>>, NEW a, NEW f, PinFrames(w, a, f), NEW v, v = Tail(w)
    PROVE  PinFrames(v, a, f)
<1>1. /\ Len(w) \in Nat /\ \A i \in 1 .. Len(v) : i + 1 \in 1 .. Len(w) /\ v[i] = w[i + 1]
  BY TailIndex
<1>2. \A i \in 1 .. Len(v) : v[i].kind = "pin" => a > 0 /\ v[i].of = Head(f)
  BY <1>1 DEF PinFrames
<1>3. \A i, j \in 1 .. Len(v) : v[i].kind = "pin" /\ v[j].kind = "pin" => i = j
  <2>1. SUFFICES ASSUME NEW i \in 1 .. Len(v), NEW j \in 1 .. Len(v), v[i].kind = "pin", v[j].kind = "pin"
                 PROVE  i = j
    OBVIOUS
  <2>2. i + 1 = j + 1
    BY <1>1, <2>1 DEF PinFrames
  <2> QED BY <2>2
<1> QED BY <1>2, <1>3 DEF PinFrames

\* The frames of a file read when those of w give place to those of v.
LEMMA FilesMoved ==
    ASSUME NEW p, NEW r, NEW w, NEW v, FileFrames(p, r, w), Only(w, {}) => Only(v, {}),
           \A n, x : Rest(n, x, w) => Rest(n, x, v)
    PROVE  FileFrames(p, r, v)
  BY DEF FileFrames

\* The only request of the holder on the wire keeps the order.
LEMMA SendPinQuiet ==
    ASSUME IInv, Quiet, NEW n \in Call, send_pin(n), ~upset'
    PROVE  Quiet'
<1> DEFINE f == [kind |-> "pin", of |-> n]
<1>1. /\ Sender(n) /\ attempts' = attempts + 1 /\ wire' = Append(wire, f) /\ f \notin ToSet(wire)
      /\ UNCHANGED <<pc, text, flowQ, read, pending>>
  BY DEF send_pin
<1>2. f \in Frame /\ f.kind = "pin" /\ f.of = n
  BY DEF Frame
<1>3. wire \in Seq(Frame) /\ attempts \in Nat
  BY Parts
<1>4. \A i \in 1 .. Len(wire) : wire[i].kind # "pin"
  <2>1. SUFFICES ASSUME NEW i \in 1 .. Len(wire), wire[i].kind = "pin" PROVE FALSE
    OBVIOUS
  <2>2. wire[i].of = n
    BY <1>1, <2>1 DEF Quiet, PinFrames, Sender
  <2>3. wire[i] = f
    <3>1. wire[i] \in Frame
      BY <1>3, <2>1
    <3>2. wire[i] = [kind |-> wire[i].kind, of |-> wire[i].of]
      BY <3>1 DEF Frame
    <3> QED BY <2>1, <2>2, <3>2
  <2>4. \A x : x \in ToSet(wire) <=> \E k \in 1 .. Len(wire) : wire[k] = x
    BY <1>3, ToSetIndex
  <2> QED BY <1>1, <2>3, <2>4
<1> HIDE DEF f
<1>5. /\ Len(wire') = Len(wire) + 1 /\ wire'[Len(wire) + 1] = f
      /\ \A i \in 1 .. Len(wire') : (i \in 1 .. Len(wire) /\ wire'[i] = wire[i]) \/ i = Len(wire) + 1
  BY <1>1, <1>2, <1>3, AppendIndex
<1>6. PinFrames(wire', attempts', flowQ')
  <2>1. \A i \in 1 .. Len(wire') : wire'[i].kind = "pin" => i = Len(wire) + 1
    BY <1>4, <1>5
  <2>2. attempts' > 0 /\ Head(flowQ') = n
    BY <1>1, <1>3 DEF Sender
  <2> QED BY <1>2, <1>5, <2>1, <2>2 DEF PinFrames
<1>7. FileFrames(pc, read, wire')
  <2>1. /\ Only(wire, {}) => Only(wire', {})
        /\ \A m, r : Rest(m, r, wire) => Rest(m, r, wire')
    BY <1>1, <1>2, <1>3, RestAppend
  <2>2. FileFrames(pc, read, wire)
    BY DEF Quiet
  <2> QED BY <2>1, <2>2, FilesMoved
<1>8. PinOrder(pc', flowQ', pending') /\ FileFrames(pc', read', wire') /\ Own(pc', text')
  BY <1>1, <1>7 DEF Quiet
<1> QED BY <1>6, <1>8, Quietly

\* A lost pin frame keeps the order: its request is sent again.
LEMMA LoseQuiet ==
    ASSUME IInv, Quiet, lose, ~upset'
    PROVE  Quiet'
<1>1. /\ wire # <<>> /\ wire' = Tail(wire) /\ Head(wire).kind = "pin"
      /\ UNCHANGED <<pc, text, flowQ, attempts, read, pending>>
  BY DEF lose
<1>2. wire \in Seq(Frame) /\ PinFrames(wire, attempts, flowQ) /\ FileFrames(pc, read, wire)
  BY Parts DEF Quiet
<1>3. PinFrames(wire', attempts, flowQ)
  BY <1>1, <1>2, FramesTail
<1>4. FileFrames(pc, read, wire')
  <2>1. /\ Only(wire, {}) => Only(wire', {})
        /\ \A m, r : Rest(m, r, wire) => Rest(m, r, wire')
    BY <1>1, <1>2, RestTail
  <2> QED BY <1>2, <2>1, FilesMoved
<1>5. /\ PinOrder(pc', flowQ', pending') /\ PinFrames(wire', attempts', flowQ')
      /\ FileFrames(pc', read', wire') /\ Own(pc', text')
  BY <1>1, <1>3, <1>4 DEF Quiet
<1> QED BY <1>5, Quietly

\* A connection lost while nothing is asked of the MCU keeps the order, whether the table of pin
\* reads, which is empty then, is cleared or not.
LEMMA DisconnectQuiet ==
    ASSUME IInv, Quiet, disconnect \/ escape, ~upset'
    PROVE  Quiet'
<1>1. /\ wire' = <<>> /\ pending' \in {<<>>, pending} /\ \A n \in Call : pc[n] \notin {"pin", "reading"}
      /\ UNCHANGED <<pc, text, flowQ, attempts, read>>
  BY DEF disconnect, escape, port_closed, on_serial_disconnected
<1>2. PinOrder(pc, flowQ, pending')
  <2>1. CASE pending' = <<>>
    <3>1. PinSet(pc) = {}
      BY <1>1 DEF PinSet
    <3>2. Lists(<<>>, {})
      BY DEF Lists
    <3> QED BY <2>1, <3>1, <3>2 DEF PinOrder
  <2>2. CASE pending' = pending
    BY <2>2 DEF Quiet
  <2> QED BY <1>1, <2>1, <2>2
<1>3. PinFrames(<<>>, attempts, flowQ)
  BY DEF PinFrames
<1>4. FileFrames(pc, read, <<>>)
  <2>1. Only(<<>>, {})
    BY DEF Only
  <2> QED BY <1>1, <2>1 DEF Quiet, FileFrames
<1>5. /\ PinOrder(pc', flowQ', pending') /\ PinFrames(wire', attempts', flowQ')
      /\ FileFrames(pc', read', wire') /\ Own(pc', text')
  BY <1>1, <1>2, <1>3, <1>4 DEF Quiet
<1> QED BY <1>5, Quietly

\* The oldest pin read is that of the holder of _flow_lock, and the response is its own.
LEMMA OldestIsHolder ==
    ASSUME IInv, Quiet, wire # <<>>, Head(wire).kind = "pin"
    PROVE  /\ attempts > 0 /\ flowQ # <<>> /\ pending # <<>> /\ Head(pending) = Head(flowQ)
           /\ Head(wire).of = Head(pending) /\ pc[Head(flowQ)] = "pin" /\ Head(flowQ) \in Call
<1>1. Head(wire) = wire[1] /\ 1 \in 1 .. Len(wire)
  BY Parts, TailIndex
<1>2. attempts > 0 /\ Head(wire).of = Head(flowQ)
  BY <1>1 DEF Quiet, PinFrames
<1>3. flowQ # <<>> /\ pc[Head(flowQ)] = "pin"
  BY <1>2, Parts DEF Flow
<1>4. Head(flowQ) = flowQ[1] /\ 1 \in 1 .. Len(flowQ) /\ Head(flowQ) \in Call
  BY <1>3, Parts, TailIndex
<1>5. /\ \A i \in 1 .. Len(pending) : pending[i] \in PinSet(pc)
      /\ \A n \in PinSet(pc) : \E i \in 1 .. Len(pending) : pending[i] = n
      /\ \A i, j \in 1 .. Len(pending), k, m \in 1 .. Len(flowQ) :
            i < j /\ flowQ[k] = pending[i] /\ flowQ[m] = pending[j] => k < m
  BY DEF Quiet, PinOrder, Lists
<1>6. PICK j \in 1 .. Len(pending) : pending[j] = Head(flowQ)
  BY <1>3, <1>4, <1>5 DEF PinSet
<1>7. pending \in Seq(Call) /\ pending # <<>>
  BY <1>6, Parts
<1>8. Head(pending) = pending[1] /\ 1 \in 1 .. Len(pending)
  BY <1>7, TailIndex
<1>9. PICK k \in 1 .. Len(flowQ) : flowQ[k] = pending[1]
  <2>1. pending[1] \in Sending(pc)
    BY <1>5, <1>8 DEF PinSet, Sending
  <2> QED BY <2>1, Parts DEF Flow, Lists
<1>10. j = 1
  <2>1. SUFFICES ASSUME j # 1 PROVE FALSE
    OBVIOUS
  <2>2. 1 < j
    BY <2>1
  <2>3. k < 1
    BY <1>4, <1>5, <1>6, <1>8, <1>9, <2>2
  <2> QED BY <2>3
<1> QED BY <1>2, <1>3, <1>4, <1>6, <1>7, <1>8, <1>10

\* It leaves the lock and the table together.
LEMMA OrderPop ==
    ASSUME IInv, Quiet, flowQ # <<>>, pending # <<>>, Head(pending) = Head(flowQ), NEW l, l # "pin",
           pc' = [pc EXCEPT ![Head(flowQ)] = l]
    PROVE  PinOrder(pc', Tail(flowQ), Tail(pending))
<1> DEFINE h == Head(flowQ)
           f == Tail(flowQ)
           d == Tail(pending)
<1>1. h \in Call /\ \A i \in 1 .. Len(f) : i + 1 \in 1 .. Len(flowQ) /\ f[i] = flowQ[i + 1]
  BY Parts, TailIndex
<1>2. \A i \in 1 .. Len(d) : i + 1 \in 1 .. Len(pending) /\ d[i] = pending[i + 1]
  BY Parts, TailIndex
<1>3. /\ Lists(pending, PinSet(pc))
      /\ \A i, j \in 1 .. Len(pending), k, m \in 1 .. Len(flowQ) :
            i < j /\ flowQ[k] = pending[i] /\ flowQ[m] = pending[j] => k < m
  BY DEF Quiet, PinOrder
<1>4. PinSet(pc') = PinSet(pc) \ {h}
  <2>1. pc'[h] = l /\ \A m \in Call : m # h => pc'[m] = pc[m]
    BY <1>1, Parts
  <2> QED BY <2>1 DEF PinSet
<1>5. Lists(d, PinSet(pc'))
  <2> DEFINE S == PinSet(pc)
  <2>1. Lists(pending, S) /\ pending \in Seq(Call) /\ Head(pending) = h
    BY <1>3, Parts
  <2> HIDE DEF S, h
  <2>2. Tail(pending) \in Seq(Call) /\ Lists(Tail(pending), S \ {Head(pending)}) /\ Head(pending) \in S
    BY <2>1, ListsTail
  <2>3. Lists(d, S \ {h})
    BY <2>1, <2>2
  <2> QED BY <1>4, <2>3 DEF S
<1> HIDE DEF f, d, h
<1>6. ASSUME NEW i \in 1 .. Len(d), NEW j \in 1 .. Len(d), NEW k \in 1 .. Len(f), NEW m \in 1 .. Len(f),
             i < j, f[k] = d[i], f[m] = d[j]
      PROVE  k < m
  <2>1. /\ k + 1 \in 1 .. Len(flowQ) /\ m + 1 \in 1 .. Len(flowQ) /\ i + 1 \in 1 .. Len(pending)
        /\ j + 1 \in 1 .. Len(pending) /\ flowQ[k + 1] = pending[i + 1] /\ flowQ[m + 1] = pending[j + 1]
        /\ i + 1 < j + 1
    <3>1. /\ k + 1 \in 1 .. Len(flowQ) /\ f[k] = flowQ[k + 1]
          /\ m + 1 \in 1 .. Len(flowQ) /\ f[m] = flowQ[m + 1]
      BY <1>1
    <3>2. /\ i + 1 \in 1 .. Len(pending) /\ d[i] = pending[i + 1]
          /\ j + 1 \in 1 .. Len(pending) /\ d[j] = pending[j + 1]
      BY <1>2
    <3>3. i + 1 < j + 1
      BY <1>6
    <3> QED BY <1>6, <3>1, <3>2, <3>3
  <2>2. k + 1 < m + 1
    BY <1>3, <2>1
  <2> QED BY <2>2
<1>7. PinOrder(pc', f, d)
  BY <1>5, <1>6 DEF PinOrder
<1> QED BY <1>7 DEF f, d

\* A pin response goes to the request it answers and keeps the order.
LEMMA PinRespQuiet ==
    ASSUME IInv, Quiet, on_pin_resp, ~upset'
    PROVE  Quiet'
<1>1. wire # <<>> /\ Head(wire).kind = "pin" /\ UNCHANGED <<text, read>>
  BY DEF on_pin_resp
<1> DEFINE h == Head(flowQ)
<1>2. /\ attempts > 0 /\ flowQ # <<>> /\ pending # <<>> /\ Head(pending) = h
      /\ Head(wire).of = Head(pending) /\ pc[h] = "pin" /\ h \in Call
  BY <1>1, OldestIsHolder
<1>3. ~QueueFull(Head(pending))
  BY <1>2 DEF on_pin_resp, port_closed
<1>4. /\ pc' = [pc EXCEPT ![h] = Returned(h)] /\ flowQ' = Tail(flowQ) /\ attempts' = 0
      /\ pending' = Tail(pending) /\ wire' = Tail(wire)
  BY <1>2, <1>3 DEF on_pin_resp, GoTo
<1>5. Returned(h) \in {"waits", "done"}
  BY Constant
<1>6. PinOrder(pc', Tail(flowQ), Tail(pending))
  <2>1. Returned(h) # "pin"
    BY <1>5
  <2> QED BY <1>2, <1>4, <2>1, OrderPop
<1>7. PinFrames(wire', attempts', flowQ')
  <2>1. \A i \in 1 .. Len(wire') : i + 1 \in 1 .. Len(wire) /\ wire'[i] = wire[i + 1]
    BY <1>1, <1>4, Parts, TailIndex
  <2>2. 1 \in 1 .. Len(wire) /\ wire[1].kind = "pin"
    BY <1>1, Parts, TailIndex
  <2>3. \A i \in 1 .. Len(wire') : wire'[i].kind # "pin"
    <3>1. SUFFICES ASSUME NEW i \in 1 .. Len(wire'), wire'[i].kind = "pin" PROVE FALSE
      OBVIOUS
    <3>2. i + 1 = 1
      BY <2>1, <2>2, <3>1 DEF Quiet, PinFrames
    <3> QED BY <3>2
  <2> QED BY <2>3 DEF PinFrames
<1>8. FileFrames(pc', read, wire)
  <2>1. Returned(h) \notin {"sends", "reading"} /\ pc[h] # "reading"
    BY <1>2, <1>5
  <2> HIDE DEF h
  <2> QED BY <1>2, <1>4, <2>1, FilesAside
<1>9. FileFrames(pc', read, wire')
  <2>1. /\ Only(wire, {}) => Only(wire', {})
        /\ \A m, r : Rest(m, r, wire) => Rest(m, r, wire')
    BY <1>1, <1>4, Parts, RestTail
  <2> QED BY <1>8, <2>1, FilesMoved
<1>10. Own(pc', text)
  <2>1. pc[h] # "took"
    BY <1>2
  <2> HIDE DEF h
  <2> QED BY <1>2, <1>4, <2>1, OwnKept
<1>11. /\ PinOrder(pc', flowQ', pending') /\ FileFrames(pc', read', wire') /\ Own(pc', text')
  BY <1>1, <1>4, <1>6, <1>9, <1>10
<1> QED BY <1>7, <1>11, Quietly

\* A chunk or the end of a file joins the read that asked for it.
LEMMA FileRespQuiet ==
    ASSUME IInv, Quiet, on_file_read_resp
    PROVE  Quiet'
<1>1. /\ wire # <<>> /\ Head(wire).kind # "pin" /\ wire' = Tail(wire)
      /\ read' = IF ~read.open \/ read.done THEN read
                 ELSE IF Head(wire).kind = "end" THEN [read EXCEPT !.done = TRUE]
                 ELSE [read EXCEPT !.chunks = Append(@, Head(wire).of)]
      /\ UNCHANGED <<pc, text, flowQ, attempts, pending>>
  BY DEF on_file_read_resp
<1>2. /\ wire \in Seq(Frame) /\ Len(wire) \in Nat /\ wire[1] = Head(wire) /\ 1 \in 1 .. Len(wire)
      /\ \A i \in 1 .. Len(wire') : i + 1 \in 1 .. Len(wire) /\ wire'[i] = wire[i + 1]
      /\ \A i \in 1 .. Len(wire) : i = 1 \/ (i - 1 \in 1 .. Len(wire') /\ wire'[i - 1] = wire[i])
  <2>1. wire \in Seq(Frame)
    BY Parts
  <2> QED BY <1>1, <2>1, TailIndex
<1>3. FileFrames(pc, read, wire) /\ read \in ReadType
  BY Parts DEF Quiet
<1>4. PinFrames(wire', attempts, flowQ)
  BY <1>1, <1>2, FramesTail DEF Quiet
<1>5. ~Only(wire, {})
  BY <1>1, <1>2 DEF Only
<1>6. PICK n \in Call : pc[n] = "reading"
  BY <1>3, <1>5 DEF FileFrames
<1>7. \A m \in Call : pc[m] \in {"sends", "reading"} => m = n
  <2>1. n \in ToSet(readQ)
    BY <1>6, Parts DEF Readers, AtRead
  <2>2. pc[n] # "read"
    BY <1>6
  <2> QED BY <2>1, <2>2, OneReader
<1>8. read.open /\ ~read.done
  BY <1>3, <1>5, <1>6 DEF FileFrames, Rest
<1>9. (read').open /\ Rest(n, read', wire')
  <2>1. CASE read.chunks = <<>> /\ \E i, j \in 1 .. Len(wire) :
               /\ i < j /\ Only(wire, {i, j})
               /\ wire[i].kind = "chunk" /\ wire[i].of = n /\ wire[j].kind = "end" /\ wire[j].of = n
    <3>1. PICK i \in 1 .. Len(wire), j \in 1 .. Len(wire) :
               /\ i < j /\ Only(wire, {i, j})
               /\ wire[i].kind = "chunk" /\ wire[i].of = n /\ wire[j].kind = "end" /\ wire[j].of = n
      BY <2>1
    <3>2. i = 1
      <4>1. 1 = i \/ 1 = j
        BY <1>1, <1>2, <3>1 DEF Only
      <4> QED BY <3>1, <4>1
    <3>3. Head(wire).kind = "chunk" /\ Head(wire).of = n
      BY <1>2, <3>1, <3>2
    <3>4. read' = [read EXCEPT !.chunks = Append(read.chunks, n)]
      BY <1>1, <1>8, <3>3
    <3>5. (read').open /\ ~(read').done /\ (read').chunks = <<n>>
      <4>1. Append(read.chunks, n) = <<n>>
        BY <2>1
      <4> QED BY <1>3, <1>8, <3>4, <4>1 DEF ReadType
    <3>6. j - 1 \in 1 .. Len(wire') /\ wire'[j - 1] = wire[j]
      BY <1>2, <3>1, <3>2
    <3>7. Only(wire', {j - 1})
      <4>1. SUFFICES ASSUME NEW k \in 1 .. Len(wire'), wire'[k].kind # "pin" PROVE k = j - 1
        BY DEF Only
      <4>2. k + 1 \in 1 .. Len(wire) /\ wire[k + 1].kind # "pin"
        BY <1>2, <4>1
      <4>3. k + 1 = i \/ k + 1 = j
        BY <3>1, <4>2 DEF Only
      <4> QED BY <3>2, <4>1, <4>3
    <3> QED BY <3>1, <3>5, <3>6, <3>7 DEF Rest
  <2>2. CASE read.chunks = <<n>> /\ \E i \in 1 .. Len(wire) :
               Only(wire, {i}) /\ wire[i].kind = "end" /\ wire[i].of = n
    <3>1. PICK i \in 1 .. Len(wire) : Only(wire, {i}) /\ wire[i].kind = "end" /\ wire[i].of = n
      BY <2>2
    <3>2. i = 1
      BY <1>1, <1>2, <3>1 DEF Only
    <3>3. read' = [read EXCEPT !.done = TRUE]
      BY <1>1, <1>2, <1>8, <3>1, <3>2
    <3>4. (read').open /\ (read').done /\ (read').chunks = <<n>>
      BY <1>3, <1>8, <2>2, <3>3 DEF ReadType
    <3>5. Only(wire', {})
      <4>1. SUFFICES ASSUME NEW k \in 1 .. Len(wire'), wire'[k].kind # "pin" PROVE FALSE
        BY DEF Only
      <4>2. k + 1 \in 1 .. Len(wire) /\ wire[k + 1].kind # "pin"
        BY <1>2, <4>1
      <4>3. k + 1 = i
        BY <3>1, <4>2 DEF Only
      <4> QED BY <3>2, <4>1, <4>3
    <3> QED BY <3>4, <3>5 DEF Rest
  <2> QED BY <1>3, <1>6, <1>8, <2>1, <2>2 DEF FileFrames, Rest
<1>10. FileFrames(pc, read', wire')
  BY <1>6, <1>7, <1>9 DEF FileFrames
<1>11. /\ PinOrder(pc', flowQ', pending') /\ PinFrames(wire', attempts', flowQ')
       /\ FileFrames(pc', read', wire') /\ Own(pc', text')
  BY <1>1, <1>4, <1>10 DEF Quiet
<1> QED BY <1>11, Quietly

\* A new file read finds no frame of an earlier one on the wire.
LEMMA ReadStartQuiet ==
    ASSUME IInv, Quiet, NEW n \in Call, read_start(n)
    PROVE  Quiet'
<1>1. /\ pc[n] = "read" /\ Reader(n) /\ pc' = [pc EXCEPT ![n] = "sends"]
      /\ read' = [open |-> TRUE, done |-> FALSE, chunks |-> <<>>]
      /\ UNCHANGED <<text, flowQ, attempts, wire, pending>>
  BY DEF read_start, GoTo
<1>2. pc'[n] = "sends" /\ \A m \in Call : m # n => pc'[m] = pc[m]
  BY <1>1, Parts
<1>3. \A m \in Call : pc[m] # "reading"
  <2>1. \A m \in Call : pc[m] = "reading" => m = n
    BY <1>1, HolderWaits, OneReader
  <2> QED BY <1>1, <2>1
<1>4. FileFrames(pc', read', wire)
  BY <1>1, <1>2, <1>3 DEF Quiet, FileFrames
<1>5. PinOrder(pc', flowQ, pending)
  BY <1>1, OrderAside
<1>6. Own(pc', text)
  BY <1>1, OwnKept
<1>7. /\ PinOrder(pc', flowQ', pending') /\ PinFrames(wire', attempts', flowQ')
      /\ FileFrames(pc', read', wire') /\ Own(pc', text')
  BY <1>1, <1>4, <1>5, <1>6 DEF Quiet
<1> QED BY <1>7, Quietly

\* The two frames of a response come behind the others.
Behind(w, c, e, v) ==
    /\ Len(w) \in Nat /\ Len(v) = Len(w) + 2 /\ v[Len(w) + 1] = c /\ v[Len(w) + 2] = e
    /\ \A i \in 1 .. Len(v) :
          (i \in 1 .. Len(w) /\ v[i] = w[i]) \/ i = Len(w) + 1 \/ i = Len(w) + 2

\* So they are appended.
LEMMA TwoBehind ==
    ASSUME NEW w \in Seq(Frame), NEW c \in Frame, NEW e \in Frame
    PROVE  Behind(w, c, e, w \o <<c, e>>)
  BY DEF Behind

\* The frames of a file read follow one another on the wire.
LEMMA ReadSendQuiet ==
    ASSUME IInv, Quiet, NEW n \in Call, read_send(n)
    PROVE  Quiet'
<1>1. pc[n] = "sends" /\ UNCHANGED <<text, flowQ, attempts, read, pending>>
  BY DEF read_send
<1>2. n \in ToSet(readQ) /\ pc[n] # "read"
  BY <1>1, Parts DEF Readers, AtRead
<1>3. \A m \in Call : pc[m] # "reading"
  <2>1. \A m \in Call : pc[m] = "reading" => m = n
    BY <1>2, OneReader
  <2> QED BY <1>1, <2>1
<1>4. Only(wire, {}) /\ read = [open |-> TRUE, done |-> FALSE, chunks |-> <<>>]
  BY <1>1, <1>3 DEF Quiet, FileFrames
<1>5. CASE GoTo(n, "refused") /\ UNCHANGED wire
  <2>1. pc' = [pc EXCEPT ![n] = "refused"] /\ wire' = wire
    BY <1>5 DEF GoTo
  <2>2. FileFrames(pc', read, wire)
    <3>1. "refused" \notin {"sends", "reading"} /\ pc[n] # "reading"
      BY <1>1
    <3> QED BY <2>1, <3>1, FilesAside
  <2>3. PinOrder(pc', flowQ, pending)
    BY <1>1, <2>1, OrderAside
  <2>4. Own(pc', text)
    BY <1>1, <2>1, OwnKept
  <2>5. /\ PinOrder(pc', flowQ', pending') /\ PinFrames(wire', attempts', flowQ')
        /\ FileFrames(pc', read', wire') /\ Own(pc', text')
    BY <1>1, <2>1, <2>2, <2>3, <2>4 DEF Quiet
  <2> QED BY <2>5, Quietly
<1>6. CASE /\ GoTo(n, "reading")
           /\ wire' = wire \o <<[kind |-> "chunk", of |-> n], [kind |-> "end", of |-> n]>>
  <2> DEFINE c == [kind |-> "chunk", of |-> n]
             e == [kind |-> "end", of |-> n]
             k == Len(wire)
  <2>1. pc' = [pc EXCEPT ![n] = "reading"] /\ wire' = wire \o <<c, e>>
    BY <1>6 DEF GoTo
  <2>2. /\ c \in Frame /\ e \in Frame /\ c.kind = "chunk" /\ e.kind = "end" /\ c.of = n /\ e.of = n
    BY DEF Frame
  <2> HIDE DEF c, e
  <2>3. /\ k \in Nat /\ Len(wire') = k + 2 /\ wire'[k + 1] = c /\ wire'[k + 2] = e
        /\ \A i \in 1 .. Len(wire') :
              (i \in 1 .. k /\ wire'[i] = wire[i]) \/ i = k + 1 \/ i = k + 2
    <3>1. wire \in Seq(Frame)
      BY Parts
    <3>2. Behind(wire, c, e, wire \o <<c, e>>)
      BY <2>2, <3>1, TwoBehind
    <3>3. Behind(wire, c, e, wire')
      BY <2>1, <3>2
    <3> QED BY <3>3 DEF Behind
  <2>4. pc'[n] = "reading" /\ \A m \in Call : m # n => pc'[m] = pc[m]
    BY <2>1, Parts
  <2>5. \A m \in Call : pc[m] = "sends" => m = n
    BY <1>2, OneReader
  <2>6. Only(wire', {k + 1, k + 2})
    BY <1>4, <2>3 DEF Only
  <2> HIDE DEF k
  <2>7. Rest(n, read, wire')
    <3>1. k + 1 \in 1 .. Len(wire') /\ k + 2 \in 1 .. Len(wire') /\ k + 1 < k + 2
      BY <2>3
    <3>2. ~read.done /\ read.chunks = <<>>
      BY <1>4
    <3>3. /\ wire'[k + 1].kind = "chunk" /\ wire'[k + 1].of = n
          /\ wire'[k + 2].kind = "end" /\ wire'[k + 2].of = n
      BY <2>2, <2>3
    <3> QED BY <2>6, <3>1, <3>2, <3>3 DEF Rest
  <2>8. FileFrames(pc', read, wire')
    <3>1. \A m \in Call : pc'[m] # "sends" /\ (pc'[m] = "reading" => m = n)
      BY <1>3, <2>4, <2>5
    <3>2. read.open
      BY <1>4
    <3> QED BY <2>4, <2>7, <3>1, <3>2 DEF FileFrames
  <2>9. PinFrames(wire', attempts, flowQ)
    <3>1. \A i \in 1 .. Len(wire') : wire'[i].kind = "pin" => i \in 1 .. k /\ wire'[i] = wire[i]
      BY <2>2, <2>3
    <3> QED BY <3>1 DEF Quiet, PinFrames, k
  <2>10. PinOrder(pc', flowQ, pending)
    BY <1>1, <2>1, OrderAside
  <2>11. Own(pc', text)
    BY <1>1, <2>1, OwnKept
  <2>12. /\ PinOrder(pc', flowQ', pending') /\ PinFrames(wire', attempts', flowQ')
         /\ FileFrames(pc', read', wire') /\ Own(pc', text')
    BY <1>1, <2>8, <2>9, <2>10, <2>11
  <2> QED BY <2>12, Quietly
<1> QED BY <1>5, <1>6 DEF read_send

\* A complete file read has the chunks of its own file.
LEMMA ReadEndQuiet ==
    ASSUME IInv, Quiet, NEW n \in Call, read_end(n), ~upset'
    PROVE  Quiet'
<1>1. /\ pc[n] = "reading" /\ pc' = [pc EXCEPT ![n] = "answer"] /\ read.done
      /\ text' = [text EXCEPT ![n] = read.chunks] /\ UNCHANGED lines
  BY DEF read_end, GoTo
<1>2. UNCHANGED <<flowQ, attempts, read, wire, pending>>
  BY <1>1 DEF lines
<1>3. read.chunks = <<n>> /\ Only(wire, {})
  BY <1>1 DEF Quiet, FileFrames, Rest
<1>4. pc'[n] = "answer" /\ \A m \in Call : m # n => pc'[m] = pc[m]
  BY <1>1, Parts
<1>5. n \in ToSet(readQ) /\ pc[n] # "read"
  BY <1>1, Parts DEF Readers, AtRead
<1>6. \A m \in Call : pc[m] \in {"sends", "reading"} => m = n
  BY <1>5, OneReader
<1>7. FileFrames(pc', read, wire)
  BY <1>3, <1>4, <1>6 DEF FileFrames
<1>8. Own(pc', text')
  BY <1>1, <1>3, OwnSet
<1>9. PinOrder(pc', flowQ, pending)
  BY <1>1, OrderAside
<1>10. /\ PinOrder(pc', flowQ', pending') /\ PinFrames(wire', attempts', flowQ')
       /\ FileFrames(pc', read', wire')
  BY <1>2, <1>7, <1>9 DEF Quiet
<1> QED BY <1>8, <1>10, Quietly

\* What touches neither a call nor a lock nor a frame.
LEMMA IdleQuiet ==
    ASSUME Quiet, UNCHANGED <<pc, text, lines>>
    PROVE  Quiet'
<1>1. UNCHANGED <<pc, text, flowQ, attempts, read, wire, pending>>
  BY DEF lines
<1>2. /\ PinOrder(pc', flowQ', pending') /\ PinFrames(wire', attempts', flowQ')
      /\ FileFrames(pc', read', wire') /\ Own(pc', text')
  BY <1>1 DEF Quiet
<1> QED BY <1>2, Quietly

\* A step that upsets nothing keeps the order.
LEMMA NextQuiet ==
    ASSUME IInv, Quiet, [Next]_vars, ~upset'
    PROVE  Quiet'
<1>1. ASSUME NEW n \in Call, request(n) \/ raise(n) \/ wait(n) \/ write(n) \/ get_slot(n) PROVE Quiet'
  <2>1. /\ pc[n] \in {"new", "called", "slot", "waits", "write"} /\ UNCHANGED <<lines, text>>
    BY <1>1 DEF request, raise, wait, write, get_slot
  <2>2. PICK l \in {"called", "answer", "done", "wrote"} : pc' = [pc EXCEPT ![n] = l]
    BY <1>1 DEF request, raise, wait, write, get_slot, GoTo
  <2>3. /\ pc[n] \notin {"pin", "reading", "took"} /\ l \notin {"pin", "sends", "reading"}
    BY <2>1, <2>2
  <2> QED BY <2>1, <2>2, <2>3, QuietAside
<1>2. ASSUME NEW n \in Call, Serve(n) PROVE Quiet'
  <2>1. CASE handle_request(n)
    BY <2>1, HandleQuiet
  <2>2. CASE answer(n)
    BY <2>2, AnswerQuiet
  <2>3. CASE send(n)
    BY <2>3, SendQuiet
  <2>4. CASE send_pin(n)
    BY <2>4, SendPinQuiet
  <2>5. CASE send_pin_fails(n)
    BY <2>5 DEF send_pin_fails
  <2>6. CASE read_start(n)
    BY <2>6, ReadStartQuiet
  <2>7. CASE read_send(n)
    BY <2>7, ReadSendQuiet
  <2>8. CASE read_end(n)
    BY <2>8, ReadEndQuiet
  <2>9. CASE take(n) \/ took(n)
    BY <2>9, MailboxQuiet
  <2>10. CASE wrote(n)
    BY <2>10, WroteQuiet
  <2> QED BY <1>1, <1>2, <2>1, <2>2, <2>3, <2>4, <2>5, <2>6, <2>7, <2>8, <2>9, <2>10 DEF Serve
<1>3. ASSUME NEW n \in Call, cancel(n) PROVE Quiet'
  BY <1>3, CancelQuiet
<1>4. CASE on_pin_resp
  BY <1>4, PinRespQuiet
<1>5. CASE on_file_read_resp
  BY <1>5, FileRespQuiet
<1>6. CASE lose
  BY <1>6, LoseQuiet
<1>7. CASE disconnect \/ escape
  BY <1>7, DisconnectQuiet
<1>8. CASE mailbox_push \/ mailbox_pushed \/ mailbox_read \/ mailbox_sent
  <2>1. UNCHANGED <<pc, text, lines>>
    BY <1>8 DEF mailbox_push, mailbox_pushed, mailbox_read, mailbox_sent
  <2> QED BY <2>1, IdleQuiet
<1>9. CASE UNCHANGED vars
  <2>1. UNCHANGED <<pc, text, lines>>
    BY <1>9 DEF vars
  <2> QED BY <2>1, IdleQuiet
<1> QED BY <1>1, <1>2, <1>3, <1>4, <1>5, <1>6, <1>7, <1>8, <1>9 DEF Next

\* An upset is never undone.
LEMMA UpsetStays ==
    ASSUME IInv, [Next]_vars
    PROVE  who' = who /\ (upset => upset')
<1>1. ASSUME NEW n \in Call, Serve(n) PROVE who' = who /\ (upset => upset')
  <2>1. CASE handle_request(n)
    BY <2>1 DEF handle_request
  <2>2. CASE raise(n)
    BY <2>2 DEF raise
  <2>3. CASE answer(n)
    BY <2>3 DEF answer
  <2>4. CASE wait(n)
    BY <2>4 DEF wait
  <2>5. CASE send(n)
    BY <2>5 DEF send
  <2>6. CASE send_pin(n)
    BY <2>6 DEF send_pin
  <2>7. CASE send_pin_fails(n)
    BY <2>7 DEF send_pin_fails
  <2>8. CASE read_start(n)
    BY <2>8 DEF read_start
  <2>9. CASE read_send(n)
    BY <2>9 DEF read_send
  <2>10. CASE read_end(n)
    BY <2>10 DEF read_end
  <2>11. CASE take(n)
    BY <2>11 DEF take
  <2>12. CASE took(n)
    BY <2>12 DEF took
  <2>13. CASE write(n)
    BY <2>13 DEF write
  <2>14. CASE wrote(n)
    BY <2>14 DEF wrote
  <2> QED BY <1>1, <2>1, <2>2, <2>3, <2>4, <2>5, <2>6, <2>7, <2>8,
             <2>9, <2>10, <2>11, <2>12, <2>13, <2>14 DEF Serve
<1>2. ASSUME NEW n \in Call, request(n) \/ get_slot(n) \/ cancel(n) PROVE who' = who /\ (upset => upset')
  <2>1. CASE request(n)
    BY <2>1 DEF request
  <2>2. CASE get_slot(n)
    BY <2>2 DEF get_slot
  <2>3. CASE cancel(n)
    BY <2>3 DEF cancel
  <2> QED BY <1>2, <2>1, <2>2, <2>3
<1>3. CASE on_pin_resp
  BY <1>3 DEF on_pin_resp, port_closed
<1>4. CASE on_file_read_resp \/ lose
  <2>1. CASE on_file_read_resp
    BY <2>1 DEF on_file_read_resp
  <2>2. CASE lose
    BY <2>2 DEF lose
  <2> QED BY <1>4, <2>1, <2>2
<1>5. CASE disconnect \/ escape
  BY <1>5 DEF disconnect, escape, port_closed
<1>6. CASE mailbox_push \/ mailbox_pushed \/ mailbox_read \/ mailbox_sent
  BY <1>6 DEF mailbox_push, mailbox_pushed, mailbox_read, mailbox_sent
<1>7. CASE UNCHANGED vars
  BY <1>7 DEF vars
<1> QED BY <1>1, <1>2, <1>3, <1>4, <1>5, <1>6, <1>7 DEF Next

\* An answer stays what it was, or is taken.
LEMMA AnswerKept ==
    ASSUME OwnAnswer, who' = who, upset => upset', \A n \in Call : box'[n] = box[n] \/ box'[n] = NoAnswer
    PROVE  OwnAnswer'
  BY DEF OwnAnswer

\* An answer to n is put in the queue of a call with its correlation data.
LEMMA AnswerPut ==
    ASSUME IInv, OwnAnswer, who' = who, upset => upset', NEW n \in DOMAIN who, NEW t, Put(n, t),
           t = <<n>> \/ upset'
    PROVE  OwnAnswer'
<1> DEFINE r == Receiver(n)
<1>1. r \in Call \cup {0} /\ (r # 0 => who[r].corr = who[n].corr)
  BY ReceiverType
<1>2. CASE r = 0
  <2>1. box' = box
    BY <1>2 DEF Put
  <2> QED BY <2>1, AnswerKept
<1>3. CASE r # 0
  <2>1. box' = [box EXCEPT ![r] = [to |-> n, of |-> t]] /\ r \in Call
    BY <1>1, <1>3 DEF Put
  <2> HIDE DEF r
  <2>2. /\ box'[r] = [to |-> n, of |-> t] /\ \A m \in Call : m # r => box'[m] = box[m]
    BY <2>1, Parts
  <2>3. (box'[r]).to = n /\ (box'[r]).of = t
    BY <2>2
  <2>4. ASSUME NEW m \in Call, box'[m] # NoAnswer
        PROVE  /\ (box'[m]).to = m \/ who'[(box'[m]).to].corr = who'[m].corr
               /\ (box'[m]).of = <<(box'[m]).to>> \/ upset'
    <3>1. CASE m = r
      BY <1>1, <1>3, <2>3, <3>1
    <3>2. CASE m # r
      BY <2>2, <2>4, <3>2 DEF OwnAnswer
    <3> QED BY <3>1, <3>2
  <2> QED BY <2>4 DEF OwnAnswer
<1> QED BY <1>2, <1>3

\* A step puts no answer of somebody else in a queue.
LEMMA NextOwn ==
    ASSUME IInv, Calm, OwnAnswer, [Next]_vars
    PROVE  OwnAnswer'
<1>1. who' = who /\ (upset => upset')
  BY UpsetStays
<1>2. ASSUME box' = box PROVE OwnAnswer'
  BY <1>1, <1>2, AnswerKept
<1>3. ASSUME NEW n \in Call, box' = [box EXCEPT ![n] = NoAnswer] PROVE OwnAnswer'
  <2>1. \A m \in Call : box'[m] = box[m] \/ box'[m] = NoAnswer
    BY <1>3, Parts
  <2> QED BY <1>1, <2>1, AnswerKept
<1>4. ASSUME NEW n \in Call, answer(n) PROVE OwnAnswer'
  <2>1. CASE QueueFull(n)
    BY <1>2, <1>4, <2>1 DEF answer
  <2>2. CASE ~QueueFull(n)
    <3>1. Put(n, text[n]) /\ pc[n] \in {"answer", "refused"} /\ upset' = upset
      BY <1>4, <2>2 DEF answer
    <3>2. n \in DOMAIN who
      BY <3>1, Parts
    <3>3. text[n] = <<n>> \/ upset'
      <4>1. CASE upset
        BY <3>1, <4>1
      <4>2. CASE ~upset
        BY <3>1, <4>2 DEF Calm, Quiet, Own
      <4> QED BY <4>1, <4>2
    <3> QED BY <1>1, <3>1, <3>2, <3>3, AnswerPut
  <2> QED BY <2>1, <2>2
<1>5. CASE on_pin_resp
  <2>1. CASE pending = <<>> \/ QueueFull(Head(pending))
    <3>1. box' = box
      BY <1>5, <2>1 DEF on_pin_resp
    <3> QED BY <1>2, <3>1
  <2>2. CASE ~(pending = <<>> \/ QueueFull(Head(pending)))
    <3> DEFINE n == Head(pending)
               t == <<Head(wire).of>>
    <3>1. Put(n, t) /\ upset' = upset /\ wire # <<>> /\ Head(wire).kind = "pin"
      BY <1>5, <2>2 DEF on_pin_resp
    <3>2. n = pending[1] /\ 1 \in 1 .. Len(pending) /\ n \in Call
      <4>1. pending \in Seq(Call) /\ pending # <<>>
        BY <2>2, Parts
      <4> QED BY <4>1, TailIndex
    <3>3. n \in DOMAIN who
      BY <3>2, Parts
    <3>4. t = <<n>> \/ upset'
      <4>1. CASE upset
        BY <3>1, <4>1
      <4>2. CASE ~upset
        <5>1. Head(wire).of = Head(pending)
          BY <3>1, <4>2, OldestIsHolder DEF Calm
        <5> QED BY <5>1
      <4> QED BY <4>1, <4>2
    <3> HIDE DEF n, t
    <3> QED BY <1>1, <3>1, <3>3, <3>4, AnswerPut
  <2> QED BY <2>1, <2>2
<1>6. ASSUME NEW n \in Call, wait(n) \/ cancel(n) PROVE OwnAnswer'
  BY <1>3, <1>6 DEF wait, cancel
<1>7. ASSUME NEW n \in Call, Serve(n) PROVE OwnAnswer'
  <2>1. CASE \/ handle_request(n) \/ raise(n) \/ send(n) \/ send_pin(n) \/ send_pin_fails(n)
             \/ read_start(n) \/ read_send(n) \/ read_end(n)
    BY <1>2, <2>1 DEF handle_request, raise, send, send_pin, send_pin_fails, read_start, read_send,
                     read_end
  <2>2. CASE take(n) \/ took(n) \/ write(n) \/ wrote(n)
    BY <1>2, <2>2 DEF take, took, write, wrote
  <2> QED BY <1>4, <1>6, <1>7, <2>1, <2>2 DEF Serve
<1>8. ASSUME NEW n \in Call, request(n) \/ get_slot(n) PROVE OwnAnswer'
  BY <1>2, <1>8 DEF request, get_slot
<1>9. CASE on_file_read_resp \/ lose \/ disconnect \/ escape
  BY <1>2, <1>9 DEF on_file_read_resp, lose, disconnect, escape
<1>10. CASE mailbox_push \/ mailbox_pushed \/ mailbox_read \/ mailbox_sent
  BY <1>2, <1>10 DEF mailbox_push, mailbox_pushed, mailbox_read, mailbox_sent
<1>11. CASE UNCHANGED vars
  BY <1>2, <1>11 DEF vars
<1> QED BY <1>5, <1>6, <1>7, <1>8, <1>9, <1>10, <1>11 DEF Next

\* Until a response is lost or comes late, pin reads and file reads are answered in order.
THEOREM CalmInvariant == Spec => []Calm
<1>1. Init => Calm
  <2>1. SUFFICES ASSUME Init PROVE Quiet
    BY DEF Calm
  <2>2. PinOrder(pc, flowQ, pending)
    <3>1. PinSet(pc) = {} /\ pending = <<>> /\ flowQ = <<>>
      BY <2>1 DEF Init, PinSet
    <3>2. Lists(<<>>, {})
      BY DEF Lists
    <3> QED BY <3>1, <3>2 DEF PinOrder
  <2>3. PinFrames(wire, attempts, flowQ)
    BY <2>1 DEF Init, PinFrames
  <2>4. FileFrames(pc, read, wire)
    <3>1. Only(wire, {})
      BY <2>1 DEF Init, Only
    <3>2. \A n \in Call : pc[n] = "new"
      BY <2>1 DEF Init
    <3> QED BY <3>1, <3>2 DEF FileFrames
  <2>5. Own(pc, text)
    BY <2>1 DEF Init, Own
  <2> QED BY <2>2, <2>3, <2>4, <2>5 DEF Quiet
<1>2. IInv /\ Calm /\ [Next]_vars => Calm'
  <2>1. SUFFICES ASSUME IInv, Calm, [Next]_vars, ~upset' PROVE Quiet'
    BY DEF Calm
  <2>2. ~upset
    BY <2>1, UpsetStays
  <2> QED BY <2>1, <2>2, NextQuiet DEF Calm
<1> QED BY <1>1, <1>2, RequestsInvariant, PTL DEF Spec

\* The answer in a client's queue is the one to its request, or to one with the same
\* correlation data, and made of what the MCU sent for it until a response was lost or late.
THEOREM AnswersAreOwn == Spec => []OwnAnswer
<1>1. Init => OwnAnswer
  BY DEF Init, OwnAnswer
<1>2. IInv /\ Calm /\ OwnAnswer /\ [Next]_vars => OwnAnswer'
  BY NextOwn
<1> QED BY <1>1, <1>2, RequestsInvariant, CalmInvariant, PTL DEF Spec
=============================================================================
