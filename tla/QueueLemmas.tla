----------------------------- MODULE QueueLemmas -----------------------------
(***************************************************************************)
(* Facts about sequences that the proofs share: queues that lose their head,  *)
(* grow at an end or lose one element, and the queue of a lock, which lists    *)
(* the coroutines that hold it or wait for it.                                *)
(***************************************************************************)
EXTENDS Integers, Sequences, SequencesExt, SequenceTheorems, TLAPS

\* w lists the members of S, each once.
Lists(w, S) ==
    /\ \A i \in 1 .. Len(w) : w[i] \in S
    /\ \A a \in S : \E i \in 1 .. Len(w) : w[i] = a
    /\ \A i, k \in 1 .. Len(w) : w[i] = w[k] => i = k

\* What is left of a sequence without its first element.
LEMMA TailIndex ==
    ASSUME NEW S, NEW s \in Seq(S), s # <<>>
    PROVE  /\ Head(s) = s[1] /\ Head(s) \in S /\ 1 \in 1 .. Len(s) /\ Len(s) \in Nat
           /\ Tail(s) \in Seq(S) /\ Len(Tail(s)) = Len(s) - 1
           /\ \A i \in 1 .. Len(Tail(s)) : i + 1 \in 1 .. Len(s) /\ Tail(s)[i] = s[i + 1]
           /\ \A i \in 1 .. Len(s) : i = 1 \/ (i - 1 \in 1 .. Len(Tail(s)) /\ Tail(s)[i - 1] = s[i])
  OBVIOUS

\* An element appended follows the others.
LEMMA AppendIndex ==
    ASSUME NEW S, NEW s \in Seq(S), NEW x \in S
    PROVE  /\ Append(s, x) \in Seq(S) /\ Len(Append(s, x)) = Len(s) + 1 /\ Len(s) \in Nat
           /\ Len(s) + 1 \in 1 .. Len(Append(s, x)) /\ Append(s, x)[Len(s) + 1] = x
           /\ \A i \in 1 .. Len(Append(s, x)) :
                 (i \in 1 .. Len(s) /\ Append(s, x)[i] = s[i]) \/ i = Len(s) + 1
           /\ \A i \in 1 .. Len(s) : i \in 1 .. Len(Append(s, x)) /\ Append(s, x)[i] = s[i]
  OBVIOUS

\* An element put in front precedes the others.
LEMMA PrependIndex ==
    ASSUME NEW S, NEW s \in Seq(S), NEW x \in S
    PROVE  /\ <<x>> \o s \in Seq(S) /\ Len(<<x>> \o s) = Len(s) + 1 /\ Len(s) \in Nat
           /\ 1 \in 1 .. Len(<<x>> \o s) /\ (<<x>> \o s)[1] = x
           /\ \A i \in 1 .. Len(<<x>> \o s) :
                 i = 1 \/ (i - 1 \in 1 .. Len(s) /\ (<<x>> \o s)[i] = s[i - 1])
           /\ \A i \in 1 .. Len(s) :
                 i + 1 \in 1 .. Len(<<x>> \o s) /\ (<<x>> \o s)[i + 1] = s[i]
  OBVIOUS

\* What is left of a sequence without its first f elements.
LEMMA DropFront ==
    ASSUME NEW S, NEW a \in Seq(S), NEW f \in Nat
    PROVE  /\ SubSeq(a, f + 1, Len(a)) \in Seq(S)
           /\ Len(SubSeq(a, f + 1, Len(a))) = IF f <= Len(a) THEN Len(a) - f ELSE 0
           /\ \A i \in 1 .. Len(SubSeq(a, f + 1, Len(a))) :
                 i + f \in 1 .. Len(a) /\ SubSeq(a, f + 1, Len(a))[i] = a[i + f]
<1> DEFINE b == SubSeq(a, f + 1, Len(a))
<1>1. f + 1 \in Int /\ Len(a) \in Int /\ Len(a) \in Nat /\ \A i \in f + 1 .. Len(a) : a[i] \in S
  OBVIOUS
<1>2. /\ b \in Seq(S) /\ Len(b) = IF f + 1 <= Len(a) THEN Len(a) - (f + 1) + 1 ELSE 0
      /\ \A i \in 1 .. Len(a) - (f + 1) + 1 : b[i] = a[f + 1 + i - 1]
  <2> DEFINE m == f + 1
             n == Len(a)
  <2>1. m \in Int /\ n \in Int /\ \A i \in m .. n : a[i] \in S
    BY <1>1
  <2> HIDE DEF m, n
  <2>2. /\ SubSeq(a, m, n) \in Seq(S) /\ Len(SubSeq(a, m, n)) = IF m <= n THEN n - m + 1 ELSE 0
        /\ \A i \in 1 .. n - m + 1 : SubSeq(a, m, n)[i] = a[m + i - 1]
    BY <2>1, SubSeqProperties
  <2> QED BY <2>2 DEF m, n
<1> HIDE DEF b
<1>3. Len(b) = IF f <= Len(a) THEN Len(a) - f ELSE 0
  <2> DEFINE k == Len(b)
             n == Len(a)
  <2>1. n \in Nat /\ k = IF f + 1 <= n THEN n - (f + 1) + 1 ELSE 0
    BY <1>1, <1>2
  <2> HIDE DEF k, n
  <2>2. k = IF f <= n THEN n - f ELSE 0
    <3>1. CASE f + 1 <= n
      BY <2>1, <3>1
    <3>2. CASE ~(f + 1 <= n)
      BY <2>1, <3>2
    <3> QED BY <3>1, <3>2
  <2> QED BY <2>2 DEF k, n
<1>4. \A i \in 1 .. Len(b) : i + f \in 1 .. Len(a) /\ b[i] = a[i + f]
  <2>1. SUFFICES ASSUME NEW i \in 1 .. Len(b) PROVE i + f \in 1 .. Len(a) /\ b[i] = a[i + f]
    OBVIOUS
  <2>2. i \in 1 .. Len(a) - (f + 1) + 1 /\ f + 1 + i - 1 = i + f /\ i + f \in 1 .. Len(a)
    BY <1>1, <1>3
  <2>3. b[i] = a[f + 1 + i - 1]
    BY <1>2, <2>2
  <2> QED BY <2>2, <2>3
<1> QED BY <1>2, <1>3, <1>4 DEF b

\* Acquiring the lock: an actor that is not in its queue goes to the end.
LEMMA ListsAppend ==
    ASSUME NEW A, NEW S, NEW w \in Seq(A), NEW a \in A, a \notin S, Lists(w, S)
    PROVE  Append(w, a) \in Seq(A) /\ Lists(Append(w, a), S \cup {a})
<1> DEFINE v == Append(w, a)
<1>1. /\ v \in Seq(A) /\ Len(v) = Len(w) + 1 /\ Len(w) \in Nat
      /\ Len(w) + 1 \in 1 .. Len(v) /\ v[Len(w) + 1] = a
      /\ \A i \in 1 .. Len(v) : (i \in 1 .. Len(w) /\ v[i] = w[i]) \/ i = Len(w) + 1
      /\ \A i \in 1 .. Len(w) : i \in 1 .. Len(v) /\ v[i] = w[i]
  BY AppendIndex
<1> HIDE DEF v
<1>2. \A i \in 1 .. Len(v) : v[i] \in S \cup {a}
  BY <1>1 DEF Lists
<1>3. \A c \in S \cup {a} : \E i \in 1 .. Len(v) : v[i] = c
  BY <1>1 DEF Lists
<1>4. ASSUME NEW i \in 1 .. Len(v), NEW k \in 1 .. Len(v), v[i] = v[k]
      PROVE  i = k
  <2>1. CASE i \in 1 .. Len(w) /\ v[i] = w[i] /\ k \in 1 .. Len(w) /\ v[k] = w[k]
    BY <1>4, <2>1 DEF Lists
  <2>2. CASE i = Len(w) + 1 /\ k \in 1 .. Len(w) /\ v[k] = w[k]
    BY <1>1, <1>4, <2>2 DEF Lists
  <2>3. CASE k = Len(w) + 1 /\ i \in 1 .. Len(w) /\ v[i] = w[i]
    BY <1>1, <1>4, <2>3 DEF Lists
  <2>4. CASE i = Len(w) + 1 /\ k = Len(w) + 1
    BY <2>4
  <2> QED BY <1>1, <2>1, <2>2, <2>3, <2>4
<1>5. Lists(v, S \cup {a})
  BY <1>2, <1>3, <1>4 DEF Lists
<1> QED BY <1>1, <1>5 DEF v

\* Releasing the lock: its holder leaves the queue.
LEMMA ListsTail ==
    ASSUME NEW A, NEW S, NEW w \in Seq(A), w # <<>>, Lists(w, S)
    PROVE  Tail(w) \in Seq(A) /\ Lists(Tail(w), S \ {Head(w)}) /\ Head(w) \in S
<1> DEFINE v == Tail(w)
           h == Head(w)
<1>1. /\ h = w[1] /\ 1 \in 1 .. Len(w) /\ v \in Seq(A) /\ Len(v) \in Nat
      /\ \A i \in 1 .. Len(v) : i + 1 \in 1 .. Len(w) /\ v[i] = w[i + 1]
      /\ \A i \in 1 .. Len(w) : i = 1 \/ (i - 1 \in 1 .. Len(v) /\ v[i - 1] = w[i])
  BY TailIndex
<1> HIDE DEF v, h
<1>2. \A i \in 1 .. Len(v) : v[i] \in S \ {h}
  <2>1. SUFFICES ASSUME NEW i \in 1 .. Len(v) PROVE v[i] \in S /\ v[i] # h
    OBVIOUS
  <2>2. i + 1 # 1 /\ i + 1 \in 1 .. Len(w) /\ v[i] = w[i + 1]
    BY <1>1
  <2> QED BY <1>1, <2>2 DEF Lists
<1>3. \A c \in S \ {h} : \E i \in 1 .. Len(v) : v[i] = c
  BY <1>1 DEF Lists
<1>4. ASSUME NEW i \in 1 .. Len(v), NEW k \in 1 .. Len(v), v[i] = v[k]
      PROVE  i = k
  <2>1. i + 1 = k + 1
    BY <1>1, <1>4 DEF Lists
  <2> QED BY <2>1
<1>5. Lists(v, S \ {h}) /\ h \in S
  BY <1>1, <1>2, <1>3, <1>4 DEF Lists
<1> QED BY <1>1, <1>5 DEF v, h

\* The elements of a sequence.
LEMMA ToSetIndex ==
    ASSUME NEW S, NEW s \in Seq(S)
    PROVE  \A x : x \in ToSet(s) <=> \E i \in 1 .. Len(s) : s[i] = x
  BY DEF ToSet

\* An appended element joins them.
LEMMA ToSetAppend ==
    ASSUME NEW S, NEW s \in Seq(S), NEW x \in S
    PROVE  ToSet(Append(s, x)) = ToSet(s) \cup {x}
<1> DEFINE v == Append(s, x)
<1>1. /\ v \in Seq(S) /\ Len(s) + 1 \in 1 .. Len(v) /\ v[Len(s) + 1] = x
      /\ \A i \in 1 .. Len(v) : (i \in 1 .. Len(s) /\ v[i] = s[i]) \/ i = Len(s) + 1
      /\ \A i \in 1 .. Len(s) : i \in 1 .. Len(v) /\ v[i] = s[i]
  BY AppendIndex
<1> HIDE DEF v
<1>2. ASSUME NEW y PROVE y \in ToSet(v) <=> y \in ToSet(s) \cup {x}
  BY <1>1, ToSetIndex
<1> QED BY <1>2 DEF v

\* One element is taken out.
LEMMA RemoveIndex ==
    ASSUME NEW S, NEW s \in Seq(S), NEW i \in 1 .. Len(s)
    PROVE  /\ RemoveAt(s, i) \in Seq(S) /\ Len(RemoveAt(s, i)) = Len(s) - 1
           /\ \A k \in 1 .. Len(s) - 1 : RemoveAt(s, i)[k] = IF k < i THEN s[k] ELSE s[k + 1]
<1> DEFINE u == SubSeq(s, 1, i - 1)
           v == SubSeq(s, i + 1, Len(s))
<1>1. Len(s) \in Nat /\ i \in Nat /\ i >= 1 /\ i <= Len(s)
  OBVIOUS
<1>2. u \in Seq(S) /\ Len(u) = i - 1 /\ \A k \in 1 .. i - 1 : u[k] = s[k]
  <2>1. 1 \in Int /\ i - 1 \in Int /\ \A k \in 1 .. i - 1 : s[k] \in S
    BY <1>1
  <2>2. /\ u \in Seq(S) /\ Len(u) = IF 1 <= i - 1 THEN i - 1 - 1 + 1 ELSE 0
        /\ \A k \in 1 .. i - 1 - 1 + 1 : u[k] = s[1 + k - 1]
    BY <2>1, SubSeqProperties
  <2> HIDE DEF u
  <2> QED BY <1>1, <2>2
<1>3. v \in Seq(S) /\ Len(v) = Len(s) - i /\ \A k \in 1 .. Len(s) - i : v[k] = s[i + k]
  <2>1. i + 1 \in Int /\ Len(s) \in Int /\ \A k \in i + 1 .. Len(s) : s[k] \in S
    BY <1>1
  <2>2. /\ v \in Seq(S) /\ Len(v) = IF i + 1 <= Len(s) THEN Len(s) - (i + 1) + 1 ELSE 0
        /\ \A k \in 1 .. Len(s) - (i + 1) + 1 : v[k] = s[i + 1 + k - 1]
    BY <2>1, SubSeqProperties
  <2> HIDE DEF v
  <2> QED BY <1>1, <2>2
<1> HIDE DEF u, v
<1>4. /\ u \o v \in Seq(S) /\ Len(u \o v) = Len(u) + Len(v)
      /\ \A k \in 1 .. Len(u) + Len(v) : (u \o v)[k] = IF k <= Len(u) THEN u[k] ELSE v[k - Len(u)]
  BY <1>2, <1>3, ConcatProperties
<1>5. Len(u \o v) = Len(s) - 1
  BY <1>1, <1>2, <1>3, <1>4
<1>6. ASSUME NEW k \in 1 .. Len(s) - 1
      PROVE  (u \o v)[k] = IF k < i THEN s[k] ELSE s[k + 1]
  <2>1. CASE k < i
    <3>1. k \in 1 .. i - 1 /\ k <= Len(u) /\ k \in 1 .. Len(u) + Len(v)
      BY <1>1, <1>2, <1>3, <2>1
    <3> QED BY <1>2, <1>4, <2>1, <3>1
  <2>2. CASE ~(k < i)
    <3>1. /\ k - Len(u) \in 1 .. Len(s) - i /\ ~(k <= Len(u)) /\ k \in 1 .. Len(u) + Len(v)
          /\ i + (k - Len(u)) = k + 1
      BY <1>1, <1>2, <1>3, <2>2
    <3> QED BY <1>3, <1>4, <2>2, <3>1
  <2> QED BY <2>1, <2>2
<1>7. RemoveAt(s, i) = u \o v
  BY DEF RemoveAt, u, v
<1> QED BY <1>4, <1>5, <1>6, <1>7

\* RemoveFirst takes out the one occurrence of an element.
LEMMA RemoveFirstOne ==
    ASSUME NEW S, NEW s \in Seq(S), NEW e, NEW i \in 1 .. Len(s), s[i] = e,
           \A k \in 1 .. Len(s) : s[k] = e => k = i
    PROVE  RemoveFirst(s, e) = RemoveAt(s, i)
<1>1. {j \in 1 .. Len(s) : s[j] = e} = {i}
  OBVIOUS
<1>2. Min({i}) = i
  <2>1. i <= i
    OBVIOUS
  <2> QED BY <2>1 DEF Min
<1>3. SelectInSeq(s, LAMBDA v : v = e) = i
  BY <1>1, <1>2 DEF SelectInSeq
<1> QED BY <1>3 DEF RemoveFirst

\* Cancelling a waiter or the holder of the lock: it leaves the queue, which else stays in
\* order.
LEMMA ListsRemove ==
    ASSUME NEW A, NEW S, NEW w \in Seq(A), NEW a, Lists(w, S)
    PROVE  /\ RemoveFirst(w, a) \in Seq(A) /\ Lists(RemoveFirst(w, a), S \ {a})
           /\ w # <<>> /\ Head(w) # a =>
                 RemoveFirst(w, a) # <<>> /\ Head(RemoveFirst(w, a)) = Head(w)
<1>1. CASE ~ \E i \in 1 .. Len(w) : w[i] = a
  <2>1. RemoveFirst(w, a) = w
    BY <1>1 DEF RemoveFirst
  <2>2. S \ {a} = S
    BY <1>1 DEF Lists
  <2> QED BY <2>1, <2>2
<1>2. CASE \E i \in 1 .. Len(w) : w[i] = a
  <2>1. PICK i \in 1 .. Len(w) : w[i] = a
    BY <1>2
  <2> DEFINE v == RemoveAt(w, i)
  <2>2. RemoveFirst(w, a) = v
    BY <2>1, RemoveFirstOne DEF Lists
  <2>3. /\ v \in Seq(A) /\ Len(v) = Len(w) - 1 /\ Len(w) \in Nat /\ Len(v) \in Nat
        /\ \A k \in 1 .. Len(w) - 1 : v[k] = IF k < i THEN w[k] ELSE w[k + 1]
    BY RemoveIndex
  <2> HIDE DEF v
  <2>4. \A k \in 1 .. Len(v) : /\ (k < i /\ v[k] = w[k] /\ k \in 1 .. Len(w))
                                  \/ (k >= i /\ v[k] = w[k + 1] /\ k + 1 \in 1 .. Len(w))
    BY <2>3
  <2>5. \A k \in 1 .. Len(v) : v[k] \in S \ {a}
    <3>1. SUFFICES ASSUME NEW k \in 1 .. Len(v) PROVE v[k] \in S /\ v[k] # a
      OBVIOUS
    <3>2. CASE k < i /\ v[k] = w[k] /\ k \in 1 .. Len(w)
      BY <2>1, <3>2 DEF Lists
    <3>3. CASE k >= i /\ v[k] = w[k + 1] /\ k + 1 \in 1 .. Len(w)
      <4>1. k + 1 # i
        BY <3>3
      <4> QED BY <2>1, <3>3, <4>1 DEF Lists
    <3> QED BY <2>4, <3>2, <3>3
  <2>6. ASSUME NEW c \in S \ {a} PROVE \E k \in 1 .. Len(v) : v[k] = c
    <3>1. PICK j \in 1 .. Len(w) : w[j] = c
      BY <2>6 DEF Lists
    <3>2. j # i
      BY <2>1, <2>6, <3>1
    <3>3. CASE j < i
      <4>1. j \in 1 .. Len(v) /\ v[j] = w[j]
        BY <2>3, <3>3
      <4> QED BY <3>1, <4>1
    <3>4. CASE j > i
      <4>1. j - 1 \in 1 .. Len(w) - 1 /\ ~(j - 1 < i) /\ j - 1 + 1 = j
        BY <2>3, <3>4
      <4>2. j - 1 \in 1 .. Len(v) /\ v[j - 1] = w[j]
        BY <2>3, <4>1
      <4> QED BY <3>1, <4>2
    <3> QED BY <3>2, <3>3, <3>4
  <2>7. ASSUME NEW k \in 1 .. Len(v), NEW j \in 1 .. Len(v), v[k] = v[j]
        PROVE  k = j
    <3> DEFINE t(x) == IF x < i THEN x ELSE x + 1
    <3>1. t(k) \in 1 .. Len(w) /\ t(j) \in 1 .. Len(w) /\ v[k] = w[t(k)] /\ v[j] = w[t(j)]
      BY <2>4
    <3>2. t(k) = t(j)
      <4> HIDE DEF t
      <4> QED BY <2>7, <3>1 DEF Lists
    <3> QED BY <3>2
  <2>8. Lists(v, S \ {a})
    BY <2>5, <2>6, <2>7 DEF Lists
  <2>9. w # <<>> /\ Head(w) # a => v # <<>> /\ Head(v) = Head(w)
    <3>1. SUFFICES ASSUME w # <<>>, Head(w) # a PROVE v # <<>> /\ Head(v) = Head(w)
      OBVIOUS
    <3>2. Head(w) = w[1] /\ 1 \in 1 .. Len(w)
      BY <3>1, TailIndex
    <3>3. i # 1 /\ 1 < i /\ 1 \in 1 .. Len(w) - 1
      BY <2>1, <2>3, <3>1, <3>2
    <3>4. v[1] = w[1] /\ v # <<>>
      BY <2>3, <3>3
    <3>5. Head(v) = v[1]
      BY <2>3, <3>4, TailIndex
    <3> QED BY <3>2, <3>4, <3>5
  <2> QED BY <2>2, <2>3, <2>8, <2>9
<1> QED BY <1>1, <1>2
=============================================================================
