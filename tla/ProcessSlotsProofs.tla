------------------------- MODULE ProcessSlotsProofs -------------------------
(***************************************************************************)
(* Proofs about ProcessSlots, for any number of commands, handlers and       *)
(* slots and for any way in which the process ids coincide.                  *)
(*                                                                         *)
(* Slots are counted with two sums.  One is SlotsConserved.  The other,      *)
(* Charged, charges every leaked slot to a command that can leak none again. *)
(***************************************************************************)
EXTENDS ProcessSlots, TLAPS, FiniteSetTheorems

\* TypeOK without the bounds on the two counters, which follow from the sums.
Types ==
    /\ run \in [Proc -> {"waits", "spawns", "starts", "failed", "cancelled", "done"}]
    /\ os \in [Proc -> {"none", "alive", "exited"}]
    /\ slots \in Nat /\ leaked \in Nat
    /\ running \in [Pid -> Proc \cup {None}]
    /\ mon \in [Proc -> {"none", "starts", "waits", "sleeps", "done"}]
    /\ ctx \in [Proc -> Proc \cup {None}]
    /\ kill \in [Handler -> [proc : Proc, pid : Pid] \cup {None}]
    /\ polled \in Proc \cup {None} /\ down \in BOOLEAN

Bounded == slots <= MaxSlots

\* Commands whose _run_process has not ended.
Pending == {p \in Proc : run[p] \in {"waits", "spawns", "starts"}}

\* A command leaks a slot at most once, when it leaves Pending or loses its entry.
Charged == leaked + Cardinality(Pending) + Cardinality(Registered) <= Cardinality(Proc)

\* running_processes maps a pid to a process that has it.
EntriesMatch == \A i \in Pid : running[i] # None => PidOf[running[i]] = i

\* While a poll reads, the entry it looked up is there or was removed, never replaced.
PollStable == polled # None => running[PidOf[polled]] \in {polled, None}

IInv == Types /\ Bounded /\ SlotsConserved /\ Charged /\ EntriesMatch /\ PollStable

----------------------------------------------------------------------------
(* Counting *)

\* The three sets are finite, and so are the cardinalities natural numbers.
LEMMA FiniteParts ==
    /\ IsFiniteSet(Starting) /\ IsFiniteSet(Pending) /\ IsFiniteSet(Registered)
    /\ Cardinality(Starting) \in Nat /\ Cardinality(Pending) \in Nat
    /\ Cardinality(Registered) \in Nat /\ Cardinality(Proc) \in Nat
<1>1. Starting \in SUBSET Proc /\ Pending \in SUBSET Proc /\ Registered \in SUBSET Pid
  BY DEF Starting, Pending, Registered
<1>2. IsFiniteSet(Starting) /\ IsFiniteSet(Pending) /\ IsFiniteSet(Registered)
  BY <1>1, FS_Subset, ProcessConstants
<1> QED BY <1>2, FS_CardinalityType, ProcessConstants

\* A set that gains or loses one element.
LEMMA OneMore ==
    ASSUME NEW S, NEW x, IsFiniteSet(S), x \notin S
    PROVE  Cardinality(S \cup {x}) = Cardinality(S) + 1
  BY FS_AddElement

\* Taking an element out of a finite set lowers its cardinality by one.
LEMMA OneLess ==
    ASSUME NEW S, NEW x, IsFiniteSet(S), x \in S
    PROVE  Cardinality(S \ {x}) = Cardinality(S) - 1
  BY FS_RemoveElement

\* Removing an entry moves its slot to the free ones and changes no other entry: the slot is
\* released exactly when there was an entry.
LEMMA PopMovesSlot ==
    ASSUME Types, NEW i \in Pid, pop(i)
    PROVE  /\ running' \in [Pid -> Proc \cup {None}] /\ slots' \in Nat
           /\ \A j \in Pid : running'[j] = running[j] \/ running'[j] = None
           /\ \A j \in Pid : running'[j] # running[j] => j = i
           /\ Cardinality(Registered') \in Nat
           /\ slots' + Cardinality(Registered') = slots + Cardinality(Registered)
           /\ Cardinality(Registered') <= Cardinality(Registered)
<1>1. running' \in [Pid -> Proc \cup {None}] /\ slots' \in Nat
  BY DEF Types, pop
<1>2. \A j \in Pid : /\ running'[j] = running[j] \/ running'[j] = None
                     /\ running'[j] # running[j] => j = i
  BY DEF Types, pop
<1>3. Registered' = Registered \ {i}
  BY DEF Types, pop, Registered
<1>4. CASE running[i] = None
  <2>1. Registered' = Registered
    BY <1>3, <1>4 DEF Registered
  <2> QED BY <1>1, <1>2, <1>4, <2>1, FiniteParts DEF pop, Types
<1>5. CASE running[i] # None
  <2>1. i \in Registered
    BY <1>5 DEF Registered
  <2>2. Cardinality(Registered') = Cardinality(Registered) - 1
    BY <1>3, <2>1, OneLess, FiniteParts
  <2>3. Cardinality(Registered) > 0
    BY <2>1, FiniteParts, FS_EmptySet
  <2>4. slots' = slots + 1
    BY <1>5 DEF pop
  <2> QED BY <1>1, <1>2, <2>2, <2>3, <2>4, FiniteParts DEF Types
<1> QED BY <1>4, <1>5

\* The invariant after a step that leaves _run_process alone and only removes entries with
\* pop, or none.
LEMMA EntryLeaves ==
    ASSUME IInv, ~down, Types', NEW i \in Pid, pop(i) \/ UNCHANGED <<running, slots>>,
           UNCHANGED <<run, leaked, down>>, polled' = polled \/ polled' = None
    PROVE  IInv'
<1>1. Starting' = Starting /\ Pending' = Pending
  BY DEF Starting, Pending
<1>2. CASE pop(i)
  <2>1. /\ \A j \in Pid : running'[j] = running[j] \/ running'[j] = None
        /\ Cardinality(Registered') \in Nat
        /\ slots' + Cardinality(Registered') = slots + Cardinality(Registered)
        /\ Cardinality(Registered') <= Cardinality(Registered)
    BY <1>2, PopMovesSlot DEF IInv
  <2>2. SlotsConserved' /\ Charged'
    BY <1>1, <2>1, FiniteParts, ProcessConstants DEF IInv, SlotsConserved, Charged, Types
  <2>3. Bounded'
    BY <1>1, <2>1, <2>2, FiniteParts, ProcessConstants DEF SlotsConserved, Bounded, Types
  <2>4. EntriesMatch' /\ PollStable'
    BY <2>1, ProcessConstants DEF IInv, EntriesMatch, PollStable, Types
  <2> QED BY <2>2, <2>3, <2>4 DEF IInv
<1>3. CASE UNCHANGED <<running, slots>>
  <2>1. Registered' = Registered
    BY <1>3 DEF Registered
  <2> QED BY <1>1, <1>3, <2>1
          DEF IInv, SlotsConserved, Charged, Bounded, EntriesMatch, PollStable
<1> QED BY <1>2, <1>3

----------------------------------------------------------------------------
(* One step per action *)

\* The initial state: every slot is free and every command waits.
LEMMA InitIInv == Init => IInv
<1> SUFFICES ASSUME Init PROVE IInv
  OBVIOUS
<1>1. Starting = {} /\ Registered = {} /\ Pending = Proc
  BY DEF Init, Starting, Registered, Pending
<1>2. Types
  BY ProcessConstants DEF Init, Types
<1>3. Bounded /\ EntriesMatch /\ PollStable
  BY ProcessConstants DEF Init, Bounded, EntriesMatch, PollStable
<1>4. SlotsConserved /\ Charged
  BY <1>1, FS_EmptySet, FiniteParts, ProcessConstants DEF Init, SlotsConserved, Charged
<1> QED BY <1>2, <1>3, <1>4 DEF IInv

\* acquire: a free slot becomes that of the call.
LEMMA AcquireIInv ==
    ASSUME IInv, ~down, NEW p \in Proc, acquire(p)
    PROVE  IInv'
<1>1. Types'
  BY DEF IInv, Types, acquire, monitors
<1>2. Pending' = Pending /\ Registered' = Registered
  BY DEF IInv, Types, acquire, Pending, Registered
<1>3. Starting' = Starting \cup {p} /\ p \notin Starting
  BY DEF IInv, Types, acquire, Starting
<1>4. Cardinality(Starting') = Cardinality(Starting) + 1
  BY <1>3, OneMore, FiniteParts
<1>5. slots' = slots - 1 /\ UNCHANGED <<leaked, down, running, polled>>
  BY DEF acquire
<1>6. SlotsConserved' /\ Charged'
  BY <1>2, <1>4, <1>5, FiniteParts, ProcessConstants
  DEF IInv, SlotsConserved, Charged, Types
<1>7. Bounded' /\ EntriesMatch' /\ PollStable'
  BY <1>5, ProcessConstants DEF IInv, Types, Bounded, EntriesMatch, PollStable
<1> QED BY <1>1, <1>6, <1>7 DEF IInv

\* A call of _run_process that holds a slot ends: the slot is free again or leaked.
LEMMA RunEnds ==
    ASSUME IInv, ~down, Types', NEW p \in Proc, run[p] \in {"waits", "spawns", "starts"},
           NEW l \in {"failed", "cancelled"}, run' = [run EXCEPT ![p] = l],
           UNCHANGED <<running, polled, down>>,
           \/ p \in Starting /\ slots' = slots + 1 /\ leaked' = leaked
           \/ p \in Starting /\ slots' = slots /\ leaked' = leaked + 1
           \/ p \notin Starting /\ UNCHANGED <<slots, leaked>>
    PROVE  IInv'
<1>1. Pending' = Pending \ {p} /\ p \in Pending /\ Registered' = Registered
  BY DEF IInv, Types, Pending, Registered
<1>2. Starting' = Starting \ {p}
  BY DEF IInv, Types, Starting
<1>3. Cardinality(Pending') = Cardinality(Pending) - 1
  BY <1>1, OneLess, FiniteParts
<1>4. p \in Starting => Cardinality(Starting') = Cardinality(Starting) - 1
  BY <1>2, OneLess, FiniteParts
<1>5. p \notin Starting => Starting' = Starting
  BY <1>2
<1>6. SlotsConserved' /\ Charged'
  BY <1>1, <1>3, <1>4, <1>5, FiniteParts, ProcessConstants
  DEF IInv, SlotsConserved, Charged, Types
<1>7. Cardinality(Starting') \in Nat /\ Cardinality(Registered') \in Nat
  <2>1. IsFiniteSet(Starting')
    BY <1>2, FiniteParts, FS_RemoveElement
  <2> QED BY <2>1, <1>1, FiniteParts, FS_CardinalityType
<1>8. Bounded'
  BY <1>6, <1>7, ProcessConstants DEF SlotsConserved, Bounded, Types
<1>9. EntriesMatch' /\ PollStable'
  BY DEF IInv, EntriesMatch, PollStable
<1> QED BY <1>6, <1>8, <1>9 DEF IInv

\* spawn: the process starts, or its slot is given back or leaks.
LEMMA SpawnIInv ==
    ASSUME IInv, ~down, NEW p \in Proc, spawn(p)
    PROVE  IInv'
<1>1. Types'
  BY DEF IInv, Types, spawn, monitors
<1>2. p \in Starting
  BY DEF spawn, Starting
<1>3. CASE run' = [run EXCEPT ![p] = "starts"] /\ UNCHANGED <<slots, leaked>>
  <2>1. Starting' = Starting /\ Pending' = Pending /\ Registered' = Registered
    BY <1>2, <1>3 DEF IInv, Types, spawn, Starting, Pending, Registered
  <2> QED BY <1>1, <1>3, <2>1
          DEF IInv, spawn, SlotsConserved, Charged, Bounded, EntriesMatch, PollStable
<1>4. CASE /\ run' = [run EXCEPT ![p] = "failed"]
           /\ \/ slots' = slots + 1 /\ leaked' = leaked
              \/ slots' = slots /\ leaked' = leaked + 1
  BY <1>1, <1>2, <1>4, RunEnds DEF spawn
<1> QED BY <1>3, <1>4 DEF spawn

\* cancel: a call that held a slot leaks it.
LEMMA CancelIInv ==
    ASSUME IInv, ~down, NEW p \in Proc, cancel(p)
    PROVE  IInv'
<1>1. Types'
  BY DEF IInv, Types, cancel, monitors
<1>2. p \in Starting <=> run[p] # "waits"
  BY DEF cancel, Starting
<1> QED BY <1>1, <1>2, RunEnds DEF cancel

\* register: the slot of the call becomes that of the entry; an entry it replaces leaks its
\* own.  It takes process_lock, so no poll is reading.
LEMMA RegisterIInv ==
    ASSUME IInv, ~down, NEW p \in Proc, register(p)
    PROVE  IInv'
<1> DEFINE i == PidOf[p]
<1>1. i \in Pid /\ p # None
  BY ProcessConstants
<1>2. Types'
  BY <1>1 DEF IInv, Types, register
<1>3. Starting' = Starting \ {p} /\ p \in Starting /\ Pending' = Pending \ {p} /\ p \in Pending
  BY DEF IInv, Types, register, Starting, Pending
<1>4. /\ Cardinality(Starting') = Cardinality(Starting) - 1
      /\ Cardinality(Pending') = Cardinality(Pending) - 1
  BY <1>3, OneLess, FiniteParts
<1>5. Registered' = Registered \cup {i}
  BY <1>1 DEF IInv, Types, register, Registered
<1>6. running[i] = None <=> i \notin Registered
  BY <1>1 DEF Registered
<1>7. Cardinality(Registered') + leaked' = Cardinality(Registered) + leaked + 1
  <2>1. CASE i \in Registered
    <3>1. Registered' = Registered /\ leaked' = leaked + 1
      BY <1>5, <1>6, <2>1 DEF register
    <3> QED BY <3>1, FiniteParts DEF IInv, Types
  <2>2. CASE i \notin Registered
    <3>1. Cardinality(Registered') = Cardinality(Registered) + 1
      BY <1>5, <2>2, OneMore, FiniteParts
    <3>2. leaked' = leaked
      BY <1>6, <2>2 DEF register
    <3> QED BY <3>1, <3>2, FiniteParts DEF IInv, Types
  <2> QED BY <2>1, <2>2
<1>8. Cardinality(Registered') \in Nat
  <2>1. IsFiniteSet(Registered')
    BY <1>5, FiniteParts, FS_AddElement
  <2> QED BY <2>1, FS_CardinalityType
<1>9. slots' = slots /\ down' = down /\ polled' = polled
  BY DEF register
<1>10. SlotsConserved' /\ Charged'
  BY <1>4, <1>7, <1>8, <1>9, <1>2, FiniteParts, ProcessConstants
  DEF IInv, SlotsConserved, Charged, Types
<1>11. Bounded' /\ EntriesMatch' /\ PollStable'
  BY <1>1, <1>9, ProcessConstants
  DEF IInv, Types, Bounded, EntriesMatch, PollStable, register, process_lock_free
<1> QED BY <1>2, <1>10, <1>11 DEF IInv

\* Steps that touch neither slots nor entries.
LEMMA OthersIInv ==
    ASSUME IInv, ~down, Types', UNCHANGED <<run, slots, running, leaked, down>>,
           polled' = polled \/ polled' \in {running[i] : i \in Pid}
    PROVE  IInv'
<1>1. Starting' = Starting /\ Pending' = Pending /\ Registered' = Registered
  BY DEF Starting, Pending, Registered
<1>2. SlotsConserved' /\ Charged' /\ Bounded' /\ EntriesMatch'
  BY <1>1 DEF IInv, SlotsConserved, Charged, Bounded, EntriesMatch
<1>3. PollStable'
  BY DEF IInv, PollStable, EntriesMatch
<1> QED BY <1>2, <1>3 DEF IInv

\* monitor_fails: the daemon goes down and forgets every entry.
LEMMA MonitorFailsIInv ==
    ASSUME IInv, ~down, NEW p \in Proc, monitor_fails(p)
    PROVE  IInv'
<1>1. Types'
  BY DEF IInv, Types, monitor_fails, monitors
<1>2. Pending' = Pending /\ Registered' = {}
  BY DEF monitor_fails, Pending, Registered
<1>3. Charged'
  BY <1>2, FiniteParts, FS_EmptySet DEF IInv, Types, Charged, monitor_fails
<1>4. SlotsConserved' /\ Bounded'
  BY DEF IInv, monitor_fails, SlotsConserved, Bounded
<1>5. EntriesMatch' /\ PollStable'
  BY <1>1, ProcessConstants DEF EntriesMatch, PollStable, monitor_fails, Types
<1> QED BY <1>1, <1>3, <1>4, <1>5 DEF IInv

\* The sums, the types and what a poll relies on survive every step.
LEMMA NextIInv == IInv /\ [Next]_vars => IInv'
<1> SUFFICES ASSUME IInv, [Next]_vars PROVE IInv'
  OBVIOUS
<1>1. CASE UNCHANGED vars
  <2>1. Starting' = Starting /\ Pending' = Pending /\ Registered' = Registered
    BY <1>1 DEF vars, Starting, Pending, Registered
  <2> QED BY <1>1, <2>1 DEF vars, IInv, Types, SlotsConserved, Charged, Bounded,
                            EntriesMatch, PollStable
<1>2. CASE Next
  <2>0. ~down
    BY <1>2 DEF Next
  <2>1. ASSUME NEW p \in Proc, acquire(p) PROVE IInv'
    BY <2>0, <2>1, AcquireIInv
  <2>2. ASSUME NEW p \in Proc, spawn(p) PROVE IInv'
    BY <2>0, <2>2, SpawnIInv
  <2>3. ASSUME NEW p \in Proc, register(p) PROVE IInv'
    BY <2>0, <2>3, RegisterIInv
  <2>4. ASSUME NEW p \in Proc, monitor_start(p) PROVE IInv'
    <3>1. Types'
      BY <2>4, ProcessConstants DEF IInv, Types, monitor_start
    <3> QED BY <2>0, <2>4, <3>1, OthersIInv DEF monitor_start
  <2>5. ASSUME NEW p \in Proc, monitor_wait(p) PROVE IInv'
    <3>1. Types'
      BY <2>5 DEF IInv, Types, monitor_wait, terminate
    <3> QED BY <2>0, <2>5, <3>1, OthersIInv DEF monitor_wait
  <2>6. ASSUME NEW p \in Proc, monitor_end(p) PROVE IInv'
    <3>1. PidOf[p] \in Pid /\ pop(PidOf[p])
      BY <2>6, ProcessConstants DEF monitor_end
    <3>2. Types'
      BY <2>6, <3>1 DEF IInv, Types, monitor_end, pop
    <3> QED BY <2>0, <2>6, <3>1, <3>2, EntryLeaves DEF monitor_end
  <2>7. ASSUME NEW p \in Proc, monitor_fails(p) PROVE IInv'
    BY <2>0, <2>7, MonitorFailsIInv
  <2>8. ASSUME NEW p \in Proc, cancel(p) PROVE IInv'
    BY <2>0, <2>8, CancelIInv
  <2>9. ASSUME NEW p \in Proc, exit(p) PROVE IInv'
    <3>1. Types'
      BY <2>9 DEF IInv, Types, exit, monitors
    <3> QED BY <2>0, <2>9, <3>1, OthersIInv DEF exit
  <2>10. ASSUME NEW h \in Handler, kill_start(h) PROVE IInv'
    <3>1. Types'
      BY <2>10 DEF IInv, Types, kill_start, Registered, monitors
    <3> QED BY <2>0, <2>10, <3>1, OthersIInv DEF kill_start
  <2>11. ASSUME NEW h \in Handler, kill_end(h) PROVE IInv'
    <3>1. kill[h] \in [proc : Proc, pid : Pid]
      BY <2>11 DEF IInv, Types, kill_end
    <3>2. Types'
      BY <2>11, <3>1 DEF IInv, Types, kill_end, terminate, pop, monitors
    <3> QED BY <2>0, <2>11, <3>1, <3>2, EntryLeaves DEF kill_end
  <2>12. CASE poll_start
    <3>1. Types'
      BY <2>12 DEF IInv, Types, poll_start, Registered, monitors
    <3>2. polled' \in {running[i] : i \in Pid}
      BY <2>12 DEF poll_start, Registered
    <3> QED BY <2>0, <2>12, <3>1, <3>2, OthersIInv DEF poll_start
  <2>13. CASE poll_end
    <3>1. polled \in Proc /\ PidOf[polled] \in Pid
      BY <2>13, ProcessConstants DEF IInv, Types, poll_end
    <3>2. Types'
      BY <2>13, <3>1 DEF IInv, Types, poll_end, pop, monitors
    <3> QED BY <2>0, <2>13, <3>1, <3>2, EntryLeaves DEF poll_end
  <2> QED BY <1>2, <2>1, <2>2, <2>3, <2>4, <2>5, <2>6, <2>7, <2>8, <2>9, <2>10, <2>11,
             <2>12, <2>13 DEF Next, Serve
<1> QED BY <1>1, <1>2

----------------------------------------------------------------------------
(* The theorems *)

\* The inductive invariant holds of every reachable state.
THEOREM ProcessInvariant == Spec => []IInv
  BY InitIInv, NextIInv, PTL DEF Spec

\* Type correctness: the semaphore never exceeds process_max_concurrent, and no more slots
\* leak than commands were asked for.
THEOREM ProcessTypeOK == Spec => []TypeOK
<1>1. IInv => TypeOK
  BY FiniteParts, ProcessConstants DEF IInv, Types, Bounded, Charged, TypeOK
<1> QED BY <1>1, ProcessInvariant, PTL

\* No slot is released twice or lost but in the ways spawn, register and cancel name,
\* whichever of the kill handlers, the poll and the monitor removes an entry first.
THEOREM ProcessSlotsConserved == Spec => []SlotsConserved
<1>1. IInv => SlotsConserved
  BY DEF IInv
<1> QED BY <1>1, ProcessInvariant, PTL

\* A poll removes no entry but that of the process it reported on.
THEOREM ProcessPollRemovesItsOwn == Spec => PollRemovesItsOwn
<1> DEFINE A == \A i \in Pid : polled # None /\ polled' = None /\ running[i] # running'[i]
                                 => running[i] = polled
<1>1. ASSUME IInv, [Next]_vars PROVE [A]_vars
  <2>1. CASE UNCHANGED vars
    BY <2>1 DEF vars
  <2>2. CASE Next
    <3> SUFFICES ASSUME NEW i \in Pid, polled # None, polled' = None,
                        running[i] # running'[i]
                 PROVE  running[i] = polled
      BY <2>2
    <3>1. poll_end
      BY <2>2 DEF Next, Serve, acquire, spawn, register, monitor_start, monitor_wait,
                  monitor_end, monitor_fails, cancel, exit, kill_start, kill_end, poll_start,
                  process_lock_free
    <3>2. PidOf[polled] \in Pid /\ pop(PidOf[polled])
      BY <1>1, <3>1, ProcessConstants DEF poll_end, IInv, Types
    <3>3. i = PidOf[polled] /\ running'[i] = None
      BY <1>1, <3>2, PopMovesSlot DEF IInv
    <3> QED BY <1>1, <3>3 DEF IInv, PollStable
  <2> QED BY <1>1, <2>1, <2>2
<1> QED BY <1>1, ProcessInvariant, PTL DEF Spec, PollRemovesItsOwn
============================================================================
