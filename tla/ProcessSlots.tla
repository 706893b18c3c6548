---------------------------- MODULE ProcessSlots ----------------------------
(***************************************************************************)
(* The processes the daemon runs for the MCU and the cloud: _run_process,    *)
(* _monitor_process, _poll_process, _terminate_process and the handlers that *)
(* call them (mcubridge/services/runtime.py).                                *)
(*                                                                         *)
(* A process is known by the low 16 bits of its pid, under which it is in    *)
(* running_processes and holds one of the _process_slots.  Output is left    *)
(* out; so are exit codes, on which nothing here depends.                    *)
(***************************************************************************)
EXTENDS Naturals, FiniteSets

CONSTANTS
    Proc,        \* commands asked for, each with the process it becomes
    Pid,         \* 16-bit process ids
    PidOf,       \* the one the system gives each process: they may coincide
    Handler,     \* coroutines that handle kill requests
    MaxSlots,    \* process_max_concurrent
    None

ASSUME ProcessConstants ==
    /\ PidOf \in [Proc -> Pid] /\ None \notin Proc
    /\ MaxSlots \in Nat \ {0} /\ IsFiniteSet(Proc) /\ IsFiniteSet(Pid)

VARIABLES
    run,       \* where _run_process is for each command
    os,        \* the process itself
    slots,     \* the value of _process_slots
    running,   \* running_processes
    mon, ctx,  \* where the monitor of each process is, and the process it looked up
    kill,      \* what each handler is terminating: a process and the pid it was asked for
    polled,    \* the process _poll_process reads while it holds process_lock
    leaked,    \* slots nobody will release (history)
    down       \* the daemon has stopped

vars == <<run, os, slots, running, mon, ctx, kill, polled, leaked, down>>
monitors == <<mon, ctx>>

Init ==
    /\ run = [p \in Proc |-> "waits"] /\ os = [p \in Proc |-> "none"]
    /\ slots = MaxSlots /\ running = [i \in Pid |-> None]
    /\ mon = [p \in Proc |-> "none"] /\ ctx = [p \in Proc |-> None]
    /\ kill = [h \in Handler |-> None]
    /\ polled = None /\ leaked = 0 /\ down = FALSE

\* process_lock: only _poll_process suspends while it holds it.
process_lock_free == polled = None

Registered == {i \in Pid : running[i] # None}

\* Mutant: the slot is released whether or not the entry was still there.
popAlways(i) ==
    /\ running' = [running EXCEPT ![i] = None]
    /\ slots' = slots + 1

\* running_processes.pop(pid, None), and the slot released if there was an entry.
pop(i) ==
    /\ running' = [running EXCEPT ![i] = None]
    /\ slots' = IF running[i] = None THEN slots ELSE slots + 1

----------------------------------------------------------------------------
(* _run_process, for _on_mcu_process_run and _handle_shell *)

\* The commands asked for are those the policy allows; each waits its turn.
acquire(p) ==
    /\ run[p] = "waits" /\ slots > 0
    /\ slots' = slots - 1 /\ run' = [run EXCEPT ![p] = "spawns"]
    /\ UNCHANGED <<os, running, monitors, kill, polled, leaked, down>>

\* Mutant: an OSError keeps the slot.
spawnKeepsSlot(p) ==
    /\ run[p] = "spawns"
    /\ \/ run' = [run EXCEPT ![p] = "starts"] /\ os' = [os EXCEPT ![p] = "alive"]
       \/ run' = [run EXCEPT ![p] = "failed"] /\ UNCHANGED os
    /\ UNCHANGED <<slots, running, monitors, kill, polled, leaked, down>>

\* create_subprocess_exec starts the process, or fails with an OSError, which gives the
\* slot back, or shlex rejects the command with a ValueError, which does not.
spawn(p) ==
    /\ run[p] = "spawns"
    /\ \/ run' = [run EXCEPT ![p] = "starts"] /\ os' = [os EXCEPT ![p] = "alive"]
          /\ UNCHANGED <<slots, leaked>>
       \/ run' = [run EXCEPT ![p] = "failed"] /\ slots' = slots + 1 /\ UNCHANGED <<os, leaked>>
       \/ run' = [run EXCEPT ![p] = "failed"] /\ leaked' = leaked + 1 /\ UNCHANGED <<os, slots>>
    /\ UNCHANGED <<running, monitors, kill, polled, down>>

\* Mutant: the registration does not take process_lock.
registerUnlocked(p) ==
    /\ run[p] = "starts"
    /\ run' = [run EXCEPT ![p] = "done"]
    /\ running' = [running EXCEPT ![PidOf[p]] = p]
    /\ mon' = [mon EXCEPT ![p] = "starts"]
    /\ leaked' = IF running[PidOf[p]] = None THEN leaked ELSE leaked + 1
    /\ UNCHANGED <<os, slots, ctx, kill, polled, down>>

\* Registration; an older process with this pid loses its entry, and its slot with it.
register(p) ==
    /\ run[p] = "starts" /\ process_lock_free
    /\ run' = [run EXCEPT ![p] = "done"]
    /\ running' = [running EXCEPT ![PidOf[p]] = p]
    /\ leaked' = IF running[PidOf[p]] = None THEN leaked ELSE leaked + 1
    /\ mon' = [mon EXCEPT ![p] = "starts"]
    /\ UNCHANGED <<os, slots, ctx, kill, polled, down>>

\* The coroutine is cancelled with the cloud session it serves.
cancel(p) ==
    /\ run[p] \in {"waits", "spawns", "starts"}
    /\ run' = [run EXCEPT ![p] = "cancelled"]
    /\ leaked' = IF run[p] = "waits" THEN leaked ELSE leaked + 1
    /\ UNCHANGED <<os, slots, running, monitors, kill, polled, down>>

\* The process ends by itself.
exit(p) ==
    /\ os[p] = "alive" /\ os' = [os EXCEPT ![p] = "exited"]
    /\ UNCHANGED <<run, slots, running, monitors, kill, polled, leaked, down>>

----------------------------------------------------------------------------
(* _terminate_process of p: SIGTERM, SIGKILL, and the wait for each.  It raises *)
(* ProcessLookupError when the group vanished before the SIGKILL.               *)

terminate(p) == \E o \in {"alive", "exited"} :
                   /\ os[p] = "exited" => o = "exited"
                   /\ os' = [os EXCEPT ![p] = o]

\* _monitor_process: the process is looked up by its pid.
monitor_start(p) ==
    /\ mon[p] = "starts" /\ process_lock_free
    /\ ctx' = [ctx EXCEPT ![p] = running[PidOf[p]]]
    /\ mon' = [mon EXCEPT ![p] = IF running[PidOf[p]] = None THEN "done" ELSE "waits"]
    /\ UNCHANGED <<run, os, slots, running, kill, polled, leaked, down>>

\* The process exits, or process_timeout passes and it is terminated.
monitor_wait(p) ==
    /\ mon[p] = "waits" /\ mon' = [mon EXCEPT ![p] = "sleeps"]
    /\ terminate(ctx[p]) /\ ctx' = [ctx EXCEPT ![p] = None]
    /\ UNCHANGED <<run, slots, running, kill, polled, leaked, down>>

\* ... and a minute later its entry goes, whoever it belongs to by then.
monitor_end(p) ==
    /\ mon[p] = "sleeps" /\ mon' = [mon EXCEPT ![p] = "done"]
    /\ pop(PidOf[p])
    /\ UNCHANGED <<run, os, ctx, kill, polled, leaked, down>>

\* ProcessLookupError leaves the monitor and ends the task group of the daemon:
\* RuntimeState.cleanup sends the registered processes SIGTERM and forgets them.
monitor_fails(p) ==
    /\ mon[p] = "waits" /\ os[ctx[p]] = "exited"
    /\ down' = TRUE /\ running' = [i \in Pid |-> None]
    /\ UNCHANGED <<run, os, slots, monitors, kill, polled, leaked>>

----------------------------------------------------------------------------
(* Requests to kill and to poll *)

\* _on_mcu_process_kill and the kill action of _handle_shell.
kill_start(h) ==
    /\ kill[h] = None /\ process_lock_free
    /\ \E i \in Registered : kill' = [kill EXCEPT ![h] = [proc |-> running[i], pid |-> i]]
    /\ UNCHANGED <<run, os, slots, running, monitors, polled, leaked, down>>

kill_end(h) ==
    /\ kill[h] # None /\ kill' = [kill EXCEPT ![h] = None]
    /\ terminate(kill[h].proc) /\ pop(kill[h].pid)
    /\ UNCHANGED <<run, monitors, polled, leaked, down>>

\* _poll_process looks the process up and reads its streams under process_lock.
poll_start ==
    /\ process_lock_free
    /\ \E i \in Registered : polled' = running[i]
    /\ UNCHANGED <<run, os, slots, running, monitors, kill, leaked, down>>

\* The entry of a finished process whose streams are read to their end is removed.
poll_end ==
    /\ polled # None /\ polled' = None
    /\ \/ os[polled] = "exited" /\ pop(PidOf[polled])
       \/ UNCHANGED <<running, slots>>
    /\ UNCHANGED <<run, os, monitors, kill, leaked, down>>

\* What is done for p: _run_process, then its monitor.
Serve(p) ==
    \/ acquire(p) \/ spawn(p) \/ register(p)
    \/ monitor_start(p) \/ monitor_wait(p) \/ monitor_end(p) \/ monitor_fails(p)

Next ==
    /\ ~down
    /\ \/ \E p \in Proc : Serve(p) \/ cancel(p) \/ exit(p)
       \/ \E h \in Handler : kill_start(h) \/ kill_end(h)
       \/ poll_start \/ poll_end

\* Coroutines that can go on do (asyncio.Semaphore and asyncio.Lock serve in order), and
\* every wait of theirs but that for a slot has a timeout.
Fairness ==
    /\ \A p \in Proc : SF_vars(~down /\ Serve(p))
    /\ \A h \in Handler : WF_vars(~down /\ kill_end(h))
    /\ WF_vars(~down /\ poll_end)

Spec == Init /\ [][Next]_vars /\ Fairness

----------------------------------------------------------------------------
(* Properties *)

TypeOK ==
    /\ run \in [Proc -> {"waits", "spawns", "starts", "failed", "cancelled", "done"}]
    /\ os \in [Proc -> {"none", "alive", "exited"}]
    /\ slots \in 0 .. MaxSlots /\ leaked \in 0 .. Cardinality(Proc)
    /\ running \in [Pid -> Proc \cup {None}]
    /\ mon \in [Proc -> {"none", "starts", "waits", "sleeps", "done"}]
    /\ ctx \in [Proc -> Proc \cup {None}]
    /\ kill \in [Handler -> [proc : Proc, pid : Pid] \cup {None}]
    /\ polled \in Proc \cup {None} /\ down \in BOOLEAN

Starting == {p \in Proc : run[p] \in {"spawns", "starts"}}

\* Every slot is free, held by a call of _run_process, held by an entry of
\* running_processes, or leaked in one of the ways spawn, register and cancel name:
\* the two handlers, the poll and the monitor that may all remove the same entry never
\* release its slot twice.
SlotsConserved ==
    ~down => slots + Cardinality(Starting) + Cardinality(Registered) + leaked = MaxSlots

\* An entry that a poll removes is that of the process it reported on, although the
\* handlers and the monitors remove and add entries while it reads.
PollRemovesItsOwn ==
    [][\A i \in Pid : polled # None /\ polled' = None /\ running[i] # running'[i]
                         => running[i] = polled]_vars

\* A command that waits for a slot gets it, unless every slot has leaked.
SlotComes ==
    \A p \in Proc : (run[p] = "waits") ~> (run[p] # "waits" \/ leaked = MaxSlots \/ down)
============================================================================
