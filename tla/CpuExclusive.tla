---------------------------- MODULE CpuExclusive ----------------------------
(***************************************************************************)
(* Exclusive sections of QEMU (cpu-common.c) as coMulator's threads use    *)
(* them.  Every guest thread runs cpu_exec between cpu_exec_start and      *)
(* cpu_exec_end, the first one in gyh_do_cpu of +gyh/<arch>-on.c, the      *)
(* others in the stock cpu_loop.  Emulating an atomic instruction, fork    *)
(* and flushing the translations need all other threads stopped, which     *)
(* start_exclusive and end_exclusive bring about.  The first thread also   *)
(* runs host functions, which are outside cpu_exec.                        *)
(*                                                                         *)
(* A step holds at most one access to what threads share without the lock, *)
(* running and pending_cpus; the barriers of the code (smp_mb) make these  *)
(* accesses sequentially consistent.  What is done under qemu_cpu_list_lock*)
(* alone is one step.                                                      *)
(***************************************************************************)
EXTENDS Integers, FiniteSets

CONSTANTS
  Cpu,      \* the CPUs (guest threads) that can exist at a time
  First,    \* the one that runs gyh_cpu_loop
  None,     \* no CPU
  MaxWork   \* bound: items queued on a CPU

ASSUME CpuAssumption ==
  IsFiniteSet(Cpu) /\ First \in Cpu /\ None \notin Cpu /\ MaxWork \in Nat

VARIABLES
  pc,             \* where each thread is
  listed,         \* cpus_queue
  parallel,       \* CF_PARALLEL of the CPUs: a thread was created or memory shared
  running,        \* cpu->running
  has_waiter,     \* cpu->has_waiter
  exit_request,   \* cpu->exit_request
  trapnr,         \* what cpu_exec returned
  work_list,      \* the number of exclusive items in cpu->work_list
  in_work,        \* the CPUs that run an exclusive work item
  pending_cpus,   \* pending_cpus
  lock,           \* the holder of qemu_cpu_list_lock from one step to another
  scan,           \* CPU_FOREACH of start_exclusive: CPUs to be looked at
  running_cpus    \* the local of start_exclusive

control == <<trapnr, work_list, in_work>>
threads == <<listed, parallel>>
section == <<pending_cpus, lock, scan, running_cpus>>
flags   == <<running, has_waiter, exit_request>>
vars    == <<pc, control, threads, section, flags>>

Place ==
  {"gone",                                           \* no such thread
   "top", "host",                                    \* the loop; a host function
   "started", "startLock", "startIdle", "startWoken",\* cpu_exec_start
   "exec",                                           \* cpu_exec
   "ended", "endLock",                               \* cpu_exec_end
   "work", "trap",                                   \* process_queued_cpu_work; the switch
   "exclLock", "exclIdle", "scan", "exclWait", "exclWoken",  \* start_exclusive
   "excl", "forking"}                                \* the section; in it, fork

Trap == {"interrupt", "atomic", "fork", "forked", "other"}

Init ==
  /\ pc = [c \in Cpu |-> IF c = First THEN "top" ELSE "gone"]
  /\ listed = {First} /\ parallel = FALSE
  /\ running = [c \in Cpu |-> FALSE]
  /\ has_waiter = [c \in Cpu |-> FALSE]
  /\ exit_request = [c \in Cpu |-> FALSE]
  /\ trapnr = [c \in Cpu |-> "other"]
  /\ work_list = [c \in Cpu |-> 0]
  /\ in_work = {}
  /\ pending_cpus = 0 /\ lock = None /\ scan = {} /\ running_cpus = 0

Goto(c, from, to) == pc[c] = from /\ pc' = [pc EXCEPT ![c] = to]

-----------------------------------------------------------------------------
(* cpu_exec_start                                                           *)

SetRunning(c) ==
  /\ Goto(c, "top", "started")
  /\ running' = [running EXCEPT ![c] = TRUE]
  /\ UNCHANGED <<has_waiter, exit_request, control, threads, section>>

ReadPending(c) ==
  /\ Goto(c, "started", IF pending_cpus = 0 THEN "exec" ELSE "startLock")
  /\ UNCHANGED <<flags, control, threads, section>>

(* The wait of exclusive_idle, and what follows it in cpu_exec_start.       *)
IdleOrRun(c) ==
  /\ pc' = [pc EXCEPT ![c] = IF pending_cpus = 0 THEN "exec" ELSE "startIdle"]
  /\ running' = [running EXCEPT ![c] = pending_cpus = 0]

(* Under the lock: a CPU that was counted goes on, another one gives way.   *)
Mut_AlwaysGoOn(c) ==
  /\ pc[c] = "startLock" /\ lock = None
  /\ pc' = [pc EXCEPT ![c] = "exec"] /\ UNCHANGED running
  /\ UNCHANGED <<has_waiter, exit_request, control, threads, section>>
StartLocked(c) ==
  /\ pc[c] = "startLock" /\ lock = None
  /\ \/ has_waiter[c] /\ pc' = [pc EXCEPT ![c] = "exec"] /\ UNCHANGED running
     \/ ~has_waiter[c] /\ IdleOrRun(c)
  /\ UNCHANGED <<has_waiter, exit_request, control, threads, section>>

StartWoken(c) ==
  /\ pc[c] = "startWoken" /\ lock = None
  /\ IdleOrRun(c)
  /\ UNCHANGED <<has_waiter, exit_request, control, threads, section>>

-----------------------------------------------------------------------------
(* cpu_exec and cpu_exec_end                                                *)

(* queue_work_on_cpu by async_safe_run_on_cpu: the translation buffer is full.
   With a single thread tb_flush flushes it at once.                        *)
TbFlush(c) ==
  /\ pc[c] = "exec" /\ parallel /\ work_list[c] < MaxWork
  /\ work_list' = [work_list EXCEPT ![c] = @ + 1]
  /\ exit_request' = [exit_request EXCEPT ![c] = TRUE]
  /\ UNCHANGED <<pc, running, has_waiter, trapnr, in_work, threads, section>>

(* cpu_exec returns: for a trap of the guest, which the switch tells apart
   later, or because it was kicked.                                         *)
Leave(c, t) ==
  /\ Goto(c, "exec", "ended")
  /\ \/ t = "other" /\ UNCHANGED exit_request
     \/ t = "interrupt" /\ exit_request[c] /\ exit_request' = [exit_request EXCEPT ![c] = FALSE]
  /\ trapnr' = [trapnr EXCEPT ![c] = t]
  /\ running' = [running EXCEPT ![c] = FALSE]
  /\ UNCHANGED <<has_waiter, work_list, in_work, threads, section>>

EndReadPending(c) ==
  /\ Goto(c, "ended", IF pending_cpus = 0 THEN "work" ELSE "endLock")
  /\ UNCHANGED <<flags, control, threads, section>>

(* qemu_cond_signal(&exclusive_cond) has a single waiter.                   *)
Signal(p) == [c \in Cpu |-> IF p[c] = "exclWait" THEN "exclWoken" ELSE p[c]]

Mut_EveryoneReports(c) ==
  /\ pc[c] = "endLock" /\ lock = None
  /\ has_waiter' = [has_waiter EXCEPT ![c] = FALSE]
  /\ pending_cpus' = pending_cpus - 1
  /\ LET p == [pc EXCEPT ![c] = "work"] IN pc' = IF pending_cpus' = 1 THEN Signal(p) ELSE p
  /\ UNCHANGED <<running, exit_request, control, threads, lock, scan, running_cpus>>
EndLocked(c) ==
  /\ pc[c] = "endLock" /\ lock = None
  /\ LET p == [pc EXCEPT ![c] = "work"]
     IN  IF has_waiter[c]
         THEN /\ has_waiter' = [has_waiter EXCEPT ![c] = FALSE]
              /\ pending_cpus' = pending_cpus - 1
              /\ pc' = IF pending_cpus' = 1 THEN Signal(p) ELSE p
         ELSE pc' = p /\ UNCHANGED <<has_waiter, pending_cpus>>
  /\ UNCHANGED <<running, exit_request, control, threads, lock, scan, running_cpus>>

-----------------------------------------------------------------------------
(* process_queued_cpu_work, and the traps that matter here.  Work items that
   are not exclusive stop nobody, and are left out.                         *)

Work(c) ==
  /\ \/ work_list[c] = 0 /\ Goto(c, "work", "trap") /\ UNCHANGED <<work_list, in_work>>
     \/ /\ work_list[c] > 0 /\ Goto(c, "work", "exclLock")
        /\ work_list' = [work_list EXCEPT ![c] = @ - 1]
        /\ in_work' = in_work \cup {c}
  /\ UNCHANGED <<trapnr, threads, section, flags>>

(* EXCP_ATOMIC, which only parallel code raises, calls cpu_exec_step_atomic,
   a fork fork_start.                                                       *)
TrapExclusive(c, t) ==
  /\ trapnr[c] = "other" /\ Goto(c, "trap", "exclLock")
  /\ t = "fork" \/ (t = "atomic" /\ parallel)
  /\ trapnr' = [trapnr EXCEPT ![c] = t]
  /\ UNCHANGED <<work_list, in_work, threads, section, flags>>

(* Other traps stop nobody.  A request of the guest runtime leads the first
   thread into a host function.                                             *)
TrapOther(c) ==
  /\ trapnr[c] \in {"interrupt", "other"}
  /\ \/ Goto(c, "trap", "top")
     \/ c = First /\ trapnr[c] = "other" /\ Goto(c, "trap", "host")
  /\ trapnr' = [trapnr EXCEPT ![c] = "other"]
  /\ UNCHANGED <<work_list, in_work, threads, section, flags>>

(* The host function returns or calls back.                                 *)
LeaveHost(c) ==
  /\ Goto(c, "host", "top")
  /\ UNCHANGED <<control, threads, section, flags>>

(* do_fork with CLONE_VM: cpu_list_add under the lock.  The first clone
   flushes the translations, which were made for a single thread.           *)
Clone(c, d) ==
  /\ pc[c] = "trap" /\ trapnr[c] = "other" /\ pc[d] = "gone" /\ lock = None
  /\ pc' = [pc EXCEPT ![c] = "top", ![d] = "top"]
  /\ listed' = listed \cup {d} /\ parallel' = TRUE
  /\ work_list' = [work_list EXCEPT ![c] = IF parallel THEN @ ELSE @ + 1, ![d] = 0]
  /\ exit_request' = [exit_request EXCEPT ![c] = @ \/ ~parallel, ![d] = FALSE]
  /\ running' = [running EXCEPT ![d] = FALSE]
  /\ has_waiter' = [has_waiter EXCEPT ![d] = FALSE]
  /\ UNCHANGED <<trapnr, in_work, section>>

(* mmap or shmat of shared memory does so as well, while there is one thread. *)
MapShared(c) ==
  /\ Goto(c, "trap", "top") /\ trapnr[c] = "other"
  /\ ~parallel /\ parallel' = TRUE
  /\ work_list' = [work_list EXCEPT ![c] = @ + 1]
  /\ exit_request' = [exit_request EXCEPT ![c] = TRUE]
  /\ UNCHANGED <<listed, trapnr, in_work, section, running, has_waiter>>

(* TARGET_NR_exit of a thread that is not the last: cpu_list_remove.        *)
Mut_StaysListed(c) ==
  /\ Goto(c, "trap", "gone") /\ trapnr[c] = "other" /\ lock = None /\ listed # {c}
  /\ work_list' = [work_list EXCEPT ![c] = 0]
  /\ exit_request' = [exit_request EXCEPT ![c] = FALSE]
  /\ UNCHANGED <<listed, parallel, trapnr, in_work, section, running, has_waiter>>
Exit(c) ==
  /\ Goto(c, "trap", "gone") /\ trapnr[c] = "other" /\ lock = None /\ listed # {c}
  /\ listed' = listed \ {c}
  /\ work_list' = [work_list EXCEPT ![c] = 0]
  /\ exit_request' = [exit_request EXCEPT ![c] = FALSE]
  /\ UNCHANGED <<parallel, trapnr, in_work, section, running, has_waiter>>

-----------------------------------------------------------------------------
(* start_exclusive and end_exclusive                                        *)

StartExclusive(c) ==
  /\ pc[c] = "exclLock" /\ lock = None
  /\ \/ /\ pending_cpus # 0
        /\ pc' = [pc EXCEPT ![c] = "exclIdle"]
        /\ UNCHANGED section
     \/ /\ pending_cpus = 0
        /\ pc' = [pc EXCEPT ![c] = "scan"]
        /\ lock' = c /\ pending_cpus' = 1 /\ scan' = listed /\ running_cpus' = 0
  /\ UNCHANGED <<control, threads, flags>>

(* One iteration of CPU_FOREACH.  The order of the list is left open.       *)
Mut_MissesOther(c, d) ==
  /\ pc[c] = "scan" /\ d \in scan
  /\ scan' = {}
  /\ has_waiter' = [has_waiter EXCEPT ![d] = running[d]]
  /\ exit_request' = [exit_request EXCEPT ![d] = @ \/ running[d]]
  /\ running_cpus' = IF running[d] THEN running_cpus + 1 ELSE running_cpus
  /\ UNCHANGED <<pc, running, control, threads, pending_cpus, lock>>
Mut_NoKick(c, d) ==
  /\ pc[c] = "scan" /\ d \in scan
  /\ scan' = scan \ {d}
  /\ IF running[d] THEN /\ has_waiter' = [has_waiter EXCEPT ![d] = TRUE]
                        /\ running_cpus' = running_cpus + 1
                   ELSE UNCHANGED <<has_waiter, running_cpus>>
  /\ UNCHANGED <<pc, running, exit_request, control, threads, pending_cpus, lock>>
Scan(c, d) ==
  /\ pc[c] = "scan" /\ d \in scan
  /\ scan' = scan \ {d}
  /\ IF running[d] THEN /\ has_waiter' = [has_waiter EXCEPT ![d] = TRUE]
                        /\ exit_request' = [exit_request EXCEPT ![d] = TRUE]
                        /\ running_cpus' = running_cpus + 1
                   ELSE UNCHANGED <<has_waiter, exit_request, running_cpus>>
  /\ UNCHANGED <<pc, running, control, threads, pending_cpus, lock>>

(* The section is entered with no CPU left to wait for.  cpu_exec_step_atomic
   has the CPU running in it.                                               *)
Stepping(c)   == trapnr[c] = "atomic" /\ c \notin in_work
EnterOrWait(c, n) ==
  /\ pc' = [pc EXCEPT ![c] = IF n > 1 THEN "exclWait" ELSE "excl"]
  /\ running' = [running EXCEPT ![c] = n <= 1 /\ Stepping(c)]

ScanDone(c) ==
  /\ pc[c] = "scan" /\ scan = {}
  /\ lock' = None /\ pending_cpus' = running_cpus + 1 /\ running_cpus' = 0
  /\ EnterOrWait(c, pending_cpus')
  /\ UNCHANGED <<has_waiter, exit_request, control, threads, scan>>

ExclWoken(c) ==
  /\ pc[c] = "exclWoken" /\ lock = None
  /\ EnterOrWait(c, pending_cpus)
  /\ UNCHANGED <<has_waiter, exit_request, control, threads, section>>

(* qemu_cond_broadcast(&exclusive_resume)                                   *)
Mut_WakeStarters(p) == [c \in Cpu |-> IF p[c] = "startIdle" THEN "startWoken" ELSE p[c]]
Broadcast(p) == [c \in Cpu |-> CASE p[c] = "startIdle" -> "startWoken"
                                 [] p[c] = "exclIdle"  -> "exclLock"
                                 [] OTHER              -> p[c]]

(* end_exclusive, at the end of a work item, an atomic step or fork_end.     *)
EndExclusive(c) ==
  /\ pc[c] = "excl" /\ lock = None
  /\ c \in in_work \/ trapnr[c] # "fork"
  /\ pc' = Broadcast([pc EXCEPT ![c] = IF c \in in_work THEN "work" ELSE "top"])
  /\ in_work' = in_work \ {c}
  /\ trapnr' = IF c \in in_work THEN trapnr ELSE [trapnr EXCEPT ![c] = "other"]
  /\ running' = [running EXCEPT ![c] = FALSE]
  /\ pending_cpus' = 0
  /\ UNCHANGED <<has_waiter, exit_request, work_list, threads, lock, scan, running_cpus>>

(* fork_start takes the lock in the section, over fork.                     *)
ForkStart(c) ==
  /\ trapnr[c] = "fork" /\ c \notin in_work /\ lock = None /\ Goto(c, "excl", "forking")
  /\ lock' = c
  /\ UNCHANGED <<control, threads, flags, pending_cpus, scan, running_cpus>>

(* fork_end in the parent, up to end_exclusive.                             *)
ForkParent(c) ==
  /\ Goto(c, "forking", "excl")
  /\ lock' = None
  /\ trapnr' = [trapnr EXCEPT ![c] = "forked"]
  /\ UNCHANGED <<work_list, in_work, threads, flags, pending_cpus, scan, running_cpus>>

(* The child has the forking thread only; qemu_init_cpu_list and the call of
   end_exclusive are one step.                                              *)
ForkChild(c) ==
  /\ pc[c] = "forking"
  /\ pc' = [d \in Cpu |-> IF d = c THEN "top" ELSE "gone"]
  /\ listed' = {c}
  /\ trapnr' = [d \in Cpu |-> "other"]
  /\ work_list' = [d \in Cpu |-> IF d = c THEN work_list[c] ELSE 0]
  /\ in_work' = {}
  /\ running' = [d \in Cpu |-> FALSE]
  /\ exit_request' = [d \in Cpu |-> d = c /\ exit_request[c]]
  /\ lock' = None /\ pending_cpus' = 0
  /\ UNCHANGED <<parallel, has_waiter, scan, running_cpus>>

(* A wait on a condition may end without a signal.                          *)
Spurious(c) ==
  /\ \/ Goto(c, "startIdle", "startWoken")
     \/ Goto(c, "exclIdle", "exclLock")
     \/ Goto(c, "exclWait", "exclWoken")
  /\ UNCHANGED <<control, threads, section, flags>>

-----------------------------------------------------------------------------
Step(c) ==
  \/ SetRunning(c) \/ ReadPending(c) \/ StartLocked(c) \/ StartWoken(c)
  \/ EndReadPending(c) \/ EndLocked(c)
  \/ Work(c) \/ (\E t \in Trap : TrapExclusive(c, t)) \/ TrapOther(c)
  \/ StartExclusive(c) \/ (\E d \in Cpu : Scan(c, d)) \/ ScanDone(c) \/ ExclWoken(c)
  \/ EndExclusive(c) \/ ForkStart(c) \/ ForkParent(c)
  \/ Leave(c, "interrupt")

Next ==
  \E c \in Cpu :
    \/ Step(c)
    \/ Leave(c, "other")
    \/ TbFlush(c) \/ LeaveHost(c)
    \/ \E d \in Cpu : Clone(c, d)
    \/ MapShared(c) \/ Exit(c) \/ ForkChild(c) \/ Spurious(c)

(* Threads execute QEMU's own statements, and cpu_exec returns when it is
   kicked.  Nothing is assumed of host functions or of guest code.          *)
Fairness == \A c \in Cpu : WF_vars(Step(c))

Spec == Init /\ [][Next]_vars /\ Fairness

-----------------------------------------------------------------------------
TypeOK ==
  /\ pc \in [Cpu -> Place]
  /\ listed = {c \in Cpu : pc[c] # "gone"} /\ parallel \in BOOLEAN
  /\ running \in [Cpu -> BOOLEAN] /\ has_waiter \in [Cpu -> BOOLEAN]
  /\ exit_request \in [Cpu -> BOOLEAN]
  /\ trapnr \in [Cpu -> Trap]
  /\ work_list \in [Cpu -> Nat]
  /\ in_work \subseteq Cpu
  /\ pending_cpus \in Nat /\ lock \in Cpu \cup {None}
  /\ scan \subseteq Cpu /\ running_cpus \in Nat

Waiters      == {d \in Cpu : has_waiter[d]}
InSection(c) == pc[c] \in {"excl", "forking"}

(* What start_exclusive is for: while a thread is in an exclusive section, no
   other one executes translated guest code, and none is in a section too.  *)
ExclusiveAlone ==
  \A c, d \in Cpu : InSection(c) /\ c # d => pc[d] # "exec" /\ ~InSection(d)

(* The number a thread waits for in start_exclusive is that of the CPUs which
   will still report at cpu_exec_end, whatever CPUs started, stopped, were
   created or exited since they were counted.                               *)
WaitersCounted ==
  \A c \in Cpu :
    pc[c] \in {"exclWait", "exclWoken", "excl", "forking"} =>
      pending_cpus = 1 + Cardinality(Waiters)

(* No wake-up is lost: nobody sleeps on exclusive_resume when there is no
   section to wait for, or on exclusive_cond when all CPUs have reported.   *)
NoLostWakeup ==
  \A c \in Cpu :
    /\ pc[c] \in {"startIdle", "exclIdle"} => pending_cpus # 0
    /\ pc[c] = "exclWait" => pending_cpus > 1

(* A section that was asked for is entered and left again: CPUs that were
   counted report, although the first thread may be in a host function.     *)
SectionEnds == pending_cpus # 0 ~> pending_cpus = 0

-----------------------------------------------------------------------------
(* The inductive invariant behind the safety properties.                    *)

Holding  == {"scan", "exclWait", "exclWoken", "excl", "forking"}
Starting == {"started", "startLock", "exec"}

OneHolder    == \A c, d \in Cpu : pc[c] \in Holding /\ pc[d] \in Holding => c = d
PendingMeans == pending_cpus # 0 <=> \E c \in Cpu : pc[c] \in Holding
LockMeans    == \A c \in Cpu : lock = c <=> pc[c] \in {"scan", "forking"}
RunningMeans ==
  \A c \in Cpu : /\ pc[c] \in Starting => running[c]
                 /\ running[c] => pc[c] \in Starting \/ InSection(c)
WaiterOnItsWay ==
  \A c \in Cpu : has_waiter[c] => pending_cpus # 0 /\ pc[c] \in Starting \cup {"ended", "endLock"}
Scanned ==
  \A c \in Cpu : pc[c] = "scan" =>
    /\ pending_cpus = 1 /\ running_cpus = Cardinality(Waiters)
    /\ \A d \in Cpu : d \in scan => ~has_waiter[d]
    /\ \A d \in Cpu : pc[d] = "exec" => d \in scan \/ has_waiter[d]
Counted ==
  \A c \in Cpu : pc[c] \in Holding \ {"scan"} =>
    /\ pending_cpus = 1 + Cardinality(Waiters)
    /\ \A d \in Cpu : pc[d] = "exec" => has_waiter[d]
    /\ pc[c] = "exclWait" => pending_cpus > 1
    /\ InSection(c) => Waiters = {}
Sleepers == \A c \in Cpu : pc[c] \in {"startIdle", "exclIdle"} => pending_cpus # 0

(* The lock, the counter and the flags of cpu-common.c say what the threads
   are doing: at most one thread is past the beginning of start_exclusive,
   pending_cpus is nonzero just then, and each CPU that may be executing is
   either still to be scanned or counted.                                   *)
ExclInv ==
  /\ TypeOK /\ OneHolder /\ PendingMeans /\ LockMeans /\ RunningMeans
  /\ WaiterOnItsWay /\ Scanned /\ Counted /\ Sleepers

=============================================================================
