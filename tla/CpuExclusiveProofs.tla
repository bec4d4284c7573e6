------------------------- MODULE CpuExclusiveProofs -------------------------
(***************************************************************************)
(* Exclusive sections exclude, count right and wake everyone up, for every *)
(* number of threads.                                                      *)
(***************************************************************************)
EXTENDS CpuExclusive, FiniteSetTheorems, TLAPS

(* Places from which, and to which, a thread moves without the others noticing. *)
Quiet  == {"gone", "top", "host", "work", "trap", "exclLock", "startWoken"}
Asleep == {"startIdle", "exclIdle"}

Shape ==
  /\ OneHolder /\ PendingMeans /\ LockMeans /\ RunningMeans
  /\ WaiterOnItsWay /\ Scanned /\ Counted /\ Sleepers

(* The CPUs counted are finitely many.                                     *)
LEMMA WaitersFinite ==
  /\ IsFiniteSet(Waiters) /\ Cardinality(Waiters) \in Nat
  /\ Cardinality(Waiters) = 0 <=> Waiters = {}
<1>1. Waiters \in SUBSET Cpu
  BY DEF Waiters
<1>2. IsFiniteSet(Waiters)
  BY <1>1, CpuAssumption, FS_Subset
<1> QED BY <1>2, FS_CardinalityType, FS_EmptySet

(* Steps outside sections and cpu_exec, including those that end a wait for
   exclusive_resume, and creation and exit of threads, keep the shape.     *)
LEMMA QuietKeeps ==
  ASSUME Shape,
         \A d \in Cpu : \/ pc'[d] = pc[d]
                        \/ pc[d] \in Quiet \cup Asleep /\ pc'[d] \in Quiet,
         running' = running, has_waiter' = has_waiter, section' = section
  PROVE  Shape'
<1> USE DEF Shape, section, Quiet, Asleep, Holding, Starting, InSection
<1>0. \A d \in Cpu : \A S \in {Holding, Starting, {"scan", "forking"}, {"exec"}} : pc'[d] \in S <=> pc[d] \in S
  OBVIOUS
<1>a. Waiters' = Waiters
  BY DEF Waiters
<1>1. OneHolder'
  BY DEF OneHolder
<1>2. PendingMeans'
  BY DEF PendingMeans
<1>3. LockMeans'
  BY DEF LockMeans
<1>4. RunningMeans'
  BY DEF RunningMeans
<1>5. WaiterOnItsWay'
  BY DEF WaiterOnItsWay
<1>6. Scanned'
  BY <1>a DEF Scanned
<1>7. Counted'
  BY <1>a DEF Counted
<1>8. Sleepers'
  BY DEF Sleepers
<1> QED BY <1>1, <1>2, <1>3, <1>4, <1>5, <1>6, <1>7, <1>8

(* cpu_exec_start sets running before it looks at pending_cpus. *)
LEMMA SetRunningKeeps ==
  ASSUME TypeOK, Shape, NEW c \in Cpu, SetRunning(c)
  PROVE  Shape'
<1> USE DEF SetRunning, Goto, Shape, TypeOK, Place, section, flags, Holding, Starting, InSection
<1>a. Waiters' = Waiters
  BY DEF Waiters
<1>1. OneHolder'
  BY DEF OneHolder
<1>2. PendingMeans'
  BY DEF PendingMeans
<1>3. LockMeans'
  BY DEF LockMeans
<1>4. RunningMeans'
  BY DEF RunningMeans
<1>5. WaiterOnItsWay'
  BY DEF WaiterOnItsWay
<1>6. Scanned'
  BY <1>a DEF Scanned
<1>7. Counted'
  BY <1>a DEF Counted
<1>8. Sleepers'
  BY DEF Sleepers
<1> QED BY <1>1, <1>2, <1>3, <1>4, <1>5, <1>6, <1>7, <1>8

(* A thread that sees no section goes on: there is none. *)
LEMMA ReadPendingKeeps ==
  ASSUME TypeOK, Shape, NEW c \in Cpu, ReadPending(c)
  PROVE  Shape'
<1> USE DEF ReadPending, Goto, Shape, TypeOK, Place, section, flags, Holding, Starting, InSection
<1>a. Waiters' = Waiters
  BY DEF Waiters
<1>1. OneHolder'
  BY DEF OneHolder
<1>2. PendingMeans'
  BY DEF PendingMeans
<1>3. LockMeans'
  BY DEF LockMeans
<1>4. RunningMeans'
  BY DEF RunningMeans
<1>5. WaiterOnItsWay'
  BY DEF WaiterOnItsWay
<1>6. Scanned'
  BY <1>a DEF Scanned, PendingMeans
<1>7. Counted'
  BY <1>a DEF Counted, PendingMeans
<1>8. Sleepers'
  BY DEF Sleepers
<1> QED BY <1>1, <1>2, <1>3, <1>4, <1>5, <1>6, <1>7, <1>8

(* Under the lock a CPU goes on only if it was counted, or there is no section. *)
LEMMA StartLockedKeeps ==
  ASSUME TypeOK, Shape, NEW c \in Cpu, StartLocked(c)
  PROVE  Shape'
<1> USE DEF StartLocked, IdleOrRun, Shape, TypeOK, Place, section, flags, Holding, Starting, InSection
<1>a. Waiters' = Waiters
  BY DEF Waiters
<1>1. OneHolder'
  BY DEF OneHolder
<1>2. PendingMeans'
  BY DEF PendingMeans
<1>3. LockMeans'
  BY DEF LockMeans
<1>4. RunningMeans'
  BY DEF RunningMeans
<1>5. WaiterOnItsWay'
  BY DEF WaiterOnItsWay
<1>6. Scanned'
  BY <1>a DEF Scanned, PendingMeans
<1>7. Counted'
  BY <1>a DEF Counted, PendingMeans
<1>8. Sleepers'
  BY DEF Sleepers
<1> QED BY <1>1, <1>2, <1>3, <1>4, <1>5, <1>6, <1>7, <1>8

(* A thread that was woken goes on only if there is no section. *)
LEMMA StartWokenKeeps ==
  ASSUME TypeOK, Shape, NEW c \in Cpu, StartWoken(c)
  PROVE  Shape'
<1> USE DEF StartWoken, IdleOrRun, Shape, TypeOK, Place, section, flags, Holding, Starting, InSection
<1>a. Waiters' = Waiters
  BY DEF Waiters
<1>1. OneHolder'
  BY DEF OneHolder
<1>2. PendingMeans'
  BY DEF PendingMeans
<1>3. LockMeans'
  BY DEF LockMeans
<1>4. RunningMeans'
  BY DEF RunningMeans
<1>5. WaiterOnItsWay'
  BY DEF WaiterOnItsWay
<1>6. Scanned'
  BY <1>a DEF Scanned, PendingMeans
<1>7. Counted'
  BY <1>a DEF Counted, PendingMeans
<1>8. Sleepers'
  BY DEF Sleepers
<1> QED BY <1>1, <1>2, <1>3, <1>4, <1>5, <1>6, <1>7, <1>8

(* Leaving cpu_exec a CPU stays counted. *)
LEMMA LeaveKeeps ==
  ASSUME TypeOK, Shape, NEW c \in Cpu, NEW t, Leave(c, t)
  PROVE  Shape'
<1> USE DEF Leave, Goto, Shape, TypeOK, Place, section, flags, Holding, Starting, InSection
<1>a. Waiters' = Waiters
  BY DEF Waiters
<1>1. OneHolder'
  BY DEF OneHolder
<1>2. PendingMeans'
  BY DEF PendingMeans
<1>3. LockMeans'
  BY DEF LockMeans
<1>4. RunningMeans'
  BY DEF RunningMeans
<1>5. WaiterOnItsWay'
  BY DEF WaiterOnItsWay
<1>6. Scanned'
  BY <1>a DEF Scanned
<1>7. Counted'
  BY <1>a DEF Counted
<1>8. Sleepers'
  BY DEF Sleepers
<1> QED BY <1>1, <1>2, <1>3, <1>4, <1>5, <1>6, <1>7, <1>8

(* A CPU that was counted sees pending_cpus nonzero and will report. *)
LEMMA EndReadPendingKeeps ==
  ASSUME TypeOK, Shape, NEW c \in Cpu, EndReadPending(c)
  PROVE  Shape'
<1> USE DEF EndReadPending, Goto, Shape, TypeOK, Place, section, flags, Holding, Starting, InSection
<1>a. Waiters' = Waiters
  BY DEF Waiters
<1>1. OneHolder'
  BY DEF OneHolder
<1>2. PendingMeans'
  BY DEF PendingMeans
<1>3. LockMeans'
  BY DEF LockMeans
<1>4. RunningMeans'
  BY DEF RunningMeans
<1>5. WaiterOnItsWay'
  BY DEF WaiterOnItsWay
<1>6. Scanned'
  BY <1>a DEF Scanned
<1>7. Counted'
  BY <1>a DEF Counted
<1>8. Sleepers'
  BY DEF Sleepers
<1> QED BY <1>1, <1>2, <1>3, <1>4, <1>5, <1>6, <1>7, <1>8

(* A section begins when there is none, and then nobody is counted. *)
LEMMA StartExclusiveKeeps ==
  ASSUME TypeOK, Shape, NEW c \in Cpu, StartExclusive(c)
  PROVE  Shape'
<1> USE DEF StartExclusive, Shape, TypeOK, Place, section, flags, Holding, Starting, InSection
<1>a. Waiters' = Waiters
  BY DEF Waiters
<1>b. pending_cpus = 0 => Waiters = {} /\ Cardinality(Waiters) = 0
  BY WaitersFinite DEF WaiterOnItsWay, Waiters
<1>1. OneHolder'
  BY DEF OneHolder, PendingMeans
<1>2. PendingMeans'
  BY DEF PendingMeans
<1>3. LockMeans'
  BY CpuAssumption DEF LockMeans, PendingMeans
<1>4. RunningMeans'
  BY DEF RunningMeans
<1>5. WaiterOnItsWay'
  BY DEF WaiterOnItsWay
<1>6. Scanned'
  <2>1. CASE pending_cpus # 0
    BY <1>a, <2>1 DEF Scanned
  <2>2. CASE pending_cpus = 0
    <3>1. \A d \in Cpu : pc'[d] = "scan" => d = c
      BY <2>2 DEF PendingMeans
    <3>2. pending_cpus' = 1 /\ running_cpus' = 0 /\ scan' = listed
      BY <2>2
    <3>3. Cardinality(Waiters') = 0 /\ \A d \in Cpu : ~has_waiter'[d]
      BY <1>a, <1>b, <2>2 DEF Waiters
    <3>4. \A d \in Cpu : pc'[d] = "exec" => d \in listed
      BY <2>2
    <3> QED BY <3>1, <3>2, <3>3, <3>4, <1>a DEF Scanned
  <2> QED BY <2>1, <2>2
<1>7. Counted'
  BY <1>a DEF Counted, PendingMeans
<1>8. Sleepers'
  BY DEF Sleepers
<1> QED BY <1>1, <1>2, <1>3, <1>4, <1>5, <1>6, <1>7, <1>8

(* The scan counts each running CPU once. *)
LEMMA ScanKeeps ==
  ASSUME TypeOK, Shape, NEW c \in Cpu, NEW d \in Cpu, Scan(c, d)
  PROVE  Shape'
<1> USE DEF Scan, Shape, TypeOK, Place, section, flags, Holding, Starting, InSection
<1>a. has_waiter' = IF running[d] THEN [has_waiter EXCEPT ![d] = TRUE] ELSE has_waiter
  OBVIOUS
<1>b. Waiters' = IF running[d] THEN Waiters \cup {d} ELSE Waiters
  BY <1>a DEF Waiters
<1>c. d \notin Waiters
  BY DEF Scanned, Waiters
<1>k. /\ Cardinality(Waiters \cup {d}) = Cardinality(Waiters) + 1
      /\ running_cpus = Cardinality(Waiters)
  <2>1. Cardinality(Waiters \cup {d}) = Cardinality(Waiters) + 1
    BY <1>c, WaitersFinite, FS_AddElement
  <2> QED BY <2>1 DEF Scanned
<1>d. running_cpus' = Cardinality(Waiters')
  BY <1>b, <1>k
<1>e. \A e \in Cpu : pc[e] \in Holding => e = c
  BY DEF OneHolder
<1>f. running[d] => pc[d] \in Starting
  BY <1>e DEF RunningMeans
<1>1. OneHolder'
  BY DEF OneHolder
<1>2. PendingMeans'
  BY DEF PendingMeans
<1>3. LockMeans'
  BY DEF LockMeans
<1>4. RunningMeans'
  BY DEF RunningMeans
<1>5. WaiterOnItsWay'
  BY <1>a, <1>f DEF WaiterOnItsWay, Scanned
<1>6. Scanned'
  <2> SUFFICES /\ pending_cpus' = 1
               /\ \A e \in Cpu : e \in scan' => ~has_waiter'[e]
               /\ \A e \in Cpu : pc'[e] = "exec" => e \in scan' \/ has_waiter'[e]
    BY <1>d DEF Scanned
  <2>1. pending_cpus' = 1
    BY DEF Scanned
  <2>2. \A e \in Cpu : e \in scan' => ~has_waiter'[e]
    BY <1>a DEF Scanned
  <2>3. \A e \in Cpu : pc'[e] = "exec" => e \in scan' \/ has_waiter'[e]
    BY <1>a DEF Scanned, RunningMeans
  <2> QED BY <2>1, <2>2, <2>3
<1>7. Counted'
  BY <1>e DEF Counted
<1>8. Sleepers'
  BY DEF Sleepers
<1> QED BY <1>1, <1>2, <1>3, <1>4, <1>5, <1>6, <1>7, <1>8

(* The section is entered at once only if no CPU was running. *)
LEMMA ScanDoneKeeps ==
  ASSUME TypeOK, Shape, NEW c \in Cpu, ScanDone(c)
  PROVE  Shape'
<1> USE DEF ScanDone, EnterOrWait, Shape, TypeOK, Place, section, flags, Holding, Starting, InSection
<1>a. Waiters' = Waiters
  BY DEF Waiters
<1>b. \A e \in Cpu : pc[e] \in Holding => e = c
  BY DEF OneHolder
<1>c. running_cpus = Cardinality(Waiters) /\ (running_cpus = 0 => Waiters = {}) /\ running_cpus \in Nat
  BY WaitersFinite DEF Scanned
<1>d. \A e \in Cpu : pc'[e] \in Holding => e = c
  BY <1>b
<1>e. pc'[c] \in Holding \ {"scan", "forking", "exclWoken"}
  OBVIOUS
<1>f. lock' = None /\ pending_cpus' = running_cpus + 1
  OBVIOUS
<1>1. OneHolder'
  BY <1>d DEF OneHolder
<1>2. PendingMeans'
  BY <1>c, <1>e DEF PendingMeans
<1>3. LockMeans'
  BY <1>d, <1>e, <1>f, CpuAssumption DEF LockMeans
<1>4. RunningMeans'
  BY DEF RunningMeans
<1>5. WaiterOnItsWay'
  BY <1>c, <1>f DEF WaiterOnItsWay
<1>6. Scanned'
  BY <1>d, <1>e DEF Scanned
<1>7. Counted'
  BY <1>a, <1>b, <1>c, <1>d DEF Counted, Scanned
<1>8. Sleepers'
  BY <1>c DEF Sleepers
<1> QED BY <1>1, <1>2, <1>3, <1>4, <1>5, <1>6, <1>7, <1>8

(* The wait for the CPUs ends when none is counted any more. *)
LEMMA ExclWokenKeeps ==
  ASSUME TypeOK, Shape, NEW c \in Cpu, ExclWoken(c)
  PROVE  Shape'
<1> USE DEF ExclWoken, EnterOrWait, Shape, TypeOK, Place, section, flags, Holding, Starting, InSection
<1>a. Waiters' = Waiters
  BY DEF Waiters
<1>b. \A e \in Cpu : pc[e] \in Holding => e = c
  BY DEF OneHolder
<1>c. pending_cpus = 1 + Cardinality(Waiters) /\ (pending_cpus = 1 => Waiters = {}) /\ pending_cpus >= 1
  BY WaitersFinite DEF Counted
<1>d. \A e \in Cpu : pc'[e] \in Holding => e = c
  BY <1>b
<1>e. pc'[c] \in Holding \ {"scan", "forking", "exclWoken"}
  OBVIOUS
<1>1. OneHolder'
  BY <1>d DEF OneHolder
<1>2. PendingMeans'
  BY <1>c, <1>e DEF PendingMeans
<1>3. LockMeans'
  BY <1>d, <1>e, CpuAssumption DEF LockMeans
<1>4. RunningMeans'
  BY DEF RunningMeans
<1>5. WaiterOnItsWay'
  BY DEF WaiterOnItsWay
<1>6. Scanned'
  BY <1>d, <1>e DEF Scanned
<1>7. Counted'
  BY <1>a, <1>b, <1>c, <1>d DEF Counted
<1>8. Sleepers'
  BY DEF Sleepers
<1> QED BY <1>1, <1>2, <1>3, <1>4, <1>5, <1>6, <1>7, <1>8

(* Each CPU that was counted reports once, the last one wakes the waiter. *)
LEMMA EndLockedKeeps ==
  ASSUME TypeOK, Shape, NEW c \in Cpu, EndLocked(c)
  PROVE  Shape'
<1> USE DEF EndLocked, Signal, Shape, TypeOK, Place, section, flags, Holding, Starting, InSection
<1>a. Waiters' = Waiters \ {c}
  BY DEF Waiters
<1>b. has_waiter' = [has_waiter EXCEPT ![c] = FALSE]
  OBVIOUS
<1>c. \A e \in Cpu : pc[e] \in Holding => pc[e] \notin {"scan", "forking"}
  BY CpuAssumption DEF LockMeans
<1>d. \A e \in Cpu : \/ pc'[e] = pc[e] /\ e # c
                     \/ e = c /\ pc[e] = "endLock" /\ pc'[e] = "work"
                     \/ pc[e] = "exclWait" /\ pc'[e] = "exclWoken"
  <2> DEFINE p == [pc EXCEPT ![c] = "work"]
  <2>1. \A e \in Cpu : p[e] = IF e = c THEN "work" ELSE pc[e]
    OBVIOUS
  <2>2. \/ pc' = p
        \/ pc' = [e \in Cpu |-> IF p[e] = "exclWait" THEN "exclWoken" ELSE p[e]]
    OBVIOUS
  <2>3. pc[c] = "endLock"
    OBVIOUS
  <2>4. pc' = p => \A e \in Cpu : pc'[e] = IF e = c THEN "work" ELSE pc[e]
    BY <2>1
  <2>5. pc' # p => \A e \in Cpu : pc'[e] = IF p[e] = "exclWait" THEN "exclWoken" ELSE p[e]
    BY <2>2
  <2> HIDE DEF p
  <2> QED BY ONLY <2>1, <2>3, <2>4, <2>5
<1>e. has_waiter[c] => \E e \in Cpu : pc[e] \in Holding \ {"scan"} /\ ~InSection(e)
  BY <1>c DEF WaiterOnItsWay, PendingMeans, Counted, Waiters
<1>f. Cardinality(Waiters') = IF has_waiter[c] THEN Cardinality(Waiters) - 1 ELSE Cardinality(Waiters)
  <2>1. Cardinality(Waiters \ {c}) = IF c \in Waiters THEN Cardinality(Waiters) - 1 ELSE Cardinality(Waiters)
    BY ONLY WaitersFinite, FS_RemoveElement
  <2> QED BY <2>1, <1>a DEF Waiters
<1>g. has_waiter[c] => pending_cpus = 1 + Cardinality(Waiters) /\ Cardinality(Waiters) \in Nat \ {0}
  BY <1>e, WaitersFinite DEF Counted, Waiters
<1>h. pending_cpus' # 0 <=> pending_cpus # 0
  BY <1>g
<1>1. OneHolder'
  BY <1>d DEF OneHolder
<1>2. PendingMeans'
  BY <1>d, <1>h DEF PendingMeans
<1>3. LockMeans'
  BY <1>d DEF LockMeans
<1>4. RunningMeans'
  BY <1>d DEF RunningMeans
<1>5. WaiterOnItsWay'
  BY <1>b, <1>h DEF WaiterOnItsWay
<1>6. Scanned'
  BY <1>c, <1>d DEF Scanned
<1>7. Counted'
  <2> SUFFICES ASSUME NEW e \in Cpu, pc'[e] \in Holding \ {"scan"}
               PROVE  /\ pending_cpus' = 1 + Cardinality(Waiters')
                      /\ \A d \in Cpu : pc'[d] = "exec" => has_waiter'[d]
                      /\ pc'[e] = "exclWait" => pending_cpus' > 1
                      /\ InSection(e)' => Waiters' = {}
    BY DEF Counted
  <2>0. pc[e] \in Holding \ {"scan"}
    BY <1>d
  <2>1. pending_cpus' = 1 + Cardinality(Waiters')
    BY <2>0, <1>f, <1>g DEF Counted
  <2>2. \A d \in Cpu : pc'[d] = "exec" => has_waiter'[d]
    BY <2>0, <1>b, <1>d DEF Counted
  <2>3. pc'[e] = "exclWait" => pending_cpus' > 1
    <3>1. CASE has_waiter[c]
      <4>1. pending_cpus' \in Nat \ {0} /\ (pending_cpus' = 1 => pc'[e] # "exclWait")
        BY <3>1, <1>g
      <4> QED BY <4>1
    <3>2. CASE ~has_waiter[c]
      BY <3>2, <2>0, <1>d DEF Counted
    <3> QED BY <3>1, <3>2
  <2>4. InSection(e)' => Waiters' = {}
    BY <2>0, <1>a, <1>d DEF Counted
  <2> QED BY <2>1, <2>2, <2>3, <2>4
<1>8. Sleepers'
  BY <1>d, <1>h DEF Sleepers
<1> QED BY <1>1, <1>2, <1>3, <1>4, <1>5, <1>6, <1>7, <1>8

(* The end of a section leaves nobody counted and nobody asleep. *)
LEMMA EndExclusiveKeeps ==
  ASSUME TypeOK, Shape, NEW c \in Cpu, EndExclusive(c)
  PROVE  Shape'
<1> USE DEF EndExclusive, Broadcast, Shape, TypeOK, Place, section, flags, Holding, Starting, InSection
<1>b. \A e \in Cpu : pc[e] \in Holding => e = c
  BY DEF OneHolder
<1>c. \A e \in Cpu : pc'[e] \notin Holding \cup {"startIdle", "exclIdle"}
  BY <1>b
<1>d. Waiters = {} /\ has_waiter' = has_waiter
  BY DEF Counted
<1>e. \A e \in Cpu : pc'[e] \in Starting <=> pc[e] \in Starting
  OBVIOUS
<1>f. lock' = None /\ pending_cpus' = 0
  OBVIOUS
<1>1. OneHolder'
  BY <1>c DEF OneHolder
<1>2. PendingMeans'
  BY <1>c, <1>f DEF PendingMeans
<1>3. LockMeans'
  BY <1>c, <1>f, CpuAssumption DEF LockMeans
<1>4. RunningMeans'
  BY <1>b, <1>e DEF RunningMeans
<1>5. WaiterOnItsWay'
  BY <1>d DEF WaiterOnItsWay, Waiters
<1>6. Scanned'
  BY <1>c DEF Scanned
<1>7. Counted'
  BY <1>c DEF Counted
<1>8. Sleepers'
  BY <1>c DEF Sleepers
<1> QED BY <1>1, <1>2, <1>3, <1>4, <1>5, <1>6, <1>7, <1>8

(* fork_start takes the lock in the section. *)
LEMMA ForkStartKeeps ==
  ASSUME TypeOK, Shape, NEW c \in Cpu, ForkStart(c)
  PROVE  Shape'
<1> USE DEF ForkStart, Goto, Shape, TypeOK, Place, section, flags, Holding, Starting, InSection
<1>a. Waiters' = Waiters
  BY DEF Waiters
<1>b. \A e \in Cpu : pc[e] \in Holding => e = c
  BY DEF OneHolder
<1>1. OneHolder'
  BY <1>b DEF OneHolder
<1>2. PendingMeans'
  BY DEF PendingMeans
<1>3. LockMeans'
  BY <1>b DEF LockMeans
<1>4. RunningMeans'
  BY DEF RunningMeans
<1>5. WaiterOnItsWay'
  BY DEF WaiterOnItsWay
<1>6. Scanned'
  BY <1>b DEF Scanned
<1>7. Counted'
  BY <1>a, <1>b DEF Counted
<1>8. Sleepers'
  BY DEF Sleepers
<1> QED BY <1>1, <1>2, <1>3, <1>4, <1>5, <1>6, <1>7, <1>8

(* fork_end releases the lock in the parent. *)
LEMMA ForkParentKeeps ==
  ASSUME TypeOK, Shape, NEW c \in Cpu, ForkParent(c)
  PROVE  Shape'
<1> USE DEF ForkParent, Goto, Shape, TypeOK, Place, section, flags, Holding, Starting, InSection
<1>a. Waiters' = Waiters
  BY DEF Waiters
<1>b. \A e \in Cpu : pc[e] \in Holding => e = c
  BY DEF OneHolder
<1>1. OneHolder'
  BY <1>b DEF OneHolder
<1>2. PendingMeans'
  BY DEF PendingMeans
<1>3. LockMeans'
  BY <1>b, CpuAssumption DEF LockMeans
<1>4. RunningMeans'
  BY DEF RunningMeans
<1>5. WaiterOnItsWay'
  BY DEF WaiterOnItsWay
<1>6. Scanned'
  BY <1>b DEF Scanned
<1>7. Counted'
  BY <1>a, <1>b DEF Counted
<1>8. Sleepers'
  BY DEF Sleepers
<1> QED BY <1>1, <1>2, <1>3, <1>4, <1>5, <1>6, <1>7, <1>8

(* The child of a fork starts with no section, no waiter and one thread. *)
LEMMA ForkChildKeeps ==
  ASSUME TypeOK, Shape, NEW c \in Cpu, ForkChild(c)
  PROVE  Shape'
<1> USE DEF ForkChild, Shape, TypeOK, Place, section, flags, Holding, Starting, InSection
<1>a. Waiters = {} /\ has_waiter' = has_waiter
  BY DEF Counted
<1>1. OneHolder'
  BY DEF OneHolder
<1>2. PendingMeans'
  BY DEF PendingMeans
<1>3. LockMeans'
  BY CpuAssumption DEF LockMeans
<1>4. RunningMeans'
  BY DEF RunningMeans
<1>5. WaiterOnItsWay'
  BY <1>a DEF WaiterOnItsWay, Waiters
<1>6. Scanned'
  BY DEF Scanned
<1>7. Counted'
  BY DEF Counted
<1>8. Sleepers'
  BY DEF Sleepers
<1> QED BY <1>1, <1>2, <1>3, <1>4, <1>5, <1>6, <1>7, <1>8

(* Waits may end without a signal.                                         *)
LEMMA SpuriousKeeps ==
  ASSUME TypeOK, Shape, NEW c \in Cpu, Spurious(c)
  PROVE  Shape'
<1>1. CASE pc[c] \in Asleep
  BY <1>1, QuietKeeps DEF Spurious, Goto, TypeOK, flags, Quiet, Asleep
<1>2. CASE pc[c] = "exclWait"
  <2> USE DEF Spurious, Goto, Shape, TypeOK, section, flags, Holding, Starting, InSection
  <2>a. Waiters' = Waiters
    BY DEF Waiters
  <2>b. pc' = [pc EXCEPT ![c] = "exclWoken"]
    BY <1>2
  <2>1. OneHolder'
    BY <1>2, <2>b DEF OneHolder
  <2>2. PendingMeans'
    BY <1>2, <2>b DEF PendingMeans
  <2>3. LockMeans'
    BY <1>2, <2>b DEF LockMeans
  <2>4. RunningMeans'
    BY <1>2, <2>b DEF RunningMeans
  <2>5. WaiterOnItsWay'
    BY <1>2, <2>b DEF WaiterOnItsWay
  <2>6. Scanned'
    BY <1>2, <2>a, <2>b DEF Scanned
  <2>7. Counted'
    BY <1>2, <2>a, <2>b DEF Counted
  <2>8. Sleepers'
    BY <1>2, <2>b DEF Sleepers
  <2> QED BY <2>1, <2>2, <2>3, <2>4, <2>5, <2>6, <2>7, <2>8
<1> QED BY <1>1, <1>2 DEF Spurious, Goto, Asleep

(* A thread that was just created is not running and not counted.          *)
LEMMA CloneKeeps ==
  ASSUME TypeOK, Shape, NEW c \in Cpu, NEW d \in Cpu, Clone(c, d)
  PROVE  Shape'
<1>1. ~running[d] /\ ~has_waiter[d]
  BY DEF Clone, Shape, TypeOK, RunningMeans, WaiterOnItsWay, Starting, InSection
<1>2. running' = running /\ has_waiter' = has_waiter
  BY <1>1 DEF Clone, TypeOK
<1>3. \A e \in Cpu : \/ pc'[e] = pc[e]
                     \/ pc[e] \in Quiet /\ pc'[e] \in Quiet
  BY DEF Clone, TypeOK, Quiet
<1> QED BY <1>2, <1>3, QuietKeeps DEF Clone

(* Each step keeps what the lock, the counter and the flags mean.          *)
LEMMA NextKeepsShape ==
  ASSUME TypeOK, Shape, Next
  PROVE  Shape'
<1> PICK c \in Cpu : Next!(c)
  BY DEF Next
<1>1. CASE Work(c)
  BY <1>1, QuietKeeps DEF Work, Goto, TypeOK, flags, Quiet
<1>2. ASSUME NEW t \in Trap, TrapExclusive(c, t) PROVE Shape'
  BY <1>2, QuietKeeps DEF TrapExclusive, Goto, TypeOK, flags, Quiet
<1>3. CASE TrapOther(c)
  BY <1>3, QuietKeeps DEF TrapOther, Goto, TypeOK, flags, Quiet
<1>4. CASE LeaveHost(c)
  BY <1>4, QuietKeeps DEF LeaveHost, Goto, TypeOK, flags, Quiet
<1>5. CASE Exit(c)
  BY <1>5, QuietKeeps DEF Exit, Goto, TypeOK, flags, Quiet
<1>6. CASE TbFlush(c)
  BY <1>6, QuietKeeps DEF TbFlush
<1>7. ASSUME NEW d \in Cpu, Clone(c, d) PROVE Shape'
  BY <1>7, CloneKeeps
<1>8. ASSUME NEW d \in Cpu, Scan(c, d) PROVE Shape'
  BY <1>8, ScanKeeps
<1>9. ASSUME NEW t, Leave(c, t) PROVE Shape'
  BY <1>9, LeaveKeeps
<1>10. CASE \/ SetRunning(c) \/ ReadPending(c) \/ StartLocked(c) \/ StartWoken(c)
            \/ EndReadPending(c) \/ EndLocked(c)
  BY <1>10, SetRunningKeeps, ReadPendingKeeps, StartLockedKeeps, StartWokenKeeps,
     EndReadPendingKeeps, EndLockedKeeps
<1>11. CASE StartExclusive(c) \/ ScanDone(c) \/ ExclWoken(c) \/ EndExclusive(c)
  BY <1>11, StartExclusiveKeeps, ScanDoneKeeps, ExclWokenKeeps, EndExclusiveKeeps
<1>12. CASE ForkStart(c) \/ ForkParent(c) \/ ForkChild(c) \/ Spurious(c)
  BY <1>12, ForkStartKeeps, ForkParentKeeps, ForkChildKeeps, SpuriousKeeps
<1>13. CASE MapShared(c)
  BY <1>13, QuietKeeps DEF MapShared, Goto, TypeOK, Quiet
<1> QED BY <1>1, <1>2, <1>3, <1>4, <1>5, <1>6, <1>7, <1>8, <1>9, <1>10, <1>11, <1>12, <1>13 DEF Step

(* Each step keeps the types, and the list of CPUs that of the threads.     *)
LEMMA NextKeepsType ==
  ASSUME TypeOK, Shape, Next
  PROVE  TypeOK'
<1> PICK c \in Cpu : Next!(c)
  BY DEF Next
<1> USE DEF TypeOK, Place, Trap, Goto, section, flags, control, threads
<1>1. CASE Work(c)
  <2>1. work_list' \in [Cpu -> Nat]
    BY <1>1 DEF Work
  <2> QED BY <1>1, <2>1 DEF Work
<1>2. ASSUME NEW t \in Trap, TrapExclusive(c, t) PROVE TypeOK'
  BY <1>2 DEF TrapExclusive
<1>3. CASE TrapOther(c)
  BY <1>3 DEF TrapOther
<1>4. CASE LeaveHost(c)
  BY <1>4 DEF LeaveHost
<1>5. CASE Exit(c)
  <2>1. work_list' \in [Cpu -> Nat]
    BY <1>5 DEF Exit
  <2>2. listed' = {d \in Cpu : pc'[d] # "gone"}
    BY <1>5 DEF Exit
  <2> QED BY <1>5, <2>1, <2>2 DEF Exit
<1>6. CASE TbFlush(c)
  <2>1. work_list' \in [Cpu -> Nat]
    BY <1>6 DEF TbFlush
  <2> QED BY <1>6, <2>1 DEF TbFlush
<1>7. ASSUME NEW d \in Cpu, Clone(c, d) PROVE TypeOK'
  <2>1. work_list' \in [Cpu -> Nat]
    BY <1>7 DEF Clone
  <2>2. pc' \in [Cpu -> Place] /\ listed' = {e \in Cpu : pc'[e] # "gone"}
    BY <1>7 DEF Clone
  <2> QED BY <1>7, <2>1, <2>2 DEF Clone
<1>8. ASSUME NEW d \in Cpu, Scan(c, d) PROVE TypeOK'
  <2>1. has_waiter' \in [Cpu -> BOOLEAN] /\ exit_request' \in [Cpu -> BOOLEAN]
    BY <1>8 DEF Scan
  <2>2. scan' \subseteq Cpu /\ running_cpus' \in Nat
    BY <1>8 DEF Scan
  <2> QED BY <1>8, <2>1, <2>2 DEF Scan
<1>9. ASSUME NEW t \in Trap, Leave(c, t) PROVE TypeOK'
  BY <1>9 DEF Leave
<1>10. CASE SetRunning(c) \/ ReadPending(c) \/ EndReadPending(c)
  <2>1. pc' \in [Cpu -> Place] /\ listed' = {e \in Cpu : pc'[e] # "gone"}
    BY <1>10 DEF SetRunning, ReadPending, EndReadPending
  <2>2. running' \in [Cpu -> BOOLEAN]
    BY <1>10 DEF SetRunning, ReadPending, EndReadPending
  <2> QED BY <1>10, <2>1, <2>2 DEF SetRunning, ReadPending, EndReadPending
<1>11. CASE StartLocked(c) \/ StartWoken(c)
  BY <1>11 DEF StartLocked, StartWoken, IdleOrRun
<1>12. CASE EndLocked(c)
  <2>1. has_waiter[c] => pending_cpus # 0
    BY DEF Shape, WaiterOnItsWay
  <2>2. pending_cpus' \in Nat
    BY <1>12, <2>1 DEF EndLocked
  <2>3. pc' \in [Cpu -> Place] /\ listed' = {e \in Cpu : pc'[e] # "gone"}
    BY <1>12 DEF EndLocked, Signal
  <2> QED BY <1>12, <2>2, <2>3 DEF EndLocked
<1>13. CASE StartExclusive(c)
  <2>1. pc' \in [Cpu -> Place] /\ listed' = {e \in Cpu : pc'[e] # "gone"}
    BY <1>13 DEF StartExclusive
  <2>2. pending_cpus' \in Nat /\ lock' \in Cpu \cup {None} /\ scan' \subseteq Cpu /\ running_cpus' \in Nat
    BY <1>13 DEF StartExclusive
  <2> QED BY <1>13, <2>1, <2>2 DEF StartExclusive
<1>14. CASE ScanDone(c) \/ ExclWoken(c)
  <2>1. pc' \in [Cpu -> Place] /\ listed' = {e \in Cpu : pc'[e] # "gone"}
    BY <1>14 DEF ScanDone, ExclWoken, EnterOrWait
  <2>2. running' \in [Cpu -> BOOLEAN]
    <3>1. \E b \in BOOLEAN : running' = [running EXCEPT ![c] = b]
      BY <1>14 DEF ScanDone, ExclWoken, EnterOrWait
    <3> QED BY <3>1
  <2>3. pending_cpus' \in Nat /\ running_cpus' \in Nat
    BY <1>14 DEF ScanDone, ExclWoken, EnterOrWait
  <2> QED BY <1>14, <2>1, <2>2, <2>3 DEF ScanDone, ExclWoken, EnterOrWait
<1>15. CASE EndExclusive(c)
  <2>1. pc' \in [Cpu -> Place] /\ listed' = {e \in Cpu : pc'[e] # "gone"}
    BY <1>15 DEF EndExclusive, Broadcast
  <2> QED BY <1>15, <2>1 DEF EndExclusive
<1>16. CASE ForkStart(c) \/ ForkParent(c)
  BY <1>16 DEF ForkStart, ForkParent
<1>17. CASE ForkChild(c)
  <2>1. work_list' \in [Cpu -> Nat]
    BY <1>17 DEF ForkChild
  <2>2. pc' \in [Cpu -> Place] /\ listed' = {e \in Cpu : pc'[e] # "gone"}
    BY <1>17 DEF ForkChild
  <2>3. exit_request' \in [Cpu -> BOOLEAN]
    BY <1>17 DEF ForkChild
  <2> QED BY <1>17, <2>1, <2>2, <2>3 DEF ForkChild
<1>18. CASE Spurious(c)
  BY <1>18 DEF Spurious
<1>19. "interrupt" \in Trap /\ "other" \in Trap
  OBVIOUS
<1>20. CASE MapShared(c)
  <2>1. work_list' \in [Cpu -> Nat]
    BY <1>20 DEF MapShared
  <2>2. pc' \in [Cpu -> Place] /\ listed' = {e \in Cpu : pc'[e] # "gone"}
    BY <1>20 DEF MapShared
  <2> QED BY <1>20, <2>1, <2>2 DEF MapShared
<1> QED BY <1>1, <1>2, <1>3, <1>4, <1>5, <1>6, <1>7, <1>8, <1>9, <1>10, <1>11, <1>12,
           <1>13, <1>14, <1>15, <1>16, <1>17, <1>18, <1>19, <1>20 DEF Step

(* Before the first step there is one thread, and no section.               *)
LEMMA InitShape ==
  ASSUME Init
  PROVE  TypeOK /\ Shape
<1> USE DEF Init
<1>1. work_list \in [Cpu -> Nat]
  OBVIOUS
<1>2. pc \in [Cpu -> Place] /\ listed = {c \in Cpu : pc[c] # "gone"} /\ trapnr \in [Cpu -> Trap]
  BY CpuAssumption DEF Place, Trap
<1>3. TypeOK
  BY <1>1, <1>2, CpuAssumption DEF TypeOK
<1>4. Shape
  BY CpuAssumption DEF Shape, OneHolder, PendingMeans, LockMeans, RunningMeans, WaiterOnItsWay,
         Scanned, Counted, Sleepers, Holding, Starting, InSection
<1> QED BY <1>3, <1>4

(* Stuttering changes nothing.                                              *)
LEMMA StutterKeeps ==
  ASSUME TypeOK, Shape, UNCHANGED vars
  PROVE  TypeOK' /\ Shape'
<1>1. TypeOK'
  BY DEF TypeOK, vars, section, flags, control, threads
<1>2. Shape'
  BY QuietKeeps DEF vars, flags
<1> QED BY <1>1, <1>2

(* The lock, the counter and the flags of cpu-common.c mean what ExclInv says,
   for any number of threads and any number of queued work items.           *)
THEOREM ExclInvariant == Spec => []ExclInv
<1>1. Init => ExclInv
  BY InitShape DEF ExclInv, Shape
<1>2. ExclInv /\ [Next]_vars => ExclInv'
  <2>1. ExclInv /\ Next => ExclInv'
    BY NextKeepsType, NextKeepsShape DEF ExclInv, Shape
  <2>2. ExclInv /\ UNCHANGED vars => ExclInv'
    BY StutterKeeps DEF ExclInv, Shape
  <2> QED BY <2>1, <2>2
<1> QED BY <1>1, <1>2, PTL DEF Spec

(* A section excludes: nobody else executes translated code, or is in one.  *)
THEOREM SectionExcludes == Spec => []ExclusiveAlone
<1>1. ExclInv => ExclusiveAlone
  <2> SUFFICES ASSUME ExclInv, NEW c \in Cpu, NEW d \in Cpu, InSection(c), c # d
               PROVE  pc[d] # "exec" /\ ~InSection(d)
    BY DEF ExclusiveAlone
  <2>1. ~InSection(d)
    BY DEF ExclInv, OneHolder, InSection, Holding
  <2>2. pc[d] # "exec"
    BY DEF ExclInv, Counted, Waiters, InSection, Holding
  <2> QED BY <2>1, <2>2
<1> QED BY <1>1, ExclInvariant, PTL

(* start_exclusive waits for just the CPUs that will report.                *)
THEOREM CountIsExact == Spec => []WaitersCounted
<1>1. ExclInv => WaitersCounted
  BY DEF ExclInv, WaitersCounted, Counted, Holding
<1> QED BY <1>1, ExclInvariant, PTL

(* Nobody sleeps on a condition that holds.                                 *)
THEOREM NoWakeupLost == Spec => []NoLostWakeup
<1>1. ExclInv => NoLostWakeup
  BY DEF ExclInv, NoLostWakeup, Counted, Sleepers, Holding
<1> QED BY <1>1, ExclInvariant, PTL

(* The counters and the queues of cpus-common.c keep their types: pending_cpus
   never falls below zero, whatever the order in which CPUs leave.          *)
THEOREM ExclusiveTypeOKAlways == Spec => []TypeOK
<1>1. ExclInv => TypeOK
  BY DEF ExclInv
<1> QED BY <1>1, ExclInvariant, PTL

=============================================================================
