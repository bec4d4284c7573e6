--------------------------- MODULE GyhLoopNesting ---------------------------
(***************************************************************************)
(* The emulation loop implements OffloadStack, and counts the callbacks it *)
(* makes, for every architecture, every set of modules and every bound.    *)
(***************************************************************************)
EXTENDS GyhLoopProofs, FiniteSetTheorems

PromiseStep == [Promise!Next]_(Promise!vars)

(* The cells up to n keep what activation they are.                        *)
KeptUpto(n) == \A i \in 1..n : mem'[i].kind = mem[i].kind /\ mem'[i].arg = mem[i].arg

(* The cells from m on, up to n, are no activations.                       *)
PlainAfter(m, n) == \A i \in 1..n : i > m => ~IsActivation(mem[i])

LEMMA TopTypes == TypeOK => Top \in Addr /\ env.sp \in Addr /\ hsp \in Addr /\ StackSize \in Nat
  BY LoopAssumption DEF TypeOK, Regs, Top

LEMMA AddrNumbers == \A n : n \in Addr <=> n \in Nat /\ n <= StackSize
  BY LoopAssumption DEF Addr

(* Pushing and popping details of stubs changes no activation.             *)
LEMMA GrowsPlain ==
  ASSUME NEW n \in Addr, NEW k \in Addr, Top = n, Top' = k, n <= k, KeptUpto(n), PlainAfter(n, k)'
  PROVE  Activations' = Activations
<1>1. n \in Nat /\ k \in Nat
  BY AddrNumbers
<1>2. {j \in 1..k : IsActivation(mem'[j])} = {j \in 1..n : IsActivation(mem[j])}
  BY <1>1 DEF KeptUpto, PlainAfter, IsActivation
<1>3. \A i \in 1..n : ActivationOf(mem'[i]) = ActivationOf(mem[i])
  BY DEF KeptUpto, ActivationOf
<1> QED BY <1>2, <1>3 DEF Activations, IsActivation

LEMMA ShrinksPlain ==
  ASSUME NEW n \in Addr, NEW k \in Addr, Top = n, Top' = k, k <= n, KeptUpto(k), PlainAfter(k, n)
  PROVE  Activations' = Activations
<1>1. n \in Nat /\ k \in Nat
  BY AddrNumbers
<1>2. {j \in 1..k : IsActivation(mem'[j])} = {j \in 1..n : IsActivation(mem[j])}
  BY <1>1 DEF KeptUpto, PlainAfter, IsActivation
<1>3. \A i \in 1..k : ActivationOf(mem'[i]) = ActivationOf(mem[i])
  BY DEF KeptUpto, ActivationOf
<1>4. \A i \in {j \in 1..k : IsActivation(mem'[j])} : ActivationOf(mem'[i]) = ActivationOf(mem[i])
  BY <1>3
<1> QED BY <1>2, <1>4 DEF Activations, IsActivation

(* A step that changes no activation stutters, or ends the process.        *)
LEMMA SameStep ==
  ASSUME Activations' = Activations, pc \notin Stopped
  PROVE  PromiseStep
<1>1. CASE pc' \in Stopped
  <2>1. Promise!End
    BY <1>1 DEF Promise!End
  <2> QED BY <2>1 DEF PromiseStep, Promise!Next
<1>2. CASE pc' \notin Stopped
  BY <1>2 DEF PromiseStep, Promise!vars
<1> QED BY <1>1, <1>2

(* Pushing one activation.                                                 *)
LEMMA PushStep ==
  ASSUME NEW n \in Addr, NEW k \in Addr, NEW p \in 1..k, Top = n, Top' = k, n < p, KeptUpto(n),
         IsActivation(mem'[p]), \A i \in 1..k : i > n /\ i # p => ~IsActivation(mem'[i])
  PROVE  Promise!Push(ActivationOf(mem'[p]))
<1>1. n \in Nat /\ k \in Nat /\ p \in 1..StackSize
  BY AddrNumbers, LoopAssumption
<1>2. {j \in 1..k : IsActivation(mem'[j])} = {j \in 1..n : IsActivation(mem[j])} \cup {p}
  BY <1>1 DEF KeptUpto, IsActivation
<1>3. \A i \in 1..n : ActivationOf(mem'[i]) = ActivationOf(mem[i])
  BY DEF KeptUpto, ActivationOf
<1>4. DOMAIN Activations = {j \in 1..n : IsActivation(mem[j])}
      /\ \A i \in DOMAIN Activations : Activations[i] = ActivationOf(mem[i])
  BY DEF Activations
<1>5. \A x \in DOMAIN Activations : x < p
  BY <1>1, <1>4
<1>6. Activations' = [x \in DOMAIN Activations \cup {p} |->
                        IF x = p THEN ActivationOf(mem'[p]) ELSE Activations[x]]
  <2>1. Activations' = [i \in {j \in 1..k : IsActivation(mem'[j])} |-> ActivationOf(mem'[i])]
    BY DEF Activations, IsActivation, ActivationOf
  <2>2. \A x \in DOMAIN Activations \cup {p} :
          ActivationOf(mem'[x]) = IF x = p THEN ActivationOf(mem'[p]) ELSE Activations[x]
    BY <1>3, <1>4
  <2> QED BY <1>2, <1>4, <2>1, <2>2
<1> QED BY <1>1, <1>5, <1>6 DEF Promise!Push

(* Popping the activation at p, with an outer one left.                    *)
LEMMA PopStep ==
  ASSUME NEW n \in Addr, NEW k \in Addr, NEW p \in 1..n, NEW A, Top = n, Top' = k, k < p, KeptUpto(k),
         IsActivation(mem[p]), ActivationOf(mem[p]) \in A,
         \A i \in 1..n : i > k /\ i # p => ~IsActivation(mem[i]),
         NEW o \in 1..k, IsActivation(mem[o])
  PROVE  Promise!Pop(A)
<1>1. n \in Nat /\ k \in Nat
  BY AddrNumbers
<1>2. {j \in 1..k : IsActivation(mem'[j])} = {j \in 1..n : IsActivation(mem[j])} \ {p}
  BY <1>1 DEF KeptUpto, IsActivation
<1>3. \A i \in 1..k : ActivationOf(mem'[i]) = ActivationOf(mem[i])
  BY DEF KeptUpto, ActivationOf
<1>4. DOMAIN Activations = {j \in 1..n : IsActivation(mem[j])}
      /\ \A i \in DOMAIN Activations : Activations[i] = ActivationOf(mem[i])
  BY DEF Activations
<1>5. \A x \in DOMAIN Activations : x <= p
  BY <1>1, <1>4
<1>6. p \in DOMAIN Activations /\ Activations[p] \in A
  BY <1>4
<1>7. DOMAIN Activations # {p}
  BY <1>1, <1>4
<1>8. Activations' = [x \in DOMAIN Activations \ {p} |-> Activations[x]]
  <2>1. Activations' = [i \in {j \in 1..k : IsActivation(mem'[j])} |-> ActivationOf(mem'[i])]
    BY DEF Activations, IsActivation, ActivationOf
  <2>2. \A x \in {j \in 1..k : IsActivation(mem'[j])} : ActivationOf(mem'[x]) = Activations[x]
    BY <1>2, <1>3, <1>4
  <2> QED BY <1>2, <1>4, <2>1, <2>2
<1> QED BY <1>5, <1>6, <1>7, <1>8 DEF Promise!Pop, Promise!Innermost

(* Above a frame that is not host code's, the first activation is a guest's. *)
GuestCell(p) == mem[p].kind \in {"main", "ctx", "sig"}

LEMMA GuestAbove ==
  ASSUME NEW n \in 1..StackSize, \A i \in 1..n : FrameFits(i), mem[n].kind # "host"
  PROVE  \E p \in 1..n : GuestCell(p) /\ PlainAfter(p, n)
<1> USE DEF GuestCell, PlainAfter, IsActivation
<1>1. n \in Nat /\ n >= 1
  BY LoopAssumption
<1>2. ASSUME NEW m \in 1..n, mem[m].kind \in {"main", "ctx", "sig"}
      PROVE  \E p \in 1..m : GuestCell(p) /\ PlainAfter(p, m)
  BY <1>1, <1>2
<1>3. ASSUME NEW m \in 1..n, mem[m].kind = "ret"
      PROVE  \E p \in 1..m : GuestCell(p) /\ PlainAfter(p, m)
  <2>1. m - 1 \in 1..n /\ mem[m - 1].kind = "ctx"
    BY <1>1, <1>3 DEF FrameFits
  <2> QED BY <1>1, <1>3, <2>1
<1>4. ASSUME NEW m \in 1..n, mem[m].kind = "cb"
      PROVE  \E p \in 1..m : GuestCell(p) /\ PlainAfter(p, m)
  <2>1. m - 1 \in 1..n /\ mem[m - 1].kind \in {"ctx", "ret"}
    BY <1>1, <1>4 DEF FrameFits, CallbackSlot
  <2>2. PICK p \in 1..(m - 1) : GuestCell(p) /\ PlainAfter(p, m - 1)
    BY <1>2, <1>3, <2>1
  <2> QED BY <1>1, <1>4, <2>2
<1>5. ASSUME NEW m \in 1..n, mem[m].kind = "stub"
      PROVE  \E p \in 1..m : GuestCell(p) /\ PlainAfter(p, m)
  <2>1. m - 1 \in 1..n /\ mem[m - 1].kind \in GuestFrame
    BY <1>1, <1>5 DEF FrameFits
  <2>2. PICK p \in 1..(m - 1) : GuestCell(p) /\ PlainAfter(p, m - 1)
    BY <1>2, <1>4, <2>1 DEF GuestFrame
  <2> QED BY <1>1, <1>5, <2>2
<1>6. mem[n].kind \in {"main", "stub", "ctx", "ret", "cb", "sig"}
  <2>1. FrameFits(n)
    BY <1>1
  <2> QED BY <2>1 DEF FrameFits
<1> QED BY <1>1, <1>2, <1>3, <1>4, <1>5, <1>6

(* So guest code is what runs.                                             *)
LEMMA GuestRuns ==
  ASSUME NEW n \in 1..StackSize, Top = n, \A i \in 1..n : FrameFits(i), mem[n].kind # "host"
  PROVE  Promise!Runs(Promise!InGuest)
<1>1. PICK p \in 1..n : GuestCell(p) /\ PlainAfter(p, n)
  BY GuestAbove
<1>2. p \in DOMAIN Activations /\ Activations[p] \in Promise!InGuest
  BY <1>1 DEF Activations, GuestCell, IsActivation, ActivationOf,
              Promise!InGuest, Promise!Guest, Promise!Handler
<1>3. \A x \in DOMAIN Activations : x <= p
  BY <1>1, LoopAssumption DEF Activations, PlainAfter
<1> QED BY <1>2, <1>3 DEF Promise!Runs, Promise!Innermost

LEMMA MainFirst ==
  ASSUME NEW n \in 1..StackSize, \A i \in 1..n : FrameFits(i)
  PROVE  IsActivation(mem[1])
<1>1. FrameFits(1)
  BY LoopAssumption
<1> QED BY <1>1 DEF FrameFits, IsActivation

-----------------------------------------------------------------------------
(* The steps of the loop, each as a step of OffloadStack.                  *)

LEMMA StillStep ==
  ASSUME TypeOK, pc \notin Stopped, mem' = mem, Top' = Top
  PROVE  PromiseStep
<1>1. PICK n \in Addr : Top = n /\ n \in Nat
  BY TopTypes, AddrNumbers
<1>2. KeptUpto(n) /\ PlainAfter(n, n)'
  BY <1>1 DEF KeptUpto, PlainAfter
<1> QED BY <1>1, <1>2, GrowsPlain, SameStep

(* A stub, or the frame of __gyh_callback_return__, is pushed.             *)
LEMMA DetailPushed ==
  ASSUME CpuInv, pc = "cpu", pc' \in {"cpu", "signals"}, env.sp + 1 <= StackSize,
         env'.sp = env.sp + 1, mem'[env.sp + 1].kind \in {"stub", "cb"},
         \A i \in 1..env.sp : mem'[i] = mem[i]
  PROVE  PromiseStep
<1>1. PICK n \in 1..StackSize : n = env.sp /\ n \in Nat /\ n + 1 \in 1..StackSize
  BY LoopAssumption DEF CpuInv
<1>2. Top = n /\ Top' = n + 1 /\ n \in Addr /\ n + 1 \in Addr
  BY <1>1, AddrNumbers, LoopAssumption DEF Top
<1>4. KeptUpto(n) /\ PlainAfter(n, n + 1)'
  BY <1>1 DEF KeptUpto, PlainAfter, IsActivation
<1> QED BY <1>1, <1>2, <1>4, GrowsPlain, SameStep DEF Stopped

(* A stub, or the frame of __gyh_callback_return__, is popped.             *)
LEMMA DetailPopped ==
  ASSUME CpuInv, pc = "cpu", pc' \in {"cpu", "signals"}, mem[env.sp].kind \in {"stub", "cb"},
         env'.sp = env.sp - 1, mem' = mem
  PROVE  PromiseStep
<1>1. PICK n \in 1..StackSize : n = env.sp /\ n \in Nat /\ n - 1 \in Addr
  BY LoopAssumption, AddrNumbers DEF CpuInv
<1>2. Top = n /\ Top' = n - 1 /\ n \in Addr
  BY <1>1, AddrNumbers, LoopAssumption DEF Top
<1>3. KeptUpto(n - 1) /\ PlainAfter(n - 1, n)
  BY <1>1 DEF KeptUpto, PlainAfter, IsActivation
<1> QED BY <1>1, <1>2, <1>3, ShrinksPlain, SameStep DEF Stopped

LEMMA SigreturnStep ==
  ASSUME LoopInv, GuestSigreturn
  PROVE  PromiseStep
<1>1. CpuInv /\ pc = "cpu" /\ pc' = "signals" /\ mem' = mem /\ mem[env.sp].kind = "sig"
      /\ env'.sp = mem[env.sp].sp
  BY AtCpu DEF GuestSigreturn, At
<1>2. PICK n \in 1..StackSize : n = env.sp /\ n \in Nat
  BY <1>1, LoopAssumption DEF CpuInv
<1>3. n > 1 /\ mem[n].sp = n - 1
  BY <1>1, <1>2 DEF CpuInv, FrameFits
<1>4. Top = n /\ Top' = n - 1 /\ n \in Addr /\ n - 1 \in Addr /\ 1 \in 1..(n - 1) /\ n \in 1..n
  BY <1>1, <1>2, <1>3, AddrNumbers, LoopAssumption DEF Top
<1>5. KeptUpto(n - 1) /\ \A i \in 1..n : i > n - 1 /\ i # n => ~IsActivation(mem[i])
  BY <1>1, <1>2 DEF KeptUpto
<1>6. IsActivation(mem[n]) /\ ActivationOf(mem[n]) \in {Promise!Handler} /\ IsActivation(mem[1])
  BY <1>1, <1>2, MainFirst DEF IsActivation, ActivationOf, Promise!Handler, CpuInv
<1>7. Promise!Pop({Promise!Handler})
  BY <1>4, <1>5, <1>6, PopStep
<1>8. pc \notin Stopped /\ pc' \notin Stopped
  BY <1>1 DEF Stopped
<1> QED BY <1>7, <1>8 DEF PromiseStep, Promise!Next, Promise!Sigreturn

LEMMA LongjmpStep ==
  ASSUME LoopInv, GuestLongjmp
  PROVE  PromiseStep
<1>1. CpuInv /\ pc = "cpu" /\ pc' = "cpu" /\ mem' = mem /\ env.pc = "code"
  BY AtCpu DEF GuestLongjmp
<1>2. PICK j \in 1..(env.sp - 1) : mem[j].kind \in GuestFrame /\ env'.sp = j
  BY DEF GuestLongjmp, At
<1>3. PICK n \in 1..StackSize : n = env.sp /\ n \in Nat /\ n \in Addr
  BY <1>1, LoopAssumption, AddrNumbers DEF CpuInv
<1>4. j \in 1..n /\ j \in 1..StackSize /\ j \in Nat /\ Top = n /\ Top' = j
  BY <1>1, <1>2, <1>3, LoopAssumption DEF Top
<1>5. Promise!Runs(Promise!InGuest)
  BY <1>1, <1>3, <1>4, GuestRuns DEF CpuInv, RegsFit, GuestFrame
<1>6. PICK p \in 1..j : GuestCell(p) /\ PlainAfter(p, j)
  <2>1. \A i \in 1..j : FrameFits(i)
    BY <1>1, <1>3, <1>4 DEF CpuInv
  <2> QED BY <1>2, <1>4, <2>1, GuestAbove DEF GuestFrame
<1>7. p \in DOMAIN Activations /\ Activations[p] \in Promise!InGuest
  BY <1>4, <1>6 DEF Activations, GuestCell, IsActivation, ActivationOf,
                    Promise!InGuest, Promise!Guest, Promise!Handler
<1>8. {y \in DOMAIN Activations : y <= p} = {y \in 1..j : IsActivation(mem[y])}
  BY <1>4, <1>6 DEF Activations, PlainAfter
<1>9. Activations' = [x \in {y \in DOMAIN Activations : y <= p} |-> Activations[x]]
  <2>1. Activations' = [x \in {y \in 1..j : IsActivation(mem[y])} |-> ActivationOf(mem[x])]
    BY <1>1, <1>4 DEF Activations, IsActivation, ActivationOf
  <2>2. \A x \in {y \in DOMAIN Activations : y <= p} : Activations[x] = ActivationOf(mem[x])
    BY DEF Activations
  <2> QED BY <1>8, <2>1, <2>2
<1>10. Promise!Longjmp
  BY <1>5, <1>7, <1>9 DEF Promise!Longjmp
<1>11. pc \notin Stopped /\ pc' \notin Stopped
  BY <1>1 DEF Stopped
<1> QED BY <1>10, <1>11 DEF PromiseStep, Promise!Next

LEMMA GuestStep ==
  ASSUME LoopInv, Guest
  PROVE  PromiseStep
<1>1. ASSUME NEW num \in {"ctor", "dtor", "call"}, NEW q \in Qlib, GuestRequest(num, q)
      PROVE  PromiseStep
  <2>1. CpuInv /\ pc = "cpu" /\ pc' = "signals" /\ env'.sp = env.sp + 1
        /\ mem' = [mem EXCEPT ![env.sp + 1] = Frame("stub", env', "open")]
    BY <1>1, AtCpu DEF GuestRequest, At
  <2>2. env.sp + 1 <= StackSize
    BY <1>1, <2>1, LoopAssumption DEF GuestRequest, Room, CpuInv
  <2>3. PICK f : f = Frame("stub", env', "open")
    OBVIOUS
  <2>4. f.kind = "stub" /\ mem' = [mem EXCEPT ![env.sp + 1] = f]
    BY <2>1, <2>3 DEF Frame
  <2>5. mem'[env.sp + 1].kind = "stub" /\ \A i \in 1..env.sp : mem'[i] = mem[i]
    BY <2>1, <2>2, <2>4, LoopAssumption DEF CpuInv, TypeOK
  <2> QED BY <2>1, <2>2, <2>5, DetailPushed
<1>2. CASE GuestStubReturn
  <2>1. CpuInv
    BY <1>2, AtCpu DEF GuestStubReturn
  <2>2. mem[env.sp].kind = "stub"
    BY <1>2, <2>1 DEF GuestStubReturn, CpuInv, RegsFit
  <2> QED BY <1>2, <2>1, <2>2, DetailPopped DEF GuestStubReturn, At
<1>3. CASE GuestCallbackEntry
  <2>1. CpuInv /\ pc = "cpu" /\ pc' = "cpu" /\ env'.sp = env.sp + 1
        /\ mem' = [mem EXCEPT ![env.sp + 1] = Frame("cb", env, "open")] /\ env.sp + 1 <= StackSize
    BY <1>3, AtCpu DEF GuestCallbackEntry, At, Room
  <2>2. PICK f : f = Frame("cb", env, "open")
    OBVIOUS
  <2>3. f.kind = "cb" /\ mem' = [mem EXCEPT ![env.sp + 1] = f]
    BY <2>1, <2>2 DEF Frame
  <2>4. mem'[env.sp + 1].kind = "cb" /\ \A i \in 1..env.sp : mem'[i] = mem[i]
    BY <2>1, <2>3, LoopAssumption DEF CpuInv, TypeOK
  <2> QED BY <2>1, <2>4, DetailPushed
<1>4. CASE GuestCallbackDone
  BY <1>4, AtCpu, DetailPopped DEF GuestCallbackDone, At
<1>5. CASE GuestTrap \/ GuestExit
  <2>1. pc \notin Stopped /\ mem' = mem /\ Top' = Top
    BY <1>5 DEF GuestTrap, GuestExit, Stopped, Top
  <2> QED BY <2>1, StillStep DEF LoopInv
<1> QED BY <1>1, <1>2, <1>3, <1>4, <1>5, SigreturnStep, LongjmpStep DEF Guest

LEMMA SignalStep ==
  ASSUME LoopInv, process_pending_signals
  PROVE  PromiseStep
<1>1. pc = "signals" /\ TypeOK /\ ~torn /\ pc \notin Stopped
  BY DEF process_pending_signals, LoopInv, Doomed, Stopped, TypeOK
<1>2. /\ PlaceFits /\ env.sp \in 1..StackSize /\ \A i \in 1..env.sp : FrameFits(i)
  BY <1>1, Sound
<1>3. CASE ~(Deliver /\ Room(1))
  <2>1. mem' = mem /\ Top' = Top
    BY <1>1, <1>3 DEF process_pending_signals, Top
  <2> QED BY <1>1, <2>1, StillStep
<1>4. CASE Deliver /\ Room(1)
  <2>1. PICK n \in 1..StackSize : n = env.sp /\ n \in Nat /\ n + 1 \in 1..StackSize
    BY <1>1, <1>2, <1>4, LoopAssumption DEF Room
  <2>2. PICK f : f = Frame("sig", env, gmask)
    OBVIOUS
  <2>3. mem' = [mem EXCEPT ![n + 1] = f] /\ env'.sp = n + 1 /\ pc' = "dispatch"
    BY <1>4, <2>1, <2>2 DEF process_pending_signals, At
  <2>4. mem'[n + 1].kind = "sig" /\ \A i \in 1..n : mem'[i] = mem[i]
    <3>1. f.kind = "sig"
      BY <2>2 DEF Frame
    <3> QED BY <1>1, <2>1, <2>3, <3>1 DEF TypeOK
  <2>5. Top = n /\ Top' = n + 1 /\ n \in Addr /\ n + 1 \in Addr /\ n + 1 \in 1..(n + 1)
    BY <1>1, <2>1, <2>3, AddrNumbers, LoopAssumption DEF Top
  <2>6. mem[n].kind # "host"
    BY <1>1, <1>2, <2>1 DEF PlaceFits, RegsFit, At, GuestFrame, CallbackSlot
  <2>7. Promise!Runs(Promise!InGuest)
    BY <1>2, <2>1, <2>5, <2>6, GuestRuns
  <2>8. /\ KeptUpto(n) /\ IsActivation(mem'[n + 1]) /\ ActivationOf(mem'[n + 1]) = Promise!Handler
        /\ \A i \in 1..(n + 1) : i > n /\ i # n + 1 => ~IsActivation(mem'[i])
    BY <2>1, <2>4 DEF KeptUpto, IsActivation, ActivationOf, Promise!Handler
  <2>9. Promise!Push(Promise!Handler)
    BY <2>5, <2>8, PushStep
  <2>10. pc' \notin Stopped
    BY <2>3 DEF Stopped
  <2> QED BY <1>1, <2>7, <2>9, <2>10 DEF PromiseStep, Promise!Next, Promise!Signal
<1> QED BY <1>3, <1>4

(* gyh_callback_return pops at most the return address of x86_64.          *)
LEMMA DispatchStep ==
  ASSUME LoopInv, Dispatch
  PROVE  PromiseStep
<1>1. pc = "dispatch" /\ mem' = mem /\ TypeOK /\ torn \in BOOLEAN
  BY DEF Dispatch, DispatchNone, DispatchCtor, DispatchDtor, gyh_call, gyh_callback_return, LoopInv, TypeOK
<1>2. CASE env'.sp = env.sp
  <2>1. Top' = Top /\ pc \notin Stopped
    BY <1>1, <1>2 DEF Dispatch, DispatchNone, DispatchCtor, DispatchDtor, gyh_call,
                      gyh_callback_return, Top, Stopped
  <2> QED BY <1>1, <2>1, StillStep
<1>3. CASE env'.sp # env.sp
  <2>1. gyh_callback_return
    BY <1>3 DEF Dispatch, DispatchNone, DispatchCtor, DispatchDtor, gyh_call
  <2>2. env' = AfterRet /\ pc' \in {"loop", "abort"}
    BY <2>1 DEF gyh_callback_return
  <2>3. mem[env.sp].kind = "ret" /\ env'.sp = env.sp - 1
    BY <1>3, <2>2 DEF AfterRet, At
  <2>4. ~torn
    BY <1>1, <2>3 DEF LoopInv, Doomed, Stopped
  <2>5. PICK n \in 1..StackSize : n = env.sp /\ n \in Nat /\ n - 1 \in Addr /\ n \in Addr
    BY <1>1, <2>4, Sound, AddrNumbers, LoopAssumption
  <2>6. Top = n /\ Top' = n - 1
    BY <1>1, <2>2, <2>3, <2>5 DEF Top
  <2>7. KeptUpto(n - 1) /\ PlainAfter(n - 1, n)
    BY <1>1, <2>3, <2>5 DEF KeptUpto, PlainAfter, IsActivation
  <2> QED BY <1>1, <2>5, <2>6, <2>7, ShrinksPlain, SameStep DEF Stopped
<1> QED BY <1>2, <1>3

LEMMA DoCallStep ==
  ASSUME LoopInv, gyh_do_call
  PROVE  PromiseStep
<1>1. pc = "loop" /\ ctx_to.to = "do_call" /\ env' = env /\ TypeOK /\ pc \notin Stopped
  BY DEF gyh_do_call, LoopInv, Stopped
<1>2. CASE pc' # "host" /\ mem' = mem
  <2>1. Top' = Top
    BY <1>1, <1>2 DEF Top
  <2> QED BY <1>1, <1>2, <2>1, StillStep
<1>3. CASE /\ ctx_to.arg \in registered /\ pc' = "host" /\ hsp' = ctx_to.at + 1
           /\ mem' = [mem EXCEPT ![ctx_to.at + 1] =
                        Frame("host", At(env.pc, env.lr, 0, ctx_to.arg), "open")]
  <2>1. ~torn /\ ctx_to.arg \in Qlib
    <3>1. ctx_to.arg \in Qlib
      BY <1>1, <1>3 DEF TypeOK
    <3>2. ctx_to.arg # Junk
      BY <3>1, JunkAssumption
    <3> QED BY <1>1, <3>1, <3>2 DEF LoopInv, Doomed, Stopped
  <2>2. PlaceFits /\ FramesFit
    BY <1>1, <2>1 DEF LoopInv, Stopped
  <2>3. RegsFit(env) /\ env.pc = "stub" /\ ctx_to.at = env.sp /\ env.sp + 1 <= StackSize
    BY <1>1, <2>2 DEF PlaceFits, Room
  <2>4. PICK n \in 1..StackSize : n = env.sp /\ n \in Nat /\ n + 1 \in 1..StackSize /\ mem[n].kind = "stub"
    BY <2>3, LoopAssumption DEF RegsFit
  <2>5. PICK f : f = Frame("host", At(env.pc, env.lr, 0, ctx_to.arg), "open")
    OBVIOUS
  <2>6. f.kind = "host" /\ f.arg = ctx_to.arg
    BY <2>5 DEF Frame, At
  <2>7. mem' = [mem EXCEPT ![n + 1] = f] /\ Top = n /\ Top' = n + 1
    BY <1>1, <1>3, <2>3, <2>4, <2>5 DEF Top
  <2>8. mem'[n + 1] = f /\ \A i \in 1..n : mem'[i] = mem[i]
    BY <1>1, <2>4, <2>7 DEF TypeOK
  <2>9. n \in Addr /\ n + 1 \in Addr /\ n + 1 \in 1..(n + 1)
    BY <2>4, AddrNumbers, LoopAssumption
  <2>10. Promise!Runs(Promise!InGuest)
    BY <2>2, <2>4, <2>7, GuestRuns DEF FramesFit
  <2>11. PICK q \in Qlib : q = ctx_to.arg
    BY <2>1
  <2>12. /\ KeptUpto(n) /\ IsActivation(mem'[n + 1]) /\ ActivationOf(mem'[n + 1]) = Promise!HostFn(q)
         /\ \A i \in 1..(n + 1) : i > n /\ i # n + 1 => ~IsActivation(mem'[i])
    BY <2>4, <2>6, <2>8, <2>11 DEF KeptUpto, IsActivation, ActivationOf, Promise!HostFn
  <2>13. Promise!Push(Promise!HostFn(q))
    BY <2>7, <2>9, <2>12, PushStep
  <2>14. pc' \notin Stopped
    BY <1>3 DEF Stopped
  <2> QED BY <1>1, <2>10, <2>13, <2>14 DEF PromiseStep, Promise!Next, Promise!Call
<1> QED BY <1>2, <1>3 DEF gyh_do_call

LEMMA ResumeStep ==
  ASSUME LoopInv, ResumeCallback
  PROVE  PromiseStep
<1>1. pc = "loop" /\ ctx_to.to = "callback" /\ mem' = mem /\ TypeOK /\ pc \notin Stopped
  BY DEF ResumeCallback, LoopInv, Stopped
<1>2. CASE mem[ctx_to.at].kind # "ctx"
  <2>1. Top' = Top
    BY <1>1, <1>2 DEF ResumeCallback, Top
  <2> QED BY <1>1, <2>1, StillStep
<1>3. CASE mem[ctx_to.at].kind = "ctx"
  <2>1. ~torn
    BY <1>1, <1>3 DEF LoopInv, Doomed, Stopped
  <2>2. PlaceFits /\ FramesFit
    BY <1>1, <2>1 DEF LoopInv, Stopped
  <2>3. env.sp \in 1..StackSize /\ ctx_to.at = env.sp
    BY <1>1, <2>2 DEF PlaceFits
  <2>4. PICK n \in 1..StackSize : n = env.sp /\ n \in Nat /\ mem[n].kind = "ctx"
    BY <1>3, <2>3, LoopAssumption
  <2>5. Top = n /\ \A i \in 1..n : FrameFits(i)
    BY <1>1, <2>2, <2>4 DEF Top, FramesFit
  <2>6. n > 2 /\ mem[n].sp = n - 1
    <3>1. FrameFits(n)
      BY <2>4, <2>5
    <3> QED BY <2>4, <3>1 DEF FrameFits
  <2>7. pc' = "host" /\ hsp' = n - 1
    BY <1>3, <2>3, <2>4, <2>6 DEF ResumeCallback
  <2>8. Top' = n - 1 /\ n \in Addr /\ n - 1 \in Addr /\ 1 \in 1..(n - 1) /\ n \in 1..n
    BY <2>4, <2>6, <2>7, AddrNumbers, LoopAssumption DEF Top
  <2>9. KeptUpto(n - 1) /\ \A i \in 1..n : i > n - 1 /\ i # n => ~IsActivation(mem[i])
    BY <1>1, <2>4 DEF KeptUpto
  <2>10. IsActivation(mem[n]) /\ ActivationOf(mem[n]) \in {Promise!Guest} /\ IsActivation(mem[1])
    BY <2>4, <2>5, MainFirst DEF IsActivation, ActivationOf, Promise!Guest
  <2>11. Promise!Pop({Promise!Guest})
    BY <2>5, <2>8, <2>9, <2>10, PopStep
  <2>12. pc' \notin Stopped
    BY <2>7 DEF Stopped
  <2> QED BY <1>1, <2>11, <2>12 DEF PromiseStep, Promise!Next, Promise!CallbackReturn
<1> QED BY <1>2, <1>3

(* __gyh_callback__ puts its context on the host frame, and the return address
   of x86_64 on that; the frames above stay what they are.                 *)
LEMMA CallbackCells ==
  ASSUME LoopInv, __gyh_callback__
  PROVE  /\ pc = "host" /\ pc' = "cpu" /\ HostInv /\ hsp + 3 <= StackSize
         /\ env'.sp = (IF Arch = "x86_64" THEN hsp + 2 ELSE hsp + 1)
         /\ mem'[hsp + 1].kind = "ctx" /\ (Arch = "x86_64" => mem'[hsp + 2].kind = "ret")
         /\ KeptUpto(hsp)
<1>1. pc = "host" /\ HostInv
  BY AtHost DEF __gyh_callback__
<1>2. pc' = "cpu" /\ hsp + 3 <= StackSize /\ cbFunc' = cbFunc
      /\ env' = IF Arch = "x86_64" THEN At(cbFunc, env.lr, hsp + 2, Junk)
                ELSE At(cbFunc, env.pc, hsp + 1, Junk)
  BY <1>1 DEF __gyh_callback__, HostInv, ToCpu, BelowHost, Room, moduleVars
<1>3. env'.sp = (IF Arch = "x86_64" THEN hsp + 2 ELSE hsp + 1) /\ env'.pc = "cbFunc"
  BY <1>1, <1>2 DEF At, HostInv
<1>4. PICK n \in 2..StackSize : n = hsp
  BY <1>1 DEF HostInv
<1>5. CpuInv'
  <2>1. LoopInv'
    BY CallbackInv
  <2>2. (LoopInv /\ pc = "cpu" => CpuInv)'
    BY AtCpu, PTL
  <2> QED BY <1>2, <2>1, <2>2
<1>6. mem'[n + 1].kind = "ctx" /\ (Arch = "x86_64" => mem'[n + 2].kind = "ret")
  <2>1. mem'[env'.sp].kind = CallbackSlot
    BY <1>3, <1>5 DEF CpuInv, RegsFit
  <2>2. CASE Arch = "x86_64"
    <3>1. n + 2 \in 1..env'.sp /\ n + 2 = env'.sp /\ (n + 2) - 1 = n + 1
      BY <1>3, <1>4, <2>2, LoopAssumption
    <3>2. FrameFits(n + 2)'
      BY <1>5, <3>1 DEF CpuInv
    <3> QED BY <2>1, <2>2, <3>1, <3>2 DEF FrameFits, CallbackSlot
  <2>3. CASE Arch # "x86_64"
    BY <1>3, <1>4, <2>1, <2>3 DEF CallbackSlot
  <2> QED BY <2>2, <2>3
<1>7. KeptUpto(n)
  <2>1. KeepsLiveFrames /\ Top = n /\ Top' = env'.sp
    BY <1>1, <1>2, <1>4, KeepsLiveFramesStep DEF Next, Host, Top
  <2> SUFFICES ASSUME NEW i \in 1..n
               PROVE  mem'[i].kind = mem[i].kind /\ mem'[i].arg = mem[i].arg
    BY DEF KeptUpto
  <2>2. i \in 1..StackSize /\ i <= Top /\ i <= Top'
    BY <1>3, <1>4, <2>1, LoopAssumption
  <2>3. mem[i] \in Cell
    BY <1>1, <2>2 DEF HostInv, TypeOK
  <2>4. mem'[i] = mem[i] \/ mem'[i] = [mem[i] EXCEPT !.sp = env.sp]
    BY <2>1, <2>2 DEF KeepsLiveFrames
  <2> QED BY <2>3, <2>4 DEF Cell
<1> QED BY <1>1, <1>2, <1>3, <1>4, <1>6, <1>7

LEMMA CallbackStep ==
  ASSUME LoopInv, __gyh_callback__
  PROVE  PromiseStep
<1>1. PICK n \in 2..StackSize : n = hsp /\ n \in Nat /\ n + 3 <= StackSize
  BY CallbackCells, LoopAssumption DEF HostInv
<1>2. PICK k \in Addr : k = env'.sp /\ k = IF Arch = "x86_64" THEN n + 2 ELSE n + 1
  <2>1. env'.sp = IF Arch = "x86_64" THEN n + 2 ELSE n + 1
    BY <1>1, CallbackCells
  <2>2. n + 1 \in Addr /\ n + 2 \in Addr
    BY <1>1, LoopAssumption DEF Addr
  <2> QED BY <2>1, <2>2
<1>3. Top = n /\ Top' = k /\ n \in Addr /\ n + 1 \in 1..k
  BY <1>1, <1>2, CallbackCells, AddrNumbers DEF Top
<1>4. Promise!Runs(Promise!InHost)
  <2>1. mem[n].kind = "host" /\ mem[n].arg \in Qlib
    BY <1>1, CallbackCells DEF HostInv, HostServesCaller
  <2>2. n \in DOMAIN Activations /\ Activations[n] \in Promise!InHost
    BY <1>1, <1>3, <2>1 DEF Activations, IsActivation, ActivationOf, Promise!InHost, Promise!HostFn
  <2>3. \A x \in DOMAIN Activations : x <= n
    BY <1>1, <1>3 DEF Activations
  <2> QED BY <2>2, <2>3 DEF Promise!Runs, Promise!Innermost
<1>5. /\ KeptUpto(n) /\ IsActivation(mem'[n + 1]) /\ ActivationOf(mem'[n + 1]) = Promise!Guest
      /\ \A i \in 1..k : i > n /\ i # n + 1 => ~IsActivation(mem'[i])
  <2>1. mem'[n + 1].kind = "ctx" /\ (Arch = "x86_64" => mem'[n + 2].kind = "ret") /\ KeptUpto(n)
    BY <1>1, CallbackCells
  <2>2. \A i \in 1..k : i > n /\ i # n + 1 => i = n + 2 /\ Arch = "x86_64"
    BY <1>1, <1>2
  <2> QED BY <2>1, <2>2 DEF IsActivation, ActivationOf, Promise!Guest
<1>6. Promise!Push(Promise!Guest)
  BY <1>1, <1>3, <1>5, PushStep
<1>7. pc \notin Stopped /\ pc' \notin Stopped
  BY CallbackCells DEF Stopped
<1> QED BY <1>4, <1>6, <1>7 DEF PromiseStep, Promise!Next, Promise!Callback

LEMMA HostReturnStep ==
  ASSUME LoopInv, HostReturn
  PROVE  PromiseStep
<1>1. HostInv /\ pc = "host" /\ pc' = "cpu" /\ mem' = mem /\ env' = env
  BY AtHost DEF HostReturn, ToCpu
<1>2. PICK n \in 2..StackSize : n = hsp /\ n \in Nat /\ n - 1 \in 1..StackSize
  BY <1>1, LoopAssumption DEF HostInv
<1>3. env.sp = n - 1 /\ mem[n].kind = "host" /\ mem[n].arg \in Qlib /\ mem[n - 1].kind = "stub"
  BY <1>1, <1>2 DEF HostInv, HostServesCaller
<1>4. Top = n /\ Top' = n - 1 /\ n \in Addr /\ n - 1 \in Addr /\ 1 \in 1..(n - 1) /\ n \in 1..n
  BY <1>1, <1>2, <1>3, AddrNumbers, LoopAssumption DEF Top
<1>5. KeptUpto(n - 1) /\ \A i \in 1..n : i > n - 1 /\ i # n => ~IsActivation(mem[i])
  BY <1>1, <1>2 DEF KeptUpto
<1>6. IsActivation(mem[n]) /\ ActivationOf(mem[n]) \in Promise!InHost
  BY <1>3 DEF IsActivation, ActivationOf, Promise!InHost, Promise!HostFn
<1>7. IsActivation(mem[1])
  <2>1. n \in 1..StackSize /\ \A i \in 1..n : FrameFits(i)
    BY <1>1, <1>2 DEF HostInv
  <2> QED BY <2>1, MainFirst
<1>8. Promise!Pop(Promise!InHost)
  BY <1>4, <1>5, <1>6, <1>7, PopStep
<1>9. pc \notin Stopped /\ pc' \notin Stopped
  BY <1>1 DEF Stopped
<1> QED BY <1>8, <1>9 DEF PromiseStep, Promise!Next, Promise!Return

(* Every step of the loop is a step of OffloadStack, or changes nothing there. *)
LEMMA NextStep == LoopInv /\ [Next]_vars => PromiseStep
<1> SUFFICES ASSUME LoopInv, [Next]_vars PROVE PromiseStep
  OBVIOUS
<1>1. CASE Raise \/ LoopEmulate
  <2>1. TypeOK /\ pc \notin Stopped /\ mem' = mem /\ Top' = Top
    BY <1>1 DEF Raise, LoopEmulate, ToCpu, contextVars, LoopInv, Top, Stopped
  <2> QED BY <2>1, StillStep
<1>2. CASE UNCHANGED vars
  <2>1. pc' = pc /\ mem' = mem /\ env' = env /\ hsp' = hsp
    BY <1>2 DEF vars
  <2>2. Activations' = Activations
    BY <2>1 DEF Activations, Top, IsActivation, ActivationOf
  <2> QED BY <2>1, <2>2 DEF PromiseStep, Promise!vars
<1> QED BY <1>1, <1>2, GuestStep, SignalStep, DispatchStep, DoCallStep, ResumeStep, CallbackStep,
           HostReturnStep DEF Next, Switch, Host, Ended

LEMMA InitStep == Init => Promise!Init
<1> SUFFICES ASSUME Init PROVE Promise!Init
  OBVIOUS
<1>1. pc \notin Stopped /\ Top = 1 /\ 1 \in 1..StackSize
  BY LoopAssumption DEF Init, Stopped, Top, At
<1>2. mem[1].kind = "main"
  BY <1>1 DEF Init, Frame
<1>3. {j \in 1..1 : IsActivation(mem[j])} = {1} /\ ActivationOf(mem[1]) = Promise!Guest
  BY <1>2 DEF IsActivation, ActivationOf, Promise!Guest
<1>4. Activations = [x \in {1} |-> Promise!Guest]
  BY <1>1, <1>3 DEF Activations
<1> QED BY <1>1, <1>4 DEF Promise!Init

(* Offloading is invisible in the control flow: the emulation loop with its
   guest stubs, contexts and signal frames implements OffloadStack, in which
   host functions, callbacks and signal handlers nest like the calls of one
   program.  The requests that a signal frame tore apart are no exception:
   they change no activation before they abort or go astray.               *)
THEOREM LoopImplementsPromise == Spec => ImplementsOffloadStack
<1>1. LoopInv /\ [Next]_vars => [Promise!Next]_(Promise!vars)
  BY NextStep DEF PromiseStep
<1> QED BY <1>1, InitStep, LoopInvariant, PTL DEF Spec, ImplementsOffloadStack, Promise!Spec

-----------------------------------------------------------------------------
(* The counters of callbacks.                                              *)

LEMMA ContextsFinite == TypeOK => IsFiniteSet(SavedContexts) /\ Cardinality(SavedContexts) \in Nat
<1> SUFFICES ASSUME TypeOK PROVE IsFiniteSet(SavedContexts)
  BY FS_CardinalityType
<1>1. Top \in Int
  BY TopTypes, AddrNumbers
<1>2. IsFiniteSet(1..Top)
  BY <1>1, FS_Interval
<1>3. SavedContexts \subseteq 1..Top
  BY DEF SavedContexts
<1> QED BY <1>2, <1>3, FS_Subset

(* What a step has of the types after it.                                  *)
LEMMA AfterStep ==
  ASSUME LoopInv, [Next]_vars
  PROVE  /\ TypeOK /\ TypeOK' /\ Top \in Addr /\ Top' \in Addr /\ KeepsLiveFrames
         /\ IsFiniteSet(SavedContexts) /\ Cardinality(SavedContexts) \in Nat
         /\ Cardinality(SavedContexts)' \in Nat
<1>1. LoopInv' /\ TypeOK
  BY NextInv DEF LoopInv
<1>2. TypeOK'
  BY <1>1 DEF LoopInv
<1>3. (TypeOK => Top \in Addr)' /\ (TypeOK => Cardinality(SavedContexts) \in Nat)'
  BY TopTypes, ContextsFinite, PTL
<1> QED BY <1>1, <1>2, <1>3, TopTypes, ContextsFinite, KeepsLiveFramesStep

(* The contexts after a step, but for those it saves, were there before.   *)
LEMMA ContextsKept ==
  ASSUME LoopInv, [Next]_vars, NEW X, \A i \in 1..Top' : i > Top /\ mem'[i].kind = "ctx" => i \in X
  PROVE  SavedContexts' \subseteq SavedContexts \cup X
<1> SUFFICES ASSUME NEW i \in 1..Top', mem'[i].kind = "ctx", i \notin X
             PROVE  i \in SavedContexts
  BY DEF SavedContexts
<1>1. PICK n \in Nat : n = Top /\ n <= StackSize
  BY AfterStep, AddrNumbers
<1>2. PICK k \in Nat : k = Top' /\ k <= StackSize
  BY AfterStep, AddrNumbers
<1>3. i \in 1..n /\ i \in 1..StackSize /\ i <= Top /\ i <= Top'
  BY <1>1, <1>2, LoopAssumption
<1>4. mem[i] \in Cell
  BY <1>3, AfterStep DEF TypeOK
<1>5. mem'[i] = mem[i] \/ mem'[i] = [mem[i] EXCEPT !.sp = env.sp]
  BY <1>3, AfterStep DEF KeepsLiveFrames
<1>6. mem[i].kind = "ctx"
  BY <1>4, <1>5 DEF Cell
<1> QED BY <1>1, <1>3, <1>6 DEF SavedContexts

(* A step that saves no context and leaves the counters of callbacks.      *)
LEMMA AccountKept ==
  ASSUME LoopInv, [Next]_vars, CallbacksAccounted, torn => torn',
         \A i \in 1..Top' : i > Top => mem'[i].kind # "ctx",
         count'.callbacks = count.callbacks, count'.callback_returns = count.callback_returns,
         ctx_to.to = "callback" => ctx_to'.to = "callback"
  PROVE  CallbacksAccounted'
<1>1. SavedContexts' \subseteq SavedContexts \cup {}
  BY ContextsKept
<1>2. Cardinality(SavedContexts)' <= Cardinality(SavedContexts)
  BY <1>1, AfterStep, FS_Subset
<1>3. count.callbacks \in Nat /\ count.callback_returns \in Nat
  BY AfterStep DEF TypeOK
<1>4. PICK c, d \in Nat : c = Cardinality(SavedContexts) /\ d = Cardinality(SavedContexts)'
  BY AfterStep
<1> QED BY <1>2, <1>3, <1>4 DEF CallbacksAccounted

(* Guest code saves no context: its stubs push frames of their own.        *)
LEMMA GuestAccount ==
  ASSUME LoopInv, Guest, CallbacksAccounted
  PROVE  CallbacksAccounted'
<1>1. CpuInv /\ pc = "cpu" /\ pc' # "host" /\ count' = count /\ ctx_to' = ctx_to /\ torn' = torn
  BY AtCpu DEF Guest, GuestRequest, GuestStubReturn, GuestCallbackEntry, GuestCallbackDone, GuestTrap,
               GuestSigreturn, GuestLongjmp, GuestExit, contextVars
<1>2. PICK n \in 1..StackSize : n = env.sp /\ n \in Nat /\ Top = n /\ Top' = env'.sp
  BY <1>1, LoopAssumption DEF CpuInv, Top
<1>3. \A i \in 1..env'.sp : i > n => mem'[i].kind # "ctx"
  <2>1. ASSUME NEW num \in {"ctor", "dtor", "call"}, NEW q \in Qlib, GuestRequest(num, q)
        PROVE  \A i \in 1..env'.sp : i > n => mem'[i].kind # "ctx"
    <3>1. env'.sp = n + 1 /\ mem' = [mem EXCEPT ![n + 1] = Frame("stub", env', "open")]
      BY <1>2, <2>1 DEF GuestRequest, At
    <3>2. PICK f : f = Frame("stub", env', "open")
      OBVIOUS
    <3>3. f.kind = "stub" /\ n + 1 \in 1..StackSize
      <4>1. n + 2 <= StackSize
        BY <1>1, <1>2, <2>1 DEF GuestRequest, Room
      <4>2. n + 1 \in 1..StackSize
        BY <1>2, <4>1, LoopAssumption
      <4> QED BY <3>2, <4>2 DEF Frame
    <3>4. mem'[n + 1].kind = "stub"
      BY <1>1, <3>1, <3>2, <3>3 DEF CpuInv, TypeOK
    <3> QED BY <1>2, <3>1, <3>4
  <2>2. CASE GuestCallbackEntry
    <3>1. env'.sp = n + 1 /\ mem' = [mem EXCEPT ![n + 1] = Frame("cb", env, "open")]
      BY <1>2, <2>2 DEF GuestCallbackEntry, At
    <3>2. PICK f : f = Frame("cb", env, "open")
      OBVIOUS
    <3>3. f.kind = "cb" /\ n + 1 \in 1..StackSize
      <4>1. n + 1 <= StackSize
        BY <1>1, <1>2, <2>2 DEF GuestCallbackEntry, Room
      <4>2. n + 1 \in 1..StackSize
        BY <1>2, <4>1, LoopAssumption
      <4> QED BY <3>2, <4>2 DEF Frame
    <3>4. mem'[n + 1].kind = "cb"
      BY <1>1, <3>1, <3>2, <3>3 DEF CpuInv, TypeOK
    <3> QED BY <1>2, <3>1, <3>4
  <2>3. CASE GuestStubReturn \/ GuestCallbackDone
    <3>1. env'.sp \in {n, n - 1}
      BY <1>2, <2>3 DEF GuestStubReturn, GuestCallbackDone, At
    <3> QED BY <1>2, <3>1
  <2>4. CASE GuestTrap \/ GuestExit
    BY <1>2, <2>4 DEF GuestTrap, GuestExit
  <2>5. CASE GuestSigreturn
    <3>1. env'.sp = mem[n].sp /\ mem[n].kind = "sig" /\ FrameFits(n)
      BY <1>1, <1>2, <2>5 DEF GuestSigreturn, At, CpuInv
    <3>2. mem[n].sp = n - 1
      BY <3>1 DEF FrameFits
    <3> QED BY <1>2, <3>1, <3>2
  <2>6. CASE GuestLongjmp
    <3>1. env'.sp \in 1..(n - 1)
      BY <1>2, <2>6 DEF GuestLongjmp, At
    <3> QED BY <1>2, <3>1
  <2> QED BY <2>1, <2>2, <2>3, <2>4, <2>5, <2>6 DEF Guest
<1>4. [Next]_vars /\ \A i \in 1..Top' : i > Top => mem'[i].kind # "ctx"
  BY <1>2, <1>3 DEF Next
<1> QED BY <1>1, <1>4, AccountKept

LEMMA SignalsAccount ==
  ASSUME LoopInv, process_pending_signals, CallbacksAccounted
  PROVE  CallbacksAccounted'
<1>1. /\ pc = "signals" /\ pc' # "host" /\ count' = count /\ ctx_to' = ctx_to /\ (torn => torn')
      /\ TypeOK /\ env.sp \in Addr
  BY TopTypes DEF process_pending_signals, contextVars, LoopInv
<1>2. PICK n \in Nat : n = env.sp /\ Top = n /\ Top' = env'.sp
  BY <1>1, AddrNumbers DEF Top
<1>3. \A i \in 1..env'.sp : i > n => mem'[i].kind # "ctx"
  <2>1. CASE Deliver /\ Room(1)
    <3>1. env'.sp = n + 1 /\ mem' = [mem EXCEPT ![n + 1] = Frame("sig", env, gmask)]
      BY <1>2, <2>1 DEF process_pending_signals, At
    <3>2. PICK f : f = Frame("sig", env, gmask)
      OBVIOUS
    <3>3. f.kind = "sig" /\ n + 1 \in 1..StackSize
      BY <1>1, <1>2, <2>1, <3>2, LoopAssumption DEF Frame, Room
    <3>4. mem'[n + 1].kind = "sig"
      BY <1>1, <3>1, <3>2, <3>3 DEF TypeOK
    <3> QED BY <1>2, <3>1, <3>4
  <2>2. CASE ~(Deliver /\ Room(1))
    BY <1>2, <2>2 DEF process_pending_signals
  <2> QED BY <2>1, <2>2
<1>4. [Next]_vars /\ \A i \in 1..Top' : i > Top => mem'[i].kind # "ctx"
  BY <1>2, <1>3 DEF Next
<1> QED BY <1>1, <1>4, AccountKept

LEMMA CountsKept ==
  ASSUME NEW c \in Counts
  PROVE  /\ CountSyscall(c).callbacks = c.callbacks
         /\ CountSyscall(c).callback_returns = c.callback_returns
         /\ [c EXCEPT !.calls = @ + 1].callbacks = c.callbacks
         /\ [c EXCEPT !.calls = @ + 1].callback_returns = c.callback_returns
         /\ [c EXCEPT !.callback_returns = @ + 1].callbacks = c.callbacks
         /\ [c EXCEPT !.callback_returns = @ + 1].callback_returns = c.callback_returns + 1
  BY DEF Counts, CountSyscall

(* The requests but for callback_return leave the counters of callbacks.   *)
LEMMA RequestAccount ==
  ASSUME LoopInv, DispatchNone \/ DispatchCtor \/ DispatchDtor \/ gyh_call, CallbacksAccounted
  PROVE  CallbacksAccounted'
<1>1. /\ TypeOK /\ pc = "dispatch" /\ pc' # "host" /\ env' = env /\ torn' = torn /\ count \in Counts
      /\ ctx_to = NULL
  BY DEF LoopInv, SwitchSlotFree, TypeOK, DispatchNone, DispatchCtor, DispatchDtor, gyh_call, Counts
<1>2. PICK d \in Counts : d = [count EXCEPT !.calls = @ + 1]
  BY <1>1, CountOK
<1>3. count' \in {count, CountSyscall(count), d, CountSyscall(d)}
  BY <1>2 DEF DispatchNone, DispatchCtor, DispatchDtor, gyh_call
<1>4. count'.callbacks = count.callbacks /\ count'.callback_returns = count.callback_returns
  <2>1. d.callbacks = count.callbacks /\ d.callback_returns = count.callback_returns
    BY <1>1, <1>2, CountsKept
  <2> QED BY <1>1, <1>2, <1>3, <2>1, CountsKept
<1>5. Top' = Top /\ Top \in Nat /\ [Next]_vars
  BY <1>1, TopTypes, AddrNumbers DEF Top, Next, Dispatch
<1>6. \A i \in 1..Top' : i > Top => mem'[i].kind # "ctx"
  BY <1>5
<1>7. ctx_to.to = "callback" => ctx_to'.to = "callback"
  BY <1>1 DEF NULL
<1> QED BY <1>1, <1>4, <1>5, <1>6, <1>7, AccountKept

(* gyh_callback_return counts the return while the context is still saved. *)
LEMMA ReturnAccount ==
  ASSUME LoopInv, gyh_callback_return, CallbacksAccounted
  PROVE  CallbacksAccounted'
<1>1. /\ TypeOK /\ pc = "dispatch" /\ pc' = "loop" /\ torn' = torn /\ count \in Counts
      /\ ctx_to = NULL /\ env' = AfterRet /\ env.sp \in Addr
  BY TopTypes DEF LoopInv, SwitchSlotFree, TypeOK, gyh_callback_return, Counts
<1>2. PICK n \in Nat : n = env.sp /\ Top = n /\ Top' = env'.sp /\ env'.sp \in {n, n - 1}
  BY <1>1, AddrNumbers DEF Top, AfterRet, At
<1>3. [Next]_vars /\ \A i \in 1..Top' : i > Top => mem'[i].kind # "ctx"
  BY <1>2 DEF Next, Dispatch
<1>4. SavedContexts' \subseteq SavedContexts \cup {}
  BY <1>3, ContextsKept
<1>5. Cardinality(SavedContexts)' <= Cardinality(SavedContexts)
  BY <1>3, <1>4, AfterStep, FS_Subset
<1>6. count'.callbacks = count.callbacks /\ count'.callback_returns = count.callback_returns + 1
  <2>1. PICK d \in Counts : d = [count EXCEPT !.callback_returns = @ + 1]
    BY <1>1, CountOK
  <2>2. count' = CountSyscall(d)
    BY <1>1, <2>1 DEF gyh_callback_return
  <2>3. d.callbacks = count.callbacks /\ d.callback_returns = count.callback_returns + 1
    BY <1>1, <2>1, CountsKept
  <2> QED BY <2>1, <2>2, <2>3, CountsKept
<1>7. ctx_to.to # "callback" /\ ctx_to'.to = "callback"
  BY <1>1 DEF NULL, gyh_callback_return
<1>8. count.callbacks \in Nat /\ count.callback_returns \in Nat
  BY <1>1 DEF Counts
<1>9. PICK c, d \in Nat : c = Cardinality(SavedContexts) /\ d = Cardinality(SavedContexts)'
  BY <1>3, AfterStep
<1> QED BY <1>1, <1>5, <1>6, <1>7, <1>8, <1>9 DEF CallbacksAccounted

(* gyh_do_call saves no context.                                           *)
LEMMA DoCallAccount ==
  ASSUME LoopInv, gyh_do_call, CallbacksAccounted
  PROVE  CallbacksAccounted'
<1>1. /\ TypeOK /\ pc = "loop" /\ env' = env /\ torn' = torn /\ count' = count
      /\ ctx_to.to = "do_call" /\ env.sp \in Addr /\ [Next]_vars
  BY TopTypes DEF LoopInv, gyh_do_call, Next, Switch
<1>2. PICK n \in Nat : n = env.sp /\ Top = n
  BY <1>1, AddrNumbers DEF Top
<1>3. \A i \in 1..Top' : i > Top => mem'[i].kind # "ctx"
  <2>1. CASE pc' # "host"
    BY <1>1, <1>2, <2>1 DEF Top
  <2>2. CASE pc' = "host"
    <3>1. HostInv'
      <4>1. (LoopInv /\ pc = "host" => HostInv)'
        BY AtHost, PTL
      <4>2. LoopInv'
        BY DoCallInv
      <4> QED BY <2>2, <4>1, <4>2
    <3>2. env'.sp = hsp' - 1 /\ mem'[hsp'].kind = "host" /\ hsp' \in 2..StackSize
      BY <2>2, <3>1 DEF HostInv, HostServesCaller
    <3>3. PICK k \in 2..StackSize : k = hsp' /\ n = k - 1 /\ Top' = k
      BY <1>1, <1>2, <2>2, <3>2 DEF Top
    <3>4. k \in Nat /\ n = k - 1
      BY <3>3, LoopAssumption
    <3>5. \A i \in 1..k : i > n => i = k
      BY <3>4
    <3> QED BY <1>2, <3>2, <3>3, <3>5
  <2> QED BY <2>1, <2>2
<1> QED BY <1>1, <1>3, AccountKept

(* The context that ResumeCallback resumes leaves the stack.               *)
LEMMA ResumeAccount ==
  ASSUME LoopInv, ResumeCallback, CallbacksAccounted
  PROVE  CallbacksAccounted'
<1>1. /\ TypeOK /\ pc = "loop" /\ ctx_to.to = "callback" /\ mem' = mem /\ count' = count /\ torn' = torn
      /\ [Next]_vars /\ env.sp \in Addr /\ pc \notin Stopped
  BY TopTypes DEF LoopInv, ResumeCallback, Next, Switch, Stopped
<1>2. PICK n \in Nat : n = env.sp /\ Top = n
  BY <1>1, AddrNumbers DEF Top
<1>3. CASE torn
  BY <1>1, <1>3 DEF CallbacksAccounted
<1>4. CASE ~torn
  <2>1. PlaceFits /\ FramesFit
    BY <1>1, <1>4 DEF LoopInv
  <2>2. env.sp \in 1..StackSize /\ ctx_to.at = env.sp /\ mem[n].kind = "ctx" /\ n \in 1..n
    <3>1. env.sp \in 1..StackSize /\ ctx_to.at = env.sp /\ mem[env.sp].kind = "ctx"
      BY <1>1, <2>1 DEF PlaceFits
    <3>2. n \in 1..n
      BY <1>2, <3>1
    <3> QED BY <1>2, <3>1, <3>2
  <2>3. FrameFits(n)
    BY <1>2, <2>1, <2>2 DEF FramesFit
  <2>4. n > 2 /\ mem[n].sp = n - 1
    BY <2>2, <2>3 DEF FrameFits
  <2>5. pc' = "host" /\ hsp' = n - 1 /\ ctx_to' = NULL
    BY <1>2, <2>2, <2>4 DEF ResumeCallback, Reset
  <2>6. SavedContexts' \subseteq SavedContexts \ {n}
    BY <1>1, <1>2, <2>4, <2>5 DEF SavedContexts, Top
  <2>7. n \in SavedContexts
    BY <1>2, <2>2 DEF SavedContexts
  <2>8. IsFiniteSet(SavedContexts \ {n}) /\ Cardinality(SavedContexts \ {n}) = Cardinality(SavedContexts) - 1
    BY <1>1, <2>7, AfterStep, FS_RemoveElement
  <2>9. Cardinality(SavedContexts)' <= Cardinality(SavedContexts) - 1
    BY <2>6, <2>8, FS_Subset
  <2>10. count.callbacks \in Nat /\ count.callback_returns \in Nat
    BY <1>1 DEF TypeOK
  <2>11. PICK c, d \in Nat : c = Cardinality(SavedContexts) /\ d = Cardinality(SavedContexts)'
    BY <1>1, AfterStep
  <2>12. ctx_to'.to # "callback"
    BY <2>5 DEF NULL
  <2> QED BY <1>1, <1>4, <2>9, <2>10, <2>11, <2>12 DEF CallbacksAccounted
<1> QED BY <1>3, <1>4

(* __gyh_callback__ counts the context it saves.                           *)
LEMMA CallbackAccount ==
  ASSUME LoopInv, __gyh_callback__, CallbacksAccounted
  PROVE  CallbacksAccounted'
<1>1. /\ HostInv /\ pc = "host" /\ pc' = "cpu" /\ ctx_to = NULL /\ ctx_to' = ctx_to /\ torn' = torn
      /\ count' = CountCallback(count) /\ [Next]_vars /\ TypeOK
  BY CallbackCells DEF HostInv, __gyh_callback__, contextVars, Next, Host
<1>2. PICK n \in Nat : n = hsp /\ Top = n /\ Top' = env'.sp
  BY <1>1, LoopAssumption DEF HostInv, Top
<1>3. \A i \in 1..Top' : i > Top /\ mem'[i].kind = "ctx" => i \in {n + 1}
  BY <1>2, CallbackCells
<1>4. SavedContexts' \subseteq SavedContexts \cup {n + 1}
  BY <1>1, <1>3, ContextsKept
<1>5. n + 1 \notin SavedContexts
  BY <1>2 DEF SavedContexts
<1>6. IsFiniteSet(SavedContexts \cup {n + 1})
      /\ Cardinality(SavedContexts \cup {n + 1}) = Cardinality(SavedContexts) + 1
  BY <1>1, <1>5, AfterStep, FS_AddElement
<1>7. Cardinality(SavedContexts)' <= Cardinality(SavedContexts) + 1
  BY <1>4, <1>6, FS_Subset
<1>8. count'.callbacks = count.callbacks + 1 /\ count'.callback_returns = count.callback_returns
  BY <1>1 DEF TypeOK, CountCallback
<1>9. count.callbacks \in Nat /\ count.callback_returns \in Nat
  BY <1>1 DEF TypeOK
<1>10. PICK c, d \in Nat : c = Cardinality(SavedContexts) /\ d = Cardinality(SavedContexts)'
  BY <1>1, AfterStep
<1> QED BY <1>1, <1>7, <1>8, <1>9, <1>10 DEF CallbacksAccounted

LEMMA AccountStep == LoopInv /\ CallbacksAccounted /\ [Next]_vars => CallbacksAccounted'
<1> SUFFICES ASSUME LoopInv, CallbacksAccounted, [Next]_vars PROVE CallbacksAccounted'
  OBVIOUS
<1>1. CASE Raise \/ LoopEmulate
  <2>1. TypeOK /\ Top' = Top /\ count' = count /\ ctx_to' = ctx_to /\ torn' = torn
    BY <1>1 DEF Raise, LoopEmulate, ToCpu, contextVars, LoopInv, Top
  <2>2. \A i \in 1..Top' : i > Top => mem'[i].kind # "ctx"
    BY <2>1, TopTypes, AddrNumbers
  <2> QED BY <2>1, <2>2, AccountKept
<1>2. CASE HostReturn
  <2>1. /\ HostInv /\ pc = "host" /\ pc' = "cpu" /\ env' = env /\ count' = count /\ ctx_to' = ctx_to
        /\ torn' = torn
    BY <1>2, AtHost DEF HostReturn, ToCpu, contextVars
  <2>2. PICK n \in Nat : n = hsp /\ Top = n /\ Top' = n - 1
    <3>1. hsp \in Nat
      BY <2>1, LoopAssumption DEF HostInv
    <3> QED BY <2>1, <3>1 DEF HostInv, HostServesCaller, Top
  <2>3. \A i \in 1..Top' : i > Top => mem'[i].kind # "ctx"
    BY <2>2
  <2> QED BY <2>1, <2>3, AccountKept
<1>3. CASE UNCHANGED vars
  <2>1. /\ pc' = pc /\ mem' = mem /\ env' = env /\ hsp' = hsp /\ count' = count /\ ctx_to' = ctx_to
        /\ torn' = torn
    BY <1>3 DEF vars
  <2>2. SavedContexts' = SavedContexts
    BY <2>1 DEF SavedContexts, Top
  <2> QED BY <2>1, <2>2 DEF CallbacksAccounted
<1> QED BY <1>1, <1>2, <1>3, GuestAccount, SignalsAccount, RequestAccount, ReturnAccount, DoCallAccount,
           ResumeAccount, CallbackAccount DEF Next, Dispatch, Switch, Host, Ended

(* The counters that gyh_atexit writes agree with the stack: the callbacks
   returned and the contexts still saved are at most the callbacks made, so no
   context of __gyh_callback__ is returned to twice.                       *)
THEOREM CallbacksAccountedAlways == Spec => []CallbacksAccounted
<1>1. Init => CallbacksAccounted
  <2> SUFFICES ASSUME Init PROVE CallbacksAccounted
    OBVIOUS
  <2>1. Top = 1 /\ mem[1].kind = "main"
    <3>1. Top = 1
      BY DEF Init, Top, At
    <3>2. 1 \in 1..StackSize
      BY LoopAssumption
    <3>3. mem[1] = Frame("main", env, "open")
      BY <3>2 DEF Init
    <3> QED BY <3>1, <3>3 DEF Frame
  <2>2. SavedContexts = {}
    BY <2>1 DEF SavedContexts
  <2>3. Cardinality(SavedContexts) = 0
    BY <2>2, FS_EmptySet
  <2>4. count.callbacks = 0 /\ count.callback_returns = 0 /\ ctx_to.to = "null"
    BY DEF Init, NULL
  <2> QED BY <2>3, <2>4 DEF CallbacksAccounted
<1> QED BY <1>1, AccountStep, LoopInvariant, PTL DEF Spec
=============================================================================
