---------------------------- MODULE GyhLoopProofs ----------------------------
(* Proofs about GyhLoop, for every architecture, every set of modules and
   every bound.                                                            *)
EXTENDS GyhLoop, TLAPS

USE LoopAssumption, JunkAssumption DEF Junk

(* A frame keeps its place as long as it and the cell above it are kept.   *)
LEMMA FramesKept ==
  ASSUME NEW n \in Addr, \A i \in 1..n : mem'[i] = mem[i] /\ FrameFits(i),
         cbFunc' \in {cbFunc, "cbFunc"}
  PROVE  \A i \in 1..n : FrameFits(i)'
  BY DEF FrameFits, RegsFit, Addr

(* A frame pushed on frames that fit.                                      *)
LEMMA FramePushed ==
  ASSUME env.sp \in 1..StackSize, env'.sp = env.sp + 1,
         \A i \in 1..env.sp : mem'[i] = mem[i] /\ FrameFits(i),
         FrameFits(env.sp)', cbFunc' \in {cbFunc, "cbFunc"}
  PROVE  \A i \in 1..env'.sp : FrameFits(i)'
  <1>1. \A i \in 1..env.sp : FrameFits(i)'
    BY FramesKept DEF Addr
  <1> QED
    BY <1>1

LEMMA InitInv == Init => LoopInv
  <1> SUFFICES ASSUME Init PROVE LoopInv
      OBVIOUS
  <1> USE DEF Init
  <1>1. env \in Regs /\ mem \in [1..StackSize -> Cell]
    BY DEF Frame, At, Regs, Cell, PC, Arg, Mask, HMask, Addr, Kind
  <1>2. count \in [syscalls: Nat, calls: Nat, callbacks: Nat, callback_returns: Nat]
    OBVIOUS
  <1>3. ctx_to \in Ctx /\ gyh_syscall \in [num: Num, arg: Arg]
    BY DEF NULL, Ctx, Num, Arg, Mask, HMask, Addr
  <1>4. TypeOK
    BY <1>1, <1>2, <1>3 DEF TypeOK, Where, Stopped, NULL, Ctx, Num, Arg, Mask, HMask, Addr
  <1>5. PlaceFits
    BY DEF PlaceFits, At, RegsFit, NULL, Frame, GuestFrame
  <1>6. FramesFit
    BY DEF FramesFit, FrameFits, Top, Frame, At
  <1> QED
    BY <1>4, <1>5, <1>6 DEF LoopInv, SwitchSlotFree, MasksFit, InForce, Stopped, NeverAstray, NULL

(* While the guest is emulated nothing is torn.                            *)
CpuInv ==
  /\ TypeOK /\ ~torn /\ RegsFit(env) /\ \A i \in 1..env.sp : FrameFits(i)
  /\ env.sp \in 1..StackSize /\ FrameFits(env.sp)
  /\ gyh_syscall.num = "none" /\ ctx_to = NULL /\ MasksFit
  /\ registered # {} => cbFunc = "cbFunc"

LEMMA AtCpu == LoopInv /\ pc = "cpu" => CpuInv
  <1> SUFFICES ASSUME LoopInv, pc = "cpu" PROVE CpuInv
    OBVIOUS
  <1>1. ~torn
    BY DEF LoopInv, Doomed, Stopped
  <1>2. PlaceFits /\ FramesFit
    BY <1>1 DEF LoopInv, Stopped
  <1>3. RegsFit(env) /\ gyh_syscall.num = "none"
    BY <1>2 DEF PlaceFits
  <1>4. env.sp \in 1..StackSize /\ \A i \in 1..env.sp : FrameFits(i)
    BY <1>2, <1>3 DEF RegsFit, FramesFit, Top
  <1> QED
    BY <1>1, <1>3, <1>4 DEF LoopInv, CpuInv, SwitchSlotFree

LEMMA GuestRequestInv ==
  ASSUME LoopInv, NEW num \in {"ctor", "dtor", "call"}, NEW q \in Qlib, GuestRequest(num, q)
  PROVE  LoopInv'
  <1>1. CpuInv
    BY AtCpu DEF GuestRequest
  <1>2. /\ pc = "cpu" /\ pc' = "signals" /\ gyh_syscall' = [num |-> num, arg |-> q]
        /\ UNCHANGED <<hsp, ctx_to, loop_ctx, cbFunc, registered, gmask, hmask, pending,
                       queued, raised, count, torn>>
    BY DEF GuestRequest, contextVars, moduleVars, signalVars
  <1>3. /\ env.sp + 1 \in 1..StackSize /\ env.sp + 2 \in 1..StackSize
        /\ mem[env.sp].kind \in GuestFrame
    BY <1>1 DEF GuestRequest, CpuInv, Room, RegsFit
  <1>4. /\ env' \in Regs /\ env'.sp = env.sp + 1 /\ env'.pc = "stub" /\ env'.arg = q
        /\ mem' \in [1..StackSize -> Cell]
        /\ mem'[env'.sp].kind = "stub" /\ mem'[env'.sp].arg = q
        /\ \A i \in 1..env.sp : mem'[i] = mem[i]
    BY SMTT(20), <1>1, <1>3 DEF GuestRequest, CpuInv, TypeOK, At, Frame, Regs, Cell, PC, Addr, Arg, Kind, Mask, HMask
  <1>5. TypeOK'
    BY <1>1, <1>2, <1>4 DEF CpuInv, TypeOK, Where, Num, Arg
  <1>6. FramesFit'
    <2>1. mem'[env'.sp - 1].kind \in GuestFrame /\ env'.sp > 1
      BY <1>1, <1>3, <1>4 DEF CpuInv
    <2>2. FrameFits(env.sp)'
      BY <1>4, <2>1 DEF FrameFits
    <2> QED
      BY <1>1, <1>2, <1>4, <2>2, FramePushed DEF FramesFit, Top, CpuInv
  <1>7. PlaceFits'
    <2>1. RegsFit(env)' /\ Room(1)'
      BY <1>1, <1>2, <1>3, <1>4 DEF CpuInv, RegsFit, Room
    <2> QED
      BY <1>2, <1>4, <2>1 DEF PlaceFits
  <1> QED
    BY <1>1, <1>2, <1>5, <1>6, <1>7 DEF CpuInv, LoopInv, SwitchSlotFree, MasksFit, InForce, Stopped, NeverAstray

LEMMA GuestStubReturnInv == LoopInv /\ GuestStubReturn => LoopInv'
  <1> SUFFICES ASSUME LoopInv, GuestStubReturn PROVE LoopInv'
      OBVIOUS
  <1> USE DEF GuestStubReturn, contextVars, moduleVars, signalVars
  <1>1. CpuInv
    BY AtCpu
  <1>2. mem[env.sp].kind = "stub"
    BY <1>1 DEF CpuInv, RegsFit
  <1>3. env.sp - 1 \in 1..StackSize /\ mem[env.sp - 1].kind \in GuestFrame
    BY <1>1, <1>2 DEF CpuInv, FrameFits
  <1>4. env' \in Regs /\ env'.pc = "code" /\ env'.sp = env.sp - 1
    BY <1>1, <1>2, <1>3 DEF CpuInv, TypeOK, At, Regs, PC, Addr
  <1>5. TypeOK'
    BY <1>1, <1>2, <1>4 DEF CpuInv, TypeOK, Where
  <1>6. \A i \in 1..(env.sp - 1) : mem'[i] = mem[i] /\ FrameFits(i)
    BY <1>1 DEF CpuInv
  <1>7. FramesFit'
    BY <1>2, <1>3, <1>4, <1>6, FramesKept DEF FramesFit, Top, Addr
  <1>8. PlaceFits'
    BY <1>1, <1>2, <1>3, <1>4 DEF CpuInv, PlaceFits, RegsFit
  <1> QED
    BY <1>1, <1>2, <1>5, <1>7, <1>8 DEF CpuInv, LoopInv, SwitchSlotFree, MasksFit, InForce, Stopped, NeverAstray

LEMMA GuestCallbackEntryInv == LoopInv /\ GuestCallbackEntry => LoopInv'
  <1> SUFFICES ASSUME LoopInv, GuestCallbackEntry PROVE LoopInv'
      OBVIOUS
  <1>1. CpuInv
    BY AtCpu DEF GuestCallbackEntry
  <1>2. /\ pc = "cpu" /\ pc' = "cpu"
        /\ UNCHANGED <<hsp, ctx_to, loop_ctx, gyh_syscall, cbFunc, registered, gmask, hmask,
                       pending, queued, raised, count, torn>>
    BY DEF GuestCallbackEntry, contextVars, moduleVars, signalVars
  <1>3. /\ env.sp + 1 \in 1..StackSize
        /\ mem[env.sp].kind = CallbackSlot /\ (Arch # "x86_64" => env.lr = "stub")
    BY <1>1 DEF GuestCallbackEntry, CpuInv, Room, RegsFit
  <1>4. /\ env' \in Regs /\ env'.sp = env.sp + 1 /\ env'.pc = "code"
        /\ mem' \in [1..StackSize -> Cell]
        /\ mem'[env'.sp].kind = "cb" /\ mem'[env'.sp].lr = env.lr
        /\ \A i \in 1..env.sp : mem'[i] = mem[i]
    BY <1>1, <1>3 DEF GuestCallbackEntry, CpuInv, TypeOK, At, Frame, Regs, Cell, PC, Addr, Arg,
                      Kind, Mask, HMask
  <1>5. TypeOK'
    BY <1>1, <1>2, <1>4 DEF CpuInv, TypeOK
  <1>6. FramesFit'
    <2>1. mem'[env'.sp - 1].kind = CallbackSlot /\ env'.sp > 1
      BY <1>1, <1>3, <1>4 DEF CpuInv
    <2>2. FrameFits(env.sp)'
      BY <1>3, <1>4, <2>1 DEF FrameFits, CallbackSlot
    <2> QED
      BY <1>1, <1>2, <1>4, <2>2, FramePushed DEF FramesFit, Top, CpuInv
  <1>7. PlaceFits'
    BY <1>1, <1>2, <1>3, <1>4 DEF CpuInv, PlaceFits, RegsFit, GuestFrame
  <1> QED
    BY <1>1, <1>2, <1>5, <1>6, <1>7 DEF CpuInv, LoopInv, SwitchSlotFree, MasksFit, InForce, Stopped, NeverAstray

LEMMA GuestCallbackDoneInv == LoopInv /\ GuestCallbackDone => LoopInv'
  <1> SUFFICES ASSUME LoopInv, GuestCallbackDone PROVE LoopInv'
      OBVIOUS
  <1>1. CpuInv
    BY AtCpu DEF GuestCallbackDone
  <1>2. /\ pc = "cpu" /\ pc' = "signals" /\ gyh_syscall' = [num |-> "callback_return", arg |-> Junk]
        /\ UNCHANGED <<mem, hsp, ctx_to, loop_ctx, cbFunc, registered, gmask, hmask,
                       pending, queued, raised, count, torn>>
    BY DEF GuestCallbackDone, contextVars, moduleVars, signalVars
  <1>3. /\ env.sp - 1 \in 1..StackSize /\ mem[env.sp - 1].kind = CallbackSlot
        /\ (Arch # "x86_64" => mem[env.sp].lr = "stub")
    BY <1>1 DEF GuestCallbackDone, CpuInv, FrameFits
  <1>4. env' \in Regs /\ env'.sp = env.sp - 1 /\ env'.pc = "cbret" /\ env'.lr = mem[env.sp].lr
    BY <1>1, <1>3 DEF GuestCallbackDone, CpuInv, TypeOK, At, Regs, Cell, PC, Addr
  <1>5. TypeOK'
    BY <1>1, <1>2, <1>4 DEF CpuInv, TypeOK, Where, Num, Arg
  <1>6. FramesFit'
    <2>1. \A i \in 1..(env.sp - 1) : mem'[i] = mem[i] /\ FrameFits(i)
      BY <1>1, <1>2 DEF CpuInv
    <2> QED
      BY <1>2, <1>3, <1>4, <2>1, FramesKept DEF FramesFit, Top, Addr
  <1>7. PlaceFits'
    <2>1. RegsFit(At("cbFunc", env.lr, env.sp, env.arg))'
      BY <1>2, <1>3, <1>4 DEF RegsFit, At, CallbackSlot
    <2> QED
      BY <1>2, <1>4, <2>1 DEF PlaceFits
  <1> QED
    BY <1>1, <1>2, <1>5, <1>6, <1>7 DEF CpuInv, LoopInv, SwitchSlotFree, MasksFit, InForce, Stopped, NeverAstray

LEMMA GuestTrapInv == LoopInv /\ GuestTrap => LoopInv'
  <1> SUFFICES ASSUME LoopInv, GuestTrap PROVE LoopInv'
      OBVIOUS
  <1>1. CpuInv
    BY AtCpu DEF GuestTrap
  <1>2. /\ pc = "cpu" /\ pc' = "signals"
        /\ \/ UNCHANGED <<gmask, hmask, pending>>
           \/ gmask' \in Mask /\ hmask' = "all" /\ pending' = TRUE
        /\ UNCHANGED <<env, mem, hsp, ctx_to, loop_ctx, gyh_syscall, cbFunc, registered,
                       queued, raised, count, torn>>
    BY <1>1 DEF GuestTrap, block_signals, contextVars, moduleVars
  <1>3. TypeOK'
    BY <1>1, <1>2 DEF CpuInv, TypeOK, Where, HMask
  <1>4. FramesFit'
    BY <1>1, <1>2, FramesKept DEF FramesFit, Top, CpuInv, Addr
  <1>5. PlaceFits'
    BY <1>1, <1>2 DEF CpuInv, PlaceFits, RegsFit
  <1> QED
    BY <1>1, <1>2, <1>3, <1>4, <1>5 DEF CpuInv, LoopInv, SwitchSlotFree, MasksFit, InForce, Stopped, NeverAstray

LEMMA GuestSigreturnInv == LoopInv /\ GuestSigreturn => LoopInv'
  <1> SUFFICES ASSUME LoopInv, GuestSigreturn PROVE LoopInv'
      OBVIOUS
  <1>1. CpuInv
    BY AtCpu DEF GuestSigreturn
  <1>2. /\ pc' = "signals"
        /\ hmask' = "all" /\ pending' = TRUE
        /\ UNCHANGED <<mem, hsp, ctx_to, loop_ctx, gyh_syscall, cbFunc, registered,
                       queued, raised, count, torn>>
    BY DEF GuestSigreturn, block_signals, contextVars, moduleVars
  <1>3. /\ mem[env.sp].sp = env.sp - 1 /\ env.sp > 1 /\ RegsFit(mem[env.sp])
        /\ mem[env.sp] \in Cell /\ mem[env.sp].mask \in Mask
    BY <1>1 DEF GuestSigreturn, CpuInv, FrameFits, TypeOK
  <1>4. /\ env' \in Regs /\ gmask' \in Mask /\ env'.sp = env.sp - 1
        /\ env'.pc = mem[env.sp].pc /\ env'.lr = mem[env.sp].lr
    BY <1>3 DEF GuestSigreturn, At, Regs, Cell
  <1>5. TypeOK'
    BY <1>1, <1>2, <1>4 DEF CpuInv, TypeOK, Where, HMask
  <1>6. FramesFit'
    <2>1. env.sp - 1 \in Addr /\ \A i \in 1..(env.sp - 1) : mem'[i] = mem[i] /\ FrameFits(i)
      BY <1>1, <1>2 DEF CpuInv, Addr
    <2> QED
      BY <1>2, <1>3, <1>4, <2>1, FramesKept DEF FramesFit, Top
  <1>7. PlaceFits'
    <2>1. RegsFit(env)'
      BY <1>2, <1>3, <1>4 DEF RegsFit
    <2> QED
      BY <1>1, <1>2, <2>1 DEF PlaceFits, CpuInv
  <1> QED
    BY <1>1, <1>2, <1>5, <1>6, <1>7 DEF CpuInv, LoopInv, SwitchSlotFree, MasksFit, InForce, Stopped, NeverAstray

LEMMA GuestLongjmpInv == LoopInv /\ GuestLongjmp => LoopInv'
  <1> SUFFICES ASSUME LoopInv, GuestLongjmp PROVE LoopInv'
      OBVIOUS
  <1>1. CpuInv
    BY AtCpu DEF GuestLongjmp
  <1>2. /\ pc = "cpu" /\ pc' = "cpu"
        /\ UNCHANGED <<mem, hsp, ctx_to, loop_ctx, gyh_syscall, cbFunc, registered, gmask, hmask,
                       pending, queued, raised, count, torn>>
    BY DEF GuestLongjmp, contextVars, moduleVars, signalVars
  <1>3. PICK j \in 1..(env.sp - 1) : mem[j].kind \in GuestFrame /\ env' = At("code", env.lr, j, env.arg)
    BY DEF GuestLongjmp
  <1>4. env' \in Regs /\ env'.sp = j /\ env'.pc = "code" /\ j \in 1..StackSize
    BY <1>1, <1>3 DEF CpuInv, TypeOK, At, Regs, PC, Addr
  <1>5. TypeOK'
    BY <1>1, <1>2, <1>4 DEF CpuInv, TypeOK
  <1>6. FramesFit'
    <2>1. j \in Addr /\ \A i \in 1..j : mem'[i] = mem[i] /\ FrameFits(i)
      BY <1>1, <1>2, <1>3 DEF CpuInv, Addr
    <2> QED
      BY <1>2, <1>4, <2>1, FramesKept DEF FramesFit, Top
  <1>7. PlaceFits'
    BY <1>1, <1>2, <1>3, <1>4 DEF CpuInv, PlaceFits, RegsFit
  <1> QED
    BY <1>1, <1>2, <1>5, <1>6, <1>7 DEF CpuInv, LoopInv, SwitchSlotFree, MasksFit, InForce, Stopped, NeverAstray

(* Outside a torn request every place and every frame fits, and the registers
   are on the stack.                                                       *)
LEMMA Sound ==
  ASSUME LoopInv, ~torn, pc \in {"signals", "dispatch"}
  PROVE  /\ PlaceFits /\ env.sp \in 1..StackSize /\ \A i \in 1..env.sp : FrameFits(i)
         /\ FrameFits(env.sp) /\ ctx_to = NULL /\ env \in Regs
  <1>1. PlaceFits /\ FramesFit
    BY DEF LoopInv, Stopped
  <1>2. env.sp \in 1..StackSize
    BY <1>1 DEF PlaceFits, RegsFit, At
  <1>3. \A i \in 1..env.sp : FrameFits(i)
    BY <1>1 DEF FramesFit, Top
  <1> QED
    BY <1>1, <1>2, <1>3 DEF LoopInv, SwitchSlotFree, TypeOK

(* A step that ends the process without going astray.                      *)
LEMMA StopInv ==
  ASSUME LoopInv, pc' \in {"abort", "exit"}, TypeOK', UNCHANGED <<cbFunc, registered>>
  PROVE  LoopInv'
  BY DEF LoopInv, SwitchSlotFree, MasksFit, InForce, NeverAstray, Stopped

LEMMA GuestExitInv == LoopInv /\ GuestExit => LoopInv'
  <1> SUFFICES ASSUME LoopInv, GuestExit PROVE LoopInv'
      OBVIOUS
  <1>1. TypeOK'
    BY DEF LoopInv, TypeOK, GuestExit, contextVars, moduleVars, signalVars, Where, Stopped
  <1> QED
    BY <1>1, StopInv DEF GuestExit, moduleVars

LEMMA RaiseInv == LoopInv /\ Raise => LoopInv'
  <1> SUFFICES ASSUME LoopInv, Raise PROVE LoopInv'
      OBVIOUS
  <1>1. /\ pending' = TRUE /\ queued' = TRUE /\ hmask' = "all" /\ raised' = raised + 1
        /\ UNCHANGED <<pc, env, mem, hsp, ctx_to, loop_ctx, gyh_syscall, cbFunc, registered,
                       gmask, count, torn>>
    BY DEF Raise, contextVars, moduleVars
  <1>2. TypeOK'
    BY <1>1 DEF LoopInv, TypeOK, HMask
  <1>3. FramesFit => FramesFit'
    <2>1. \A i : FrameFits(i)' = FrameFits(i)
      BY <1>1 DEF FrameFits, RegsFit
    <2> QED BY <1>1, <2>1 DEF FramesFit, Top
  <1>4. PlaceFits => PlaceFits'
    BY <1>1 DEF PlaceFits, RegsFit, HostServesCaller, Room, At
  <1>5. Doomed => Doomed'
    BY <1>1 DEF Doomed
  <1> QED
    BY <1>1, <1>2, <1>3, <1>4, <1>5 DEF LoopInv, SwitchSlotFree, MasksFit, InForce, Stopped, NeverAstray

LEMMA StutterInv == LoopInv /\ UNCHANGED vars => LoopInv'
  <1> SUFFICES ASSUME LoopInv, UNCHANGED vars PROVE LoopInv'
      OBVIOUS
  <1> USE DEF vars
  <1>2. TypeOK'
    BY DEF LoopInv, TypeOK
  <1>3. FramesFit => FramesFit'
    <2>1. \A i : FrameFits(i)' = FrameFits(i)
      BY DEF FrameFits, RegsFit
    <2> QED BY <2>1 DEF FramesFit, Top
  <1>4. PlaceFits => PlaceFits'
    BY DEF PlaceFits, RegsFit, HostServesCaller, Room, At
  <1>5. Doomed => Doomed'
    BY DEF Doomed
  <1> QED
    BY <1>2, <1>3, <1>4, <1>5 DEF LoopInv, SwitchSlotFree, MasksFit, InForce, Stopped, NeverAstray

LEMMA SignalsInv == LoopInv /\ process_pending_signals => LoopInv'
  <1> SUFFICES ASSUME LoopInv, process_pending_signals PROVE LoopInv'
      OBVIOUS
  <1>1. /\ pc = "signals" /\ pending' = FALSE /\ hmask' = HostMask(gmask')
        /\ UNCHANGED <<hsp, ctx_to, loop_ctx, gyh_syscall, cbFunc, registered, raised, count>>
    BY DEF process_pending_signals, contextVars, moduleVars
  <1>2. TypeOK /\ ~torn /\ torn \in BOOLEAN /\ MasksFit
    BY <1>1 DEF LoopInv, Doomed, Stopped, TypeOK
  <1>3. /\ PlaceFits /\ env.sp \in 1..StackSize /\ \A i \in 1..env.sp : FrameFits(i)
        /\ FrameFits(env.sp) /\ ctx_to = NULL /\ env \in Regs
    BY <1>1, <1>2, Sound
  <1>4. CASE Deliver /\ Room(1)
    <2>1. /\ mem' = [mem EXCEPT ![env.sp + 1] = Frame("sig", env, gmask)]
          /\ env' = At("code", "restorer", env.sp + 1, Junk)
          /\ gmask' = "blocked" /\ hmask' = "blocked" /\ queued' = FALSE
          /\ torn' = (torn \/ gyh_syscall.num \in {"call", "callback_return"})
          /\ pc' = "dispatch"
      BY <1>4 DEF process_pending_signals, Deliver, HostMask
    <2>2. env.sp + 1 \in 1..StackSize
      BY <1>1, <1>3, <1>4 DEF Room
    <2>3. /\ env' \in Regs /\ env'.sp = env.sp + 1 /\ env'.pc = "code" /\ env'.arg = Junk
          /\ mem' \in [1..StackSize -> Cell]
          /\ mem'[env'.sp] = Frame("sig", env, gmask)
          /\ \A i \in 1..env.sp : mem'[i] = mem[i]
      <3> DEFINE f == Frame("sig", env, gmask)
      <3>1. env.sp + 1 \in Addr /\ "code" \in PC /\ "restorer" \in PC /\ Junk \in Arg
        BY <2>2, LoopAssumption DEF Addr, PC, Arg
      <3>2. env' \in Regs /\ env'.sp = env.sp + 1 /\ env'.pc = "code" /\ env'.arg = Junk
        BY <2>1, <3>1 DEF At, Regs
      <3>3. f \in Cell
        BY <1>2 DEF TypeOK, Frame, Regs, Cell, Kind, Mask, HMask
      <3>4. mem' = [mem EXCEPT ![env.sp + 1] = f] /\ mem \in [1..StackSize -> Cell]
        BY <1>2, <2>1 DEF TypeOK
      <3> HIDE DEF f
      <3>5. \A i \in 1..env.sp : i \in 1..StackSize /\ i # env.sp + 1
        BY <1>3, LoopAssumption
      <3>6. /\ mem' \in [1..StackSize -> Cell] /\ mem'[env.sp + 1] = f
            /\ \A i \in 1..env.sp : mem'[i] = mem[i]
        BY <2>2, <3>3, <3>4, <3>5
      <3> QED BY <3>2, <3>6 DEF f
    <2>4. TypeOK'
      BY <1>1, <1>2, <2>1, <2>3 DEF TypeOK, Where, Mask, HMask
    <2>5. mem'[env'.sp].kind = "sig" /\ env'.sp \in 1..StackSize
      <3>1. Frame("sig", env, gmask).kind = "sig"
        BY DEF Frame
      <3> QED
        BY <2>2, <2>3, <3>1
    <2>6. CASE gyh_syscall.num \in {"call", "callback_return"}
      <3>1. torn' /\ Doomed'
        BY <1>1, <2>1, <2>3, <2>5, <2>6 DEF Doomed
      <3> QED
        BY <1>1, <1>3, <2>1, <2>4, <3>1 DEF LoopInv, SwitchSlotFree, MasksFit, InForce, Stopped, NeverAstray
    <2>7. CASE gyh_syscall.num \notin {"call", "callback_return"}
      <3>1. ~torn' /\ RegsFit(env)
        BY <1>1, <1>2, <1>3, <2>1, <2>7 DEF PlaceFits
      <3>2. FrameFits(env.sp)'
        <4>1. /\ env'.sp > 1 /\ env'.sp - 1 = env.sp /\ mem'[env.sp] = mem[env.sp]
              /\ mem'[env'.sp].sp = env.sp /\ mem'[env'.sp].pc = env.pc
              /\ mem'[env'.sp].lr = env.lr /\ mem'[env'.sp].mask \in Mask
          <5>1. env.sp \in Nat /\ env.sp \in 1..env.sp /\ gmask \in Mask
            BY <1>2, <1>3, LoopAssumption DEF TypeOK
          <5>2. env'.sp > 1 /\ env'.sp - 1 = env.sp /\ mem'[env.sp] = mem[env.sp]
            BY <1>3, <2>3, <5>1
          <5>3. mem'[env'.sp] = Frame("sig", env, gmask)
            BY <2>3
          <5>4. PICK f : f = Frame("sig", env, gmask)
            OBVIOUS
          <5>5. f.sp = env.sp /\ f.pc = env.pc /\ f.lr = env.lr /\ f.mask = gmask
            BY <5>4 DEF Frame
          <5> QED BY <5>1, <5>2, <5>3, <5>4, <5>5
        <4>2. RegsFit(mem[env.sp])'
          BY <1>3, <3>1, <4>1 DEF RegsFit
        <4> QED
          BY <2>5, <4>1, <4>2 DEF FrameFits
      <3>3. FramesFit'
        BY <1>1, <1>3, <2>1, <2>3, <3>2, FramePushed DEF FramesFit, Top
      <3>4. RegsFit(env)'
        BY <2>3, <2>5 DEF RegsFit, GuestFrame
      <3>5. PlaceFits'
        BY <1>1, <1>3, <2>1, <2>7, <3>4 DEF PlaceFits
      <3> QED
        BY <1>1, <1>3, <2>1, <2>4, <3>1, <3>3, <3>5 DEF LoopInv, SwitchSlotFree, MasksFit, InForce, Stopped, NeverAstray
    <2> QED
      BY <2>6, <2>7
  <1>5. CASE Deliver /\ ~Room(1)
    <2>1. UNCHANGED <<mem, env, gmask, queued, torn>> /\ hmask' = gmask /\ pc' = "abort"
      BY <1>1, <1>5 DEF process_pending_signals, Deliver, HostMask
    <2>2. TypeOK'
      BY <1>1, <1>2, <2>1 DEF TypeOK, Where, Stopped, HMask
    <2> QED
      BY <1>1, <1>3, <2>1, <2>2, StopInv DEF LoopInv, Stopped
  <1>6. CASE ~Deliver
    <2>1. /\ UNCHANGED <<mem, env, gmask, queued, torn>> /\ pc' = "dispatch"
          /\ hmask' = gmask /\ ~(queued /\ gmask = "open")
      BY <1>1, <1>2, <1>6 DEF process_pending_signals, Deliver, HostMask, MasksFit, InForce, Stopped
    <2>2. TypeOK'
      BY <1>1, <1>2, <2>1 DEF TypeOK, Where, HMask
    <2>3. FramesFit'
      BY <1>1, <1>3, <2>1, FramesKept DEF FramesFit, Top, Addr
    <2>4. PlaceFits'
      BY <1>1, <1>3, <2>1 DEF PlaceFits, RegsFit, Room, At
    <2> QED
      BY <1>1, <1>2, <1>3, <2>1, <2>2, <2>3, <2>4
      DEF LoopInv, SwitchSlotFree, MasksFit, InForce, Stopped, NeverAstray
  <1> QED
    BY <1>4, <1>5, <1>6

Counts == [syscalls: Nat, calls: Nat, callbacks: Nat, callback_returns: Nat]

LEMMA CountOK ==
  ASSUME NEW c \in Counts
  PROVE  /\ CountSyscall(c) \in Counts
         /\ [c EXCEPT !.calls = @ + 1] \in Counts
         /\ [c EXCEPT !.callbacks = @ + 1] \in Counts
         /\ [c EXCEPT !.callback_returns = @ + 1] \in Counts
  BY DEF Counts, CountSyscall

LEMMA DispatchNoneInv == LoopInv /\ DispatchNone => LoopInv'
  <1> SUFFICES ASSUME LoopInv, DispatchNone PROVE LoopInv'
      OBVIOUS
  <1>1. /\ pc = "dispatch" /\ gyh_syscall.num = "none" /\ pc' = "loop"
        /\ UNCHANGED <<env, mem, hsp, ctx_to, loop_ctx, gyh_syscall, cbFunc, registered,
                       gmask, hmask, pending, queued, raised, count, torn>>
    BY DEF DispatchNone, contextVars, moduleVars, signalVars
  <1>2. ~torn
    BY <1>1 DEF LoopInv, Doomed, Stopped
  <1>3. /\ PlaceFits /\ env.sp \in 1..StackSize /\ \A i \in 1..env.sp : FrameFits(i)
        /\ ctx_to = NULL
    BY <1>1, <1>2, Sound
  <1>4. TypeOK'
    BY <1>1 DEF LoopInv, TypeOK, Where
  <1>5. FramesFit'
    BY <1>1, <1>3, FramesKept DEF FramesFit, Top, Addr
  <1>6. PlaceFits'
    BY <1>1, <1>3 DEF PlaceFits, RegsFit, NULL
  <1> QED
    BY <1>1, <1>2, <1>3, <1>4, <1>5, <1>6
    DEF LoopInv, SwitchSlotFree, MasksFit, InForce, Stopped, NeverAstray, NULL

LEMMA DispatchCtorInv == LoopInv /\ DispatchCtor => LoopInv'
  <1> SUFFICES ASSUME LoopInv, DispatchCtor PROVE LoopInv'
      OBVIOUS
  <1>1. /\ pc = "dispatch" /\ gyh_syscall.num = "ctor"
        /\ UNCHANGED <<env, mem, hsp, ctx_to, loop_ctx, gyh_syscall, gmask, hmask, pending, queued,
                       raised, torn>>
    BY DEF DispatchCtor, contextVars, signalVars
  <1>2. ~torn /\ TypeOK
    BY <1>1 DEF LoopInv, Doomed, Stopped
  <1>3. /\ PlaceFits /\ env.sp \in 1..StackSize /\ \A i \in 1..env.sp : FrameFits(i)
        /\ ctx_to = NULL
    BY <1>1, <1>2, Sound
  <1>4. CASE pc' = "abort" /\ UNCHANGED <<cbFunc, registered, count>>
    <2>1. TypeOK'
      BY <1>1, <1>2, <1>4 DEF TypeOK, Where, Stopped
    <2> QED
      BY <1>4, <2>1, StopInv
  <1>5. CASE /\ cbFunc' = "cbFunc" /\ registered' = registered \cup {gyh_syscall.arg}
             /\ count' = CountSyscall(count) /\ pc' = "loop"
    <2>1. registered' \in SUBSET Qlib
      BY <1>1, <1>2, <1>3, <1>5 DEF PlaceFits, TypeOK
    <2>2. TypeOK'
      BY <1>1, <1>2, <1>5, <2>1, CountOK DEF TypeOK, Where, Counts
    <2>3. FramesFit'
      BY <1>1, <1>3, <1>5, FramesKept DEF FramesFit, Top, Addr
    <2>4. PlaceFits'
      BY <1>1, <1>3, <1>5 DEF PlaceFits, RegsFit, NULL
    <2> QED
      BY <1>1, <1>2, <1>3, <1>5, <2>2, <2>3, <2>4
      DEF LoopInv, SwitchSlotFree, MasksFit, InForce, Stopped, NeverAstray, NULL
  <1> QED
    BY <1>4, <1>5 DEF DispatchCtor, moduleVars

LEMMA DispatchDtorInv == LoopInv /\ DispatchDtor => LoopInv'
  <1> SUFFICES ASSUME LoopInv, DispatchDtor PROVE LoopInv'
      OBVIOUS
  <1>1. /\ pc = "dispatch" /\ gyh_syscall.num = "dtor" /\ pc' = "loop"
        /\ registered' = registered \ {gyh_syscall.arg} /\ count' = CountSyscall(count)
        /\ UNCHANGED <<env, mem, hsp, ctx_to, loop_ctx, gyh_syscall, cbFunc, gmask, hmask,
                       pending, queued, raised, torn>>
    BY DEF DispatchDtor, contextVars, signalVars
  <1>2. ~torn /\ TypeOK
    BY <1>1 DEF LoopInv, Doomed, Stopped
  <1>3. /\ PlaceFits /\ env.sp \in 1..StackSize /\ \A i \in 1..env.sp : FrameFits(i)
        /\ ctx_to = NULL
    BY <1>1, <1>2, Sound
  <1>4. TypeOK'
    BY <1>1, <1>2, CountOK DEF TypeOK, Where, Counts
  <1>5. FramesFit'
    BY <1>1, <1>3, FramesKept DEF FramesFit, Top, Addr
  <1>6. PlaceFits'
    BY <1>1, <1>3 DEF PlaceFits, RegsFit, NULL
  <1>7. registered' # {} => cbFunc' = "cbFunc"
    BY <1>1 DEF LoopInv
  <1> QED
    BY <1>1, <1>2, <1>3, <1>4, <1>5, <1>6, <1>7
    DEF LoopInv, SwitchSlotFree, MasksFit, InForce, Stopped, NeverAstray, NULL

LEMMA CallInv == LoopInv /\ gyh_call => LoopInv'
  <1> SUFFICES ASSUME LoopInv, gyh_call PROVE LoopInv'
      OBVIOUS
  <1>1. /\ pc = "dispatch" /\ gyh_syscall.num = "call"
        /\ UNCHANGED <<env, mem, hsp, loop_ctx, gyh_syscall, cbFunc, registered, gmask, hmask,
                       pending, queued, raised, torn>>
    BY DEF gyh_call, moduleVars, signalVars
  <1>2. TypeOK /\ MasksFit /\ torn \in BOOLEAN
    BY <1>1 DEF LoopInv, TypeOK
  <1>3. [count EXCEPT !.calls = @ + 1] \in Counts
    BY <1>2, CountOK DEF TypeOK, Counts
  <1>4. CASE ~(Aligned(env.sp) /\ ctx_to = NULL)
    <2>1. pc' = "abort" /\ count' = [count EXCEPT !.calls = @ + 1] /\ ctx_to' = ctx_to
      BY <1>4 DEF gyh_call
    <2>2. TypeOK'
      BY <1>1, <1>2, <1>3, <2>1 DEF TypeOK, Where, Stopped, Counts
    <2> QED
      BY <1>1, <2>1, <2>2, StopInv
  <1>5. CASE Aligned(env.sp) /\ ctx_to = NULL
    <2>1. /\ ctx_to' = [to |-> "do_call", at |-> env.sp, arg |-> env.arg, mask |-> hmask]
          /\ count' = CountSyscall([count EXCEPT !.calls = @ + 1]) /\ pc' = "loop"
      BY <1>5 DEF gyh_call
    <2>2. /\ ctx_to' \in Ctx /\ ctx_to'.to = "do_call" /\ ctx_to'.at = env.sp
          /\ ctx_to'.arg = env.arg
      BY <1>2, <2>1 DEF TypeOK, Ctx, Regs
    <2>3. TypeOK'
      BY <1>1, <1>2, <1>3, <2>1, <2>2, CountOK DEF TypeOK, Where, Counts
    <2>4. CASE torn
      <3>1. Doomed'
        BY <1>1, <2>1, <2>2, <2>4 DEF LoopInv, Doomed, Stopped
      <3> QED
        BY <1>1, <1>2, <2>1, <2>2, <2>3, <2>4, <3>1
        DEF LoopInv, SwitchSlotFree, MasksFit, InForce, Stopped, NeverAstray
    <2>5. CASE ~torn
      <3>1. PlaceFits /\ env.sp \in 1..StackSize /\ \A i \in 1..env.sp : FrameFits(i)
        BY <1>1, <2>5, Sound
      <3>2. FramesFit'
        BY <1>1, <2>1, <3>1, FramesKept DEF FramesFit, Top, Addr
      <3>3. PlaceFits'
        BY <1>1, <2>1, <2>2, <3>1 DEF PlaceFits, RegsFit, Room
      <3> QED
        BY <1>1, <1>2, <2>1, <2>2, <2>3, <2>5, <3>2, <3>3
        DEF LoopInv, SwitchSlotFree, MasksFit, InForce, Stopped, NeverAstray
    <2> QED
      BY <1>2, <2>4, <2>5
  <1> QED
    BY <1>4, <1>5

LEMMA CallbackReturnInv == LoopInv /\ gyh_callback_return => LoopInv'
  <1> SUFFICES ASSUME LoopInv, gyh_callback_return PROVE LoopInv'
      OBVIOUS
  <1>1. /\ pc = "dispatch" /\ gyh_syscall.num = "callback_return" /\ env' = AfterRet
        /\ UNCHANGED <<mem, hsp, loop_ctx, gyh_syscall, cbFunc, registered, gmask, hmask,
                       pending, queued, raised, torn>>
    BY DEF gyh_callback_return, moduleVars, signalVars
  <1>2. TypeOK /\ MasksFit /\ torn \in BOOLEAN /\ ctx_to = NULL
    BY <1>1 DEF LoopInv, TypeOK, SwitchSlotFree
  <1>3. /\ ctx_to' = [to |-> "callback", at |-> env'.sp, arg |-> Junk, mask |-> "open"]
        /\ count' = CountSyscall([count EXCEPT !.callback_returns = @ + 1]) /\ pc' = "loop"
    BY <1>2 DEF gyh_callback_return
  <1>4. count' \in Counts
    BY <1>2, <1>3, CountOK DEF TypeOK, Counts
  <1>5. env' \in Regs => /\ ctx_to' \in Ctx /\ ctx_to'.to = "callback" /\ ctx_to'.at = env'.sp
                         /\ TypeOK'
    <2> SUFFICES ASSUME env' \in Regs
                 PROVE  /\ ctx_to' \in Ctx /\ ctx_to'.to = "callback" /\ ctx_to'.at = env'.sp
                        /\ TypeOK'
      OBVIOUS
    <2>1. ctx_to' \in Ctx /\ ctx_to'.to = "callback" /\ ctx_to'.at = env'.sp
      BY <1>3 DEF Ctx, Arg, Mask, HMask, Regs
    <2> QED
      BY <1>1, <1>2, <1>3, <1>4, <2>1 DEF TypeOK, Where, Counts
  <1>6. CASE torn
    <2>1. env.sp \in 1..StackSize /\ mem[env.sp].kind = "sig"
      BY <1>1, <1>6 DEF LoopInv, Doomed, Stopped
    <2>2. env' \in Regs /\ env'.sp = env.sp
      BY <1>1, <1>2, <2>1 DEF AfterRet, At, TypeOK, Regs, PC
    <2>3. Doomed'
      BY <1>1, <1>3, <1>5, <2>1, <2>2 DEF Doomed
    <2> QED
      BY <1>1, <1>2, <1>3, <1>5, <1>6, <2>2, <2>3
      DEF LoopInv, SwitchSlotFree, MasksFit, InForce, Stopped, NeverAstray
  <1>7. CASE ~torn
    <2>1. /\ PlaceFits /\ env.sp \in 1..StackSize /\ \A i \in 1..env.sp : FrameFits(i)
          /\ FrameFits(env.sp)
      BY <1>1, <1>7, Sound
    <2>2. mem[env.sp].kind = CallbackSlot /\ (Arch # "x86_64" => env.lr = "stub")
      BY <1>1, <2>1 DEF PlaceFits, RegsFit, At
    <2>3. /\ env' \in Regs /\ env'.sp \in 1..env.sp /\ env'.pc = "stub"
          /\ mem[env'.sp].kind = "ctx"
      <3>1. CASE Arch = "x86_64"
        <4>1. mem[env.sp].kind = "ret"
          BY <2>2, <3>1 DEF CallbackSlot
        <4>2. env.sp > 1 /\ mem[env.sp].pc = "stub" /\ mem[env.sp - 1].kind = "ctx"
          BY <2>1, <4>1 DEF FrameFits
        <4>3. env' = At("stub", env.lr, env.sp - 1, env.arg)
          BY <1>1, <3>1, <4>1, <4>2 DEF AfterRet
        <4> QED
          BY <1>2, <2>1, <4>2, <4>3 DEF At, TypeOK, Regs, PC, Addr
      <3>2. CASE Arch # "x86_64"
        <4>1. mem[env.sp].kind = "ctx" /\ env.lr = "stub"
          BY <2>2, <3>2 DEF CallbackSlot
        <4>2. env' = At("stub", env.lr, env.sp, env.arg)
          BY <1>1, <3>2, <4>1 DEF AfterRet
        <4> QED
          BY <1>2, <2>1, <4>1, <4>2 DEF At, TypeOK, Regs, PC, Addr
      <3> QED
        BY <3>1, <3>2
    <2>4. FramesFit'
      <3>1. env'.sp \in Addr /\ \A i \in 1..env'.sp : mem'[i] = mem[i] /\ FrameFits(i)
        BY <1>1, <2>1, <2>3 DEF Addr
      <3> QED
        BY <1>1, <1>3, <3>1, FramesKept DEF FramesFit, Top
    <2>5. PlaceFits'
      BY <1>1, <1>3, <1>5, <2>1, <2>3 DEF PlaceFits
    <2> QED
      BY <1>1, <1>2, <1>3, <1>5, <1>7, <2>3, <2>4, <2>5
      DEF LoopInv, SwitchSlotFree, MasksFit, InForce, Stopped, NeverAstray
  <1> QED
    BY <1>2, <1>6, <1>7

LEMMA LoopEmulateInv == LoopInv /\ LoopEmulate => LoopInv'
  <1> SUFFICES ASSUME LoopInv, LoopEmulate PROVE LoopInv'
      OBVIOUS
  <1>1. /\ pc = "loop" /\ ctx_to = NULL /\ pc' = "cpu"
        /\ gyh_syscall' = [num |-> "none", arg |-> Junk]
        /\ UNCHANGED <<env, mem, hsp, ctx_to, loop_ctx, cbFunc, registered, gmask, hmask,
                       pending, queued, raised, count, torn>>
    BY DEF LoopEmulate, ToCpu, contextVars, moduleVars, signalVars
  <1>2. ~torn
    BY <1>1 DEF LoopInv, Doomed, Stopped, NULL
  <1>3. PlaceFits /\ FramesFit
    BY <1>1, <1>2 DEF LoopInv, Stopped
  <1>4. RegsFit(env) /\ env.sp \in 1..StackSize /\ \A i \in 1..env.sp : FrameFits(i)
    BY <1>1, <1>3 DEF PlaceFits, NULL, RegsFit, FramesFit, Top
  <1>5. TypeOK'
    BY <1>1 DEF LoopInv, TypeOK, Where, Num, Arg
  <1>6. FramesFit'
    BY <1>1, <1>4, FramesKept DEF FramesFit, Top, Addr
  <1>7. PlaceFits'
    BY <1>1, <1>4 DEF PlaceFits, RegsFit
  <1> QED
    BY <1>1, <1>2, <1>5, <1>6, <1>7 DEF LoopInv, SwitchSlotFree, MasksFit, InForce, Stopped, NeverAstray

LEMMA DoCallInv == LoopInv /\ gyh_do_call => LoopInv'
  <1> SUFFICES ASSUME LoopInv, gyh_do_call PROVE LoopInv'
      OBVIOUS
  <1>1. /\ pc = "loop" /\ ctx_to.to = "do_call" /\ ctx_to' = NULL
        /\ loop_ctx' = hmask /\ hmask' = ctx_to.mask
        /\ UNCHANGED <<env, gyh_syscall, cbFunc, registered, gmask, pending, queued, raised, count, torn>>
    BY DEF gyh_do_call, SavedMask, Reset, moduleVars
  <1>2. TypeOK /\ MasksFit /\ loop_ctx' \in HMask /\ hmask' \in HMask /\ InForce(loop_ctx)'
    BY <1>1 DEF LoopInv, MasksFit, InForce, TypeOK, Ctx
  <1>3. ctx_to' \in Ctx
    BY <1>1 DEF NULL, Ctx, Arg, Mask, HMask, Addr
  <1>4. CASE pc' \in {"wild", "abort"} /\ UNCHANGED <<mem, hsp>>
    <2>1. TypeOK'
      BY <1>1, <1>2, <1>3, <1>4 DEF TypeOK, Where, Stopped
    <2>2. pc' = "wild" => torn
      BY <1>1, <1>4 DEF gyh_do_call, SavedMask, Reset, LoopInv, PlaceFits, Stopped
    <2> QED
      BY <1>1, <1>4, <2>1, <2>2 DEF LoopInv, SwitchSlotFree, MasksFit, InForce, NeverAstray, Stopped
  <1>5. CASE /\ ctx_to.arg \in registered /\ pc' = "host" /\ hsp' = ctx_to.at + 1
             /\ mem' = [mem EXCEPT ![ctx_to.at + 1] =
                          Frame("host", At(env.pc, env.lr, 0, ctx_to.arg), "open")]
    <2>1. ~torn
      BY <1>1, <1>2, <1>5 DEF LoopInv, Doomed, Stopped, TypeOK
    <2>2. PlaceFits /\ FramesFit
      BY <1>1, <2>1 DEF LoopInv, Stopped
    <2>3. /\ RegsFit(env) /\ env.pc = "stub" /\ ctx_to.at = env.sp /\ env.sp \in 1..StackSize
          /\ mem[env.sp].kind = "stub" /\ ctx_to.arg = mem[env.sp].arg
          /\ env.sp + 1 \in 1..StackSize /\ \A i \in 1..env.sp : FrameFits(i)
      <3>1. /\ RegsFit(env) /\ env.pc = "stub" /\ ctx_to.at = env.sp /\ Room(1)
            /\ ctx_to.arg = mem[env.sp].arg
        BY <1>1, <2>2 DEF PlaceFits
      <3>2. env.sp \in 1..StackSize /\ mem[env.sp].kind = "stub"
        BY <3>1 DEF RegsFit
      <3>3. env.sp + 1 \in 1..StackSize
        <4>1. env.sp + 1 <= StackSize
          BY <1>1, <3>1 DEF Room
        <4> QED
          BY <3>2, <4>1, LoopAssumption
      <3>4. \A i \in 1..env.sp : FrameFits(i)
        BY <1>1, <2>2 DEF FramesFit, Top
      <3> QED
        BY <3>1, <3>2, <3>3, <3>4
    <2>n. PICK n \in 1..StackSize : n = env.sp /\ n \in Nat /\ n + 1 \in 1..StackSize
      BY <2>3, LoopAssumption
    <2>4. /\ mem' \in [1..StackSize -> Cell] /\ hsp' = n + 1
          /\ mem'[n + 1].kind = "host" /\ mem'[n + 1].arg = ctx_to.arg
          /\ \A i \in 1..n : mem'[i] = mem[i]
      <3> DEFINE h == Frame("host", At(env.pc, env.lr, 0, ctx_to.arg), "open")
      <3>1. mem \in [1..StackSize -> Cell] /\ env.pc \in PC /\ env.lr \in PC /\ ctx_to.arg \in Arg
        BY <1>2 DEF TypeOK, Regs, Ctx
      <3>2. h \in Cell /\ h.kind = "host" /\ h.arg = ctx_to.arg
        <4>1. 0 \in Addr /\ "host" \in Kind /\ "open" \in HMask
          BY LoopAssumption DEF Addr, Kind, Mask, HMask
        <4> QED BY <3>1, <4>1 DEF At, Frame, Cell
      <3>3. mem' = [mem EXCEPT ![n + 1] = h] /\ hsp' = n + 1
        BY <1>5, <2>3, <2>n
      <3> HIDE DEF h
      <3>4. mem' \in [1..StackSize -> Cell] /\ mem'[n + 1] = h
        BY <2>n, <3>1, <3>2, <3>3
      <3>5. \A i \in 1..n : i # n + 1 /\ i \in 1..StackSize
        BY <2>n
      <3>6. \A i \in 1..n : mem'[i] = mem[i]
        BY <3>1, <3>3, <3>5
      <3> QED
        BY <3>2, <3>3, <3>4, <3>6
    <2>5. TypeOK'
      <3>1. hsp' \in Addr
        <4>1. n + 1 \in Addr
          BY <2>n, LoopAssumption DEF Addr
        <4> QED BY <2>4, <4>1
      <3> QED
        BY <1>1, <1>2, <1>3, <1>5, <2>4, <3>1 DEF TypeOK, Where
    <2>6. cbFunc' = "cbFunc"
      BY <1>1, <1>5 DEF LoopInv
    <2>7. FramesFit'
      <3>1. n \in Addr /\ \A i \in 1..n : mem'[i] = mem[i] /\ FrameFits(i)
        <4>1. n \in Addr
          BY <2>n DEF Addr
        <4> QED BY <2>3, <2>n, <2>4, <4>1
      <3>2. \A i \in 1..n : FrameFits(i)'
        BY <1>1, <3>1, FramesKept
      <3>3. (n + 1) - 1 = n /\ mem'[n] = mem[n] /\ n + 1 > 1 /\ mem[n].kind = "stub"
            /\ mem'[n + 1].arg = mem[n].arg
        <4>1. n \in 1..n /\ (n + 1) - 1 = n /\ n + 1 > 1
          BY <2>n
        <4> QED BY <2>3, <2>n, <2>4, <4>1
      <3>4. FrameFits(n + 1)'
        <4>1. mem'[n + 1].arg \in Qlib
          BY <1>2, <1>5, <2>4 DEF TypeOK
        <4> QED BY <2>4, <2>6, <3>3, <4>1 DEF FrameFits
      <3>5. \A i \in 1..(n + 1) : i \in 1..n \/ i = n + 1
        BY <2>n
      <3> QED
        BY <1>5, <2>4, <3>2, <3>4, <3>5 DEF FramesFit, Top
    <2>8. PlaceFits'
      <3>1. hsp' \in 2..StackSize /\ env'.sp = hsp' - 1 /\ env'.pc = "stub"
        <4>1. n + 1 \in 2..StackSize /\ n = (n + 1) - 1
          BY <2>n
        <4> QED BY <1>1, <2>3, <2>n, <2>4, <4>1
      <3>2. mem'[env'.sp] = mem[env.sp]
        <4>1. n \in 1..n
          BY <2>n
        <4> QED BY <1>1, <2>n, <2>4, <4>1
      <3>3. HostServesCaller'
        BY <2>3, <2>n, <2>4, <3>1, <3>2 DEF HostServesCaller
      <3> QED
        BY <1>5, <3>1, <3>3 DEF PlaceFits
    <2> QED
      BY <1>1, <1>2, <1>5, <2>1, <2>5, <2>7, <2>8, <2>6
      DEF LoopInv, SwitchSlotFree, MasksFit, InForce, Stopped, NeverAstray
  <1> QED
    BY <1>4, <1>5 DEF gyh_do_call, SavedMask, Reset

LEMMA ResumeCallbackInv == LoopInv /\ ResumeCallback => LoopInv'
  <1> SUFFICES ASSUME LoopInv, ResumeCallback PROVE LoopInv'
      OBVIOUS
  <1>1. /\ pc = "loop" /\ ctx_to.to = "callback" /\ loop_ctx' = hmask
        /\ UNCHANGED <<mem, gyh_syscall, cbFunc, registered, gmask, pending, queued, raised, count, torn>>
    BY DEF ResumeCallback, SavedMask, Reset, NotedSp, moduleVars
  <1>2. TypeOK /\ MasksFit /\ loop_ctx' \in HMask /\ InForce(loop_ctx)' /\ torn \in BOOLEAN
    BY <1>1 DEF LoopInv, MasksFit, InForce, TypeOK
  <1>3. CASE torn
    <2>1. mem[ctx_to.at].kind = "sig"
      BY <1>1, <1>3 DEF LoopInv, Doomed, Stopped
    <2>2. pc' = "wild" /\ UNCHANGED <<hsp, hmask, env, ctx_to>>
      BY <2>1 DEF ResumeCallback, SavedMask, Reset, NotedSp
    <2>3. TypeOK'
      BY <1>1, <1>2, <2>2 DEF TypeOK, Where, Stopped
    <2> QED
      BY <1>1, <1>3, <2>2, <2>3 DEF LoopInv, SwitchSlotFree, MasksFit, InForce, NeverAstray, Stopped
  <1>4. CASE ~torn
    <2>1. PlaceFits /\ FramesFit
      BY <1>1, <1>4 DEF LoopInv, Stopped
    <2>2. /\ env.sp \in 1..StackSize /\ mem[env.sp].kind = "ctx" /\ env.pc = "stub"
          /\ ctx_to.at = env.sp /\ \A i \in 1..env.sp : FrameFits(i)
      BY <1>1, <2>1 DEF PlaceFits, FramesFit, Top
    <2>3. /\ env.sp > 2 /\ mem[env.sp].sp = env.sp - 1 /\ mem[env.sp - 1].kind = "host"
          /\ mem[env.sp - 1].sp = env.sp - 2
      <3>1. FrameFits(env.sp)
        BY <2>2
      <3> QED
        BY <2>2, <3>1 DEF FrameFits
    <2>4. mem[env.sp - 2].kind = "stub" /\ mem[env.sp - 1].arg = mem[env.sp - 2].arg
      <3>1. FrameFits(env.sp - 1) /\ (env.sp - 1) - 1 = env.sp - 2
        BY <2>2, <2>3
      <3> QED
        BY <2>3, <3>1 DEF FrameFits
    <2>5. /\ hsp' = env.sp - 1 /\ hmask' = mem[env.sp].mask
          /\ env' = At("stub", env.lr, env.sp - 2, env.arg) /\ ctx_to' = NULL /\ pc' = "host"
      BY <2>2, <2>3 DEF ResumeCallback, SavedMask, Reset, NotedSp
    <2>n. PICK n \in Nat : /\ n = env.sp /\ n > 2 /\ n \in 1..StackSize /\ n - 1 \in 2..StackSize
                           /\ n - 1 \in Addr /\ n - 2 \in Addr
      <3>1. env.sp \in Nat /\ env.sp > 2 /\ env.sp <= StackSize
        BY <2>2, <2>3, LoopAssumption
      <3> QED BY <3>1, LoopAssumption DEF Addr
    <2>6. /\ env' \in Regs /\ env'.sp = n - 2 /\ env'.pc = "stub"
          /\ hmask' \in HMask /\ hsp' \in Addr /\ ctx_to' \in Ctx
      <3>1. env.lr \in PC /\ env.arg \in Arg /\ "stub" \in PC
        BY <1>2 DEF TypeOK, Regs, PC
      <3>2. env' \in Regs /\ env'.sp = n - 2 /\ env'.pc = "stub"
        BY <2>n, <2>5, <3>1 DEF At, Regs
      <3>3. mem[n] \in Cell
        BY <1>2, <2>n DEF TypeOK
      <3>4. hmask' \in HMask
        BY <2>n, <2>5, <3>3 DEF Cell
      <3>5. ctx_to' \in Ctx
        BY <2>5, LoopAssumption DEF NULL, Ctx, Addr, Arg, Mask, HMask
      <3> QED BY <2>n, <2>5, <3>2, <3>4, <3>5
    <2>7. TypeOK'
      BY <1>1, <1>2, <2>5, <2>6 DEF TypeOK, Where
    <2>8. FramesFit'
      <3>1. hsp' \in Addr /\ \A i \in 1..hsp' : mem'[i] = mem[i] /\ FrameFits(i)
        <4>1. \A i \in 1..(n - 1) : i \in 1..n
          BY <2>n
        <4> QED BY <1>1, <2>2, <2>n, <2>5, <4>1
      <3> QED
        BY <1>1, <2>5, <3>1, FramesKept DEF FramesFit, Top
    <2>9. PlaceFits'
      <3>1. hsp' \in 2..StackSize /\ env'.sp = hsp' - 1
        <4>1. n - 2 = (n - 1) - 1
          BY <2>n
        <4> QED BY <2>n, <2>5, <2>6, <4>1
      <3>2. HostServesCaller'
        BY <1>1, <2>3, <2>4, <2>n, <2>5, <2>6, <3>1 DEF HostServesCaller
      <3> QED
        BY <2>5, <3>1, <3>2 DEF PlaceFits
    <2> QED
      BY <1>1, <1>2, <1>4, <2>5, <2>7, <2>8, <2>9
      DEF LoopInv, SwitchSlotFree, MasksFit, InForce, Stopped, NeverAstray
  <1> QED
    BY <1>2, <1>3, <1>4

(* While a host function runs nothing is torn.                             *)
HostInv ==
  /\ TypeOK /\ ~torn /\ HostServesCaller /\ hsp \in 2..StackSize
  /\ \A i \in 1..hsp : FrameFits(i)
  /\ ctx_to = NULL /\ MasksFit /\ loop_ctx \in HMask /\ cbFunc = "cbFunc"
  /\ mem[hsp].arg \in Qlib

LEMMA AtHost == LoopInv /\ pc = "host" => HostInv
  <1> SUFFICES ASSUME LoopInv, pc = "host" PROVE HostInv
    OBVIOUS
  <1>1. ~torn
    BY DEF LoopInv, Doomed, Stopped
  <1>2. PlaceFits /\ FramesFit
    BY <1>1 DEF LoopInv, Stopped
  <1>3. HostServesCaller /\ hsp \in 2..StackSize /\ \A i \in 1..hsp : FrameFits(i)
    BY <1>2 DEF PlaceFits, FramesFit, Top
  <1>4. cbFunc = "cbFunc" /\ mem[hsp].arg \in Qlib
    <2>1. FrameFits(hsp) /\ mem[hsp].kind = "host"
      BY <1>3 DEF HostServesCaller
    <2> QED
      BY <1>3, <2>1 DEF FrameFits
  <1> QED
    BY <1>1, <1>3, <1>4 DEF LoopInv, HostInv, SwitchSlotFree, MasksFit, InForce, TypeOK, HMask

LEMMA CellUpdate ==
  ASSUME NEW f \in Cell, NEW a \in Addr
  PROVE  [f EXCEPT !.sp = a] \in Cell
  BY DEF Cell

LEMMA HostReturnInv == LoopInv /\ HostReturn => LoopInv'
  <1> SUFFICES ASSUME LoopInv, HostReturn PROVE LoopInv'
      OBVIOUS
  <1>1. HostInv /\ pc = "host"
    BY AtHost DEF HostReturn
  <1>2. /\ pc' = "cpu" /\ gyh_syscall' = [num |-> "none", arg |-> Junk] /\ hmask' = loop_ctx
        /\ UNCHANGED <<env, mem, hsp, ctx_to, loop_ctx, cbFunc, registered, gmask, pending, queued,
                       raised, count, torn>>
    BY DEF HostReturn, ToCpu, contextVars, moduleVars
  <1>3. /\ env.pc = "stub" /\ env.sp = hsp - 1 /\ env.sp \in 1..StackSize
        /\ mem[env.sp].kind = "stub"
    BY <1>1 DEF HostInv, HostServesCaller
  <1>4. TypeOK'
    BY <1>1, <1>2 DEF HostInv, TypeOK, Where, Num, Arg
  <1>5. FramesFit'
    <2>1. env.sp \in Addr /\ \A i \in 1..env.sp : mem'[i] = mem[i] /\ FrameFits(i)
      <3>1. env.sp \in Addr /\ \A i \in 1..env.sp : i \in 1..hsp
        BY <1>1, <1>3, LoopAssumption DEF HostInv, Addr
      <3>2. \A i \in 1..hsp : FrameFits(i)
        BY <1>1 DEF HostInv
      <3> QED BY <1>2, <3>1, <3>2
    <2> QED
      BY <1>2, <2>1, FramesKept DEF FramesFit, Top
  <1>6. PlaceFits'
    BY <1>2, <1>3 DEF PlaceFits, RegsFit
  <1> QED
    BY <1>1, <1>2, <1>4, <1>5, <1>6
    DEF HostInv, LoopInv, SwitchSlotFree, MasksFit, InForce, Stopped, NeverAstray

LEMMA CallbackInv == LoopInv /\ __gyh_callback__ => LoopInv'
  <1> SUFFICES ASSUME LoopInv, __gyh_callback__ PROVE LoopInv'
      OBVIOUS
  <1>1. HostInv /\ pc = "host"
    BY AtHost DEF __gyh_callback__
  <1>2. /\ pc' = "cpu" /\ gyh_syscall' = [num |-> "none", arg |-> Junk] /\ hmask' = loop_ctx
        /\ count' = [count EXCEPT !.callbacks = @ + 1]
        /\ UNCHANGED <<hsp, ctx_to, loop_ctx, cbFunc, registered, gmask, pending, queued, raised, torn>>
    BY <1>1 DEF HostInv, __gyh_callback__, BelowHost, CountCallback, ToCpu, contextVars, moduleVars
  <1>3. /\ env.pc = "stub" /\ env.sp = hsp - 1 /\ env.sp \in 1..StackSize
        /\ mem[hsp].kind = "host" /\ mem[env.sp].kind = "stub" /\ mem[hsp].arg = mem[env.sp].arg
        /\ hsp + 3 <= StackSize
    BY <1>1 DEF HostInv, HostServesCaller, __gyh_callback__, Room
  <1>4. /\ env' \in Regs /\ env'.pc = "cbFunc"
        /\ env'.sp = IF Arch = "x86_64" THEN hsp + 2 ELSE hsp + 1
        /\ Arch # "x86_64" => env'.lr = "stub"
    <2>1. env' = IF Arch = "x86_64" THEN At("cbFunc", env.lr, hsp + 2, Junk)
                 ELSE At("cbFunc", "stub", hsp + 1, Junk)
      BY <1>1, <1>3 DEF HostInv, __gyh_callback__, BelowHost
    <2>2. hsp + 1 \in Addr /\ hsp + 2 \in Addr /\ env.lr \in PC
      BY <1>1, <1>3 DEF HostInv, TypeOK, Regs, Addr
    <2> QED
      BY <2>1, <2>2 DEF At, Regs, PC, Arg
  <1>5. /\ mem' \in [1..StackSize -> Cell] /\ \A i \in 1..(hsp - 1) : mem'[i] = mem[i]
        /\ mem'[hsp] = [mem[hsp] EXCEPT !.sp = env.sp]
        /\ mem'[hsp + 1].kind = "ctx" /\ mem'[hsp + 1].sp = hsp
        /\ Arch = "x86_64" => mem'[hsp + 2].kind = "ret" /\ mem'[hsp + 2].pc = "stub"
    <2> DEFINE h == [mem[hsp] EXCEPT !.sp = env.sp]
               c == Frame("ctx", At(env.pc, env.lr, hsp, env.arg), hmask)
               t == Frame("ret", env, "open")
    <2>1. mem' = IF Arch = "x86_64" THEN [mem EXCEPT ![hsp] = h, ![hsp + 1] = c, ![hsp + 2] = t]
                 ELSE [mem EXCEPT ![hsp] = h, ![hsp + 1] = c]
      BY <1>1 DEF HostInv, __gyh_callback__, BelowHost
    <2>2. /\ hsp \in 2..StackSize /\ hsp + 1 \in 1..StackSize /\ hsp + 2 \in 1..StackSize
          /\ mem \in [1..StackSize -> Cell]
      BY <1>1, <1>3 DEF HostInv, TypeOK
    <2>3. h \in Cell
      BY <1>1, <2>2, CellUpdate DEF HostInv, TypeOK, Regs
    <2>4. c \in Cell /\ c.kind = "ctx" /\ c.sp = hsp
      BY <1>1 DEF HostInv, TypeOK, Frame, At, Cell, Regs, Kind
    <2>5. t \in Cell /\ t.kind = "ret" /\ t.pc = "stub"
      BY <1>1, <1>3 DEF HostInv, TypeOK, Frame, Cell, Regs, Kind, Mask, HMask
    <2> HIDE DEF h, c, t
    <2>6. /\ mem' \in [1..StackSize -> Cell] /\ \A i \in 1..(hsp - 1) : mem'[i] = mem[i]
          /\ mem'[hsp] = h /\ mem'[hsp + 1] = c /\ (Arch = "x86_64" => mem'[hsp + 2] = t)
      BY <2>1, <2>2, <2>3, <2>4, <2>5
    <2> QED
      BY <2>4, <2>5, <2>6 DEF h
  <1>6. mem'[hsp].kind = "host" /\ mem'[hsp].arg = mem[hsp].arg /\ mem'[hsp].sp = hsp - 1
    BY <1>1, <1>3, <1>5 DEF HostInv, TypeOK, Cell
  <1>7. TypeOK'
    BY <1>1, <1>2, <1>4, <1>5, CountOK DEF HostInv, TypeOK, Where, Num, Arg, Counts
  <1>8. FramesFit'
    <2>1. hsp - 1 \in Addr /\ \A i \in 1..(hsp - 1) : mem'[i] = mem[i] /\ FrameFits(i)
      BY <1>1, <1>5 DEF HostInv, Addr
    <2>2. \A i \in 1..(hsp - 1) : FrameFits(i)'
      BY <1>2, <2>1, FramesKept
    <2>3. \A i \in {hsp} : FrameFits(i)'
      <3>1. hsp > 1 /\ mem'[hsp - 1] = mem[env.sp] /\ cbFunc' = "cbFunc"
        BY <1>1, <1>2, <1>3, <1>5 DEF HostInv
      <3>2. mem[hsp].arg \in Qlib
        BY <1>1 DEF HostInv
      <3> QED
        BY <1>3, <1>6, <3>1, <3>2 DEF FrameFits
    <2>4. \A i \in {hsp + 1} : FrameFits(i)'
      <3>1. hsp + 1 > 2 /\ (hsp + 1) - 1 = hsp /\ (hsp + 1) - 2 = hsp - 1
        BY <1>1 DEF HostInv
      <3> QED
        BY <1>5, <1>6, <3>1 DEF FrameFits
    <2>5. Arch = "x86_64" => \A i \in {hsp + 2} : FrameFits(i)'
      <3>1. hsp + 2 > 1 /\ (hsp + 2) - 1 = hsp + 1
        BY <1>1 DEF HostInv
      <3> QED
        BY <1>5, <3>1 DEF FrameFits
    <2> QED
      BY <1>1, <1>2, <1>4, <2>2, <2>3, <2>4, <2>5 DEF FramesFit, Top, HostInv
  <1>9. PlaceFits'
    <2>1. RegsFit(env)'
      BY <1>1, <1>3, <1>4, <1>5 DEF RegsFit, CallbackSlot, HostInv
    <2> QED
      BY <1>2, <2>1 DEF PlaceFits
  <1> QED
    BY <1>1, <1>2, <1>7, <1>8, <1>9 DEF HostInv, LoopInv, SwitchSlotFree, MasksFit, InForce, Stopped, NeverAstray

LEMMA NextInv == LoopInv /\ [Next]_vars => LoopInv'
  <1> SUFFICES ASSUME LoopInv, [Next]_vars PROVE LoopInv'
    OBVIOUS
  <1>1. CASE Guest
    BY <1>1, GuestRequestInv, GuestStubReturnInv, GuestCallbackEntryInv, GuestCallbackDoneInv,
       GuestTrapInv, GuestSigreturnInv, GuestLongjmpInv, GuestExitInv DEF Guest
  <1>2. CASE Dispatch
    BY <1>2, DispatchNoneInv, DispatchCtorInv, DispatchDtorInv, CallInv, CallbackReturnInv
    DEF Dispatch
  <1>3. CASE Switch
    BY <1>3, LoopEmulateInv, DoCallInv, ResumeCallbackInv DEF Switch
  <1>4. CASE Host
    BY <1>4, CallbackInv, HostReturnInv DEF Host
  <1> QED
    BY <1>1, <1>2, <1>3, <1>4, RaiseInv, SignalsInv, StutterInv DEF Next, Ended

(* The inductive invariant holds of every behaviour of the emulation loop.  *)
THEOREM LoopInvariant == Spec => []LoopInv
  BY InitInv, NextInv, PTL DEF Spec

(* Type correctness of the loop's state: no stack pointer leaves the guest
   stack, and no signal mask is restored from a context gyh_cpu_loop never
   saved.                                                                  *)
THEOREM TypeCorrect == Spec => []TypeOK
  <1>1. LoopInv => TypeOK
    BY DEF LoopInv
  <1> QED
    BY <1>1, LoopInvariant, PTL

(* gyh_cpu_loop, __gyh_callback__ and gyh_callback_return never lose control,
   however calls, callbacks, signal handlers and longjmps nest, unless a
   signal frame comes between the trap of a call or callback_return and its
   handler.                                                                *)
THEOREM ControlKept == Spec => []NeverAstray
  <1>1. LoopInv => NeverAstray
    BY DEF LoopInv
  <1> QED
    BY <1>1, LoopInvariant, PTL

(* The host function that runs, first time or resumed by
   gyh_callback_return, is the one the guest stub right above it requested,
   and the guest registers are the ones to continue that stub with.        *)
THEOREM RightHostFunction == Spec => []HostServesCaller
  <1>1. LoopInv => HostServesCaller
    BY AtHost DEF HostInv, HostServesCaller
  <1> QED
    BY <1>1, LoopInvariant, PTL

(* The assertions gyh_cpu_loop_ctx_to == NULL never fail.                  *)
THEOREM AssertionsHold == Spec => []SwitchSlotFree
  <1>1. LoopInv => SwitchSlotFree
    BY DEF LoopInv
  <1> QED
    BY <1>1, LoopInvariant, PTL

(* Guest code runs under the guest's signal mask after every switch.       *)
THEOREM MaskFollowsGuest == Spec => []GuestMaskInForce
  <1>1. LoopInv => GuestMaskInForce
    BY DEF LoopInv, MasksFit, InForce, GuestMaskInForce
  <1> QED
    BY <1>1, LoopInvariant, PTL
LEMMA KeepsLiveFramesStep == LoopInv /\ [Next]_vars => KeepsLiveFrames
  <1> SUFFICES ASSUME LoopInv, [Next]_vars, NEW i \in 1..StackSize, i <= Top, i <= Top'
               PROVE  \/ mem'[i] = mem[i]
                      \/ pc = "host" /\ i = hsp /\ mem'[i] = [mem[i] EXCEPT !.sp = env.sp]
    BY DEF KeepsLiveFrames
  <1>1. TypeOK /\ mem \in [1..StackSize -> Cell] /\ env.sp \in Nat /\ hsp \in Nat
    BY DEF LoopInv, TypeOK, Regs, Addr
  <1>2. ASSUME pc # "host", NEW f, mem' = [mem EXCEPT ![env.sp + 1] = f]
        PROVE  mem'[i] = mem[i]
    BY <1>1, <1>2 DEF Top
  <1>3. CASE Guest
    BY <1>2, <1>3 DEF Guest, GuestRequest, GuestStubReturn, GuestCallbackEntry, GuestCallbackDone,
       GuestTrap, GuestSigreturn, GuestLongjmp, GuestExit
  <1>4. CASE process_pending_signals
    BY <1>2, <1>4 DEF process_pending_signals, Deliver, HostMask
  <1>5. CASE Dispatch
    BY <1>5 DEF Dispatch, DispatchNone, DispatchCtor, DispatchDtor, gyh_call, gyh_callback_return
  <1>6. CASE LoopEmulate \/ ResumeCallback
    BY <1>6 DEF LoopEmulate, ResumeCallback
  <1>7. CASE gyh_do_call
    <2>1. ctx_to.arg \in registered => ctx_to.at = env.sp
      BY <1>1, <1>7 DEF gyh_do_call, SavedMask, Reset, LoopInv, Doomed, PlaceFits, TypeOK, Stopped
    <2>2. pc # "host" /\ (mem' = mem \/ \E f : mem' = [mem EXCEPT ![env.sp + 1] = f])
      BY <1>7, <2>1 DEF gyh_do_call, SavedMask, Reset
    <2> QED
      BY <1>2, <2>2
  <1>8. CASE __gyh_callback__
    <2>1. /\ pc = "host" /\ i <= hsp /\ hsp \in 1..StackSize
          /\ hsp + 1 \in 1..StackSize /\ hsp + 2 \in 1..StackSize
      BY <1>8, AtHost DEF __gyh_callback__, Top, HostInv, Room
    <2> DEFINE h == [mem[hsp] EXCEPT !.sp = env.sp]
    <2>2. PICK c, t : \/ mem' = mem
                      \/ mem' = [mem EXCEPT ![hsp] = h, ![hsp + 1] = c]
                      \/ mem' = [mem EXCEPT ![hsp] = h, ![hsp + 1] = c, ![hsp + 2] = t]
      <3> DEFINE c == Frame("ctx", At(env.pc, env.lr, hsp, env.arg), hmask)
                 t == Frame("ret", env, "open")
      <3>1. \/ mem' = mem
            \/ mem' = [mem EXCEPT ![hsp] = h, ![hsp + 1] = c]
            \/ mem' = [mem EXCEPT ![hsp] = h, ![hsp + 1] = c, ![hsp + 2] = t]
        BY <1>8 DEF __gyh_callback__, BelowHost
      <3> QED
        BY <3>1
    <2> HIDE DEF h
    <2>3. i < hsp => mem'[i] = mem[i]
      BY <1>1, <2>1, <2>2
    <2>4. i = hsp => mem'[i] \in {mem[i], h}
      BY <1>1, <2>1, <2>2
    <2> QED
      BY <1>1, <2>1, <2>3, <2>4 DEF h
  <1>9. CASE HostReturn \/ Raise \/ Ended \/ UNCHANGED vars
    BY <1>9 DEF HostReturn, Raise, Ended, vars
  <1> QED
    BY <1>3, <1>4, <1>5, <1>6, <1>7, <1>8, <1>9 DEF Next, Switch, Host

(* Host code that runs on the guest stack and the guest code it calls back
   never overwrite each other's live frames.                               *)
THEOREM FramesNeverOverwritten == Spec => LiveFramesKept
  BY LoopInvariant, KeepsLiveFramesStep, PTL DEF Spec, LiveFramesKept
=============================================================================
