------------------------------ MODULE GyhLoop ------------------------------
(***************************************************************************)
(* The emulation loop of coMulator's QEMU (linux-user/+gyh): how control   *)
(* passes between the CPU loop, the emulated guest and the host functions  *)
(* that run ON THE GUEST STACK.                                            *)
(*                                                                         *)
(* One process, one thread.  The guest stack is a memory of cells, one per *)
(* frame; an address is the index of a cell and the stack grows with it.   *)
(* Popping a frame moves a stack pointer only: the cell keeps its contents *)
(* until it is overwritten, as the bytes of the real stack do.             *)
(***************************************************************************)
EXTENDS Integers, FiniteSets

CONSTANTS
  Arch,          \* the guest architecture: x86_64-on.c, aarch64-on.c, riscv64-on.c
  Qlib,          \* the guest modules that have a host half (.qso)
  StackSize,     \* bound: cells of the guest stack
  MaxSyscalls,   \* bound: ctor, dtor and call syscalls the guest issues
  MaxCallbacks,  \* bound: callbacks the host functions make
  MaxSignals     \* bound: asynchronous signals sent to the process

ASSUME LoopAssumption ==
  /\ Arch \in {"x86_64", "aarch64", "riscv64"}
  /\ StackSize \in Nat /\ StackSize >= 1
  /\ MaxSyscalls \in Nat /\ MaxCallbacks \in Nat /\ MaxSignals \in Nat

(* A register argument that is no request of the guest: the signal number
   a handler is entered with.                                              *)
Junk == "junk"
ASSUME JunkAssumption == Junk \notin Qlib

VARIABLES
  pc,             \* where the thread is
  env,            \* gyh_cpu_loop_env: the guest registers that matter
  mem,            \* the guest stack
  hsp,            \* stack pointer of the host code, meaningful while it runs
  ctx_to,         \* gyh_cpu_loop_ctx_to
  loop_ctx,       \* gyh_cpu_loop_ctx: the signal mask saved in it
  gyh_syscall,    \* the request gyh_do_cpu hands to the loop
  cbFunc,         \* gyh_cbFunc
  registered,     \* the modules gyh_qlibs knows (abstracts GyhQlibs)
  gmask, hmask,   \* signal mask of the guest (ts->signal_mask), of the host thread
  pending,        \* ts->signal_pending: process_pending_signals has work
  queued,         \* ts->sigtab: a signal waits for its delivery
  raised,         \* history: signals sent so far (bounds the environment)
  count,          \* gyh_breakdown_*
  torn            \* history: a signal frame was pushed between the trap of a
                  \* call or callback_return and the code that serves it

vars == <<pc, env, mem, hsp, ctx_to, loop_ctx, gyh_syscall, cbFunc, registered,
          gmask, hmask, pending, queued, raised, count, torn>>

-----------------------------------------------------------------------------
Stopped == {"abort", "wild", "exit"}
Where   == {"loop", "cpu", "signals", "dispatch", "host"} \cup Stopped

(* Guest program counters.  "code": in compiled guest code.  "stub": behind
   the syscall instruction of a __gyh_ctor__/__gyh_dtor__/__gyh_call__ stub.
   "cbFunc": first instruction of __gyh_callback_return__; "cbret": behind its
   syscall instruction.  "restorer": the signal trampoline.  "null": address 0. *)
PC   == {"code", "stub", "cbFunc", "cbret", "restorer", "null"}
Arg  == Qlib \cup {Junk}
Mask == {"open", "blocked"}
HMask == Mask \cup {"all"}   \* "all": QEMU blocks every signal for a while
Num  == {"none", "ctor", "dtor", "call", "callback_return"}
Addr == 0..StackSize

(* What a cell of the stack is: "main": the frame main runs in; "stub": the
   frame of a guest stub that traps; "host": gyh_do_call, the host function
   and __gyh_callback__; "ctx": the ucontext_t of __gyh_callback__; "ret": the
   return address x86_64 pushes; "cb": __gyh_callback_return__ and the guest
   code it calls; "sig": a signal frame and the handler on it; "free": never
   written.                                                                *)
Kind == {"main", "stub", "host", "ctx", "ret", "cb", "sig", "free"}
Cell == [kind: Kind, pc: PC, lr: PC, sp: Addr, arg: Arg, mask: HMask]
Regs == [pc: PC, lr: PC, sp: Addr, arg: Arg]

NULL == [to |-> "null", at |-> 0, arg |-> Junk, mask |-> "open"]
Ctx  == [to: {"null", "do_call", "callback"}, at: Addr, arg: Arg, mask: HMask]

(* The registers p, l, s and a; the frame of kind k that holds the registers e and the signal mask m.   *)
At(p, l, s, a) == [pc |-> p, lr |-> l, sp |-> s, arg |-> a]
Frame(k, e, m) == [kind |-> k, pc |-> e.pc, lr |-> e.lr, sp |-> e.sp,
                   arg |-> e.arg, mask |-> m]

Room(n) == (IF pc = "host" THEN hsp ELSE env.sp) + n <= StackSize

(* Frames guest code runs in, so that it can return or longjmp to them.    *)
GuestFrame == {"main", "cb", "sig"}

Init ==
  /\ pc = "loop"
  /\ env = At("code", "code", 1, Junk)
  /\ mem = [i \in 1..StackSize |->
               Frame(IF i = 1 THEN "main" ELSE "free", env, "open")]
  /\ hsp = 0
  /\ ctx_to = NULL
  /\ loop_ctx = "unset"
  /\ gyh_syscall = [num |-> "none", arg |-> Junk]
  /\ cbFunc = "null"
  /\ registered = {}
  /\ gmask = "open" /\ hmask = "open"
  /\ pending = FALSE /\ queued = FALSE
  /\ raised = 0
  /\ count = [syscalls |-> 0, calls |-> 0, callbacks |-> 0, callback_returns |-> 0]
  /\ torn = FALSE

signalVars  == <<gmask, hmask, pending, queued, raised>>
contextVars == <<hsp, ctx_to, loop_ctx>>
moduleVars  == <<cbFunc, registered>>

-----------------------------------------------------------------------------
(* The guest, emulated by cpu_exec.  It is compiled code that keeps to the
   calling convention; what it does next is its own choice.                *)

(* A stub of guest_rt pushes its frame, loads the request and traps; the
   first half of gyh_do_cpu copies the request.  The dtor stub of x86_64
   has no syscall instruction.                                             *)
GuestRequest(num, q) ==
  /\ pc = "cpu" /\ env.pc = "code"
  /\ Room(2) /\ count.syscalls < MaxSyscalls
  /\ num = "ctor" => q \notin registered
  /\ num = "dtor" => /\ Arch # "x86_64"
                     /\ q \in registered
                     /\ \A i \in 1..env.sp : mem[i].kind = "host" => mem[i].arg # q
  /\ env' = At("stub", env.lr, env.sp + 1, q)
  /\ mem' = [mem EXCEPT ![env.sp + 1] = Frame("stub", env', "open")]
  /\ gyh_syscall' = [num |-> num, arg |-> q]
  /\ pc' = "signals"
  /\ UNCHANGED <<contextVars, moduleVars, signalVars, count, torn>>

(* The stub pops its frame and returns to its caller.                      *)
GuestStubReturn ==
  /\ pc = "cpu" /\ env.pc = "stub"
  /\ IF mem[env.sp].kind = "stub"
     THEN pc' = "cpu" /\ env' = At("code", env.lr, env.sp - 1, env.arg)
     ELSE pc' = "wild" /\ UNCHANGED env
  /\ UNCHANGED <<mem, contextVars, gyh_syscall, moduleVars, signalVars, count, torn>>

(* __gyh_callback_return__ saves its link register in its frame and calls
   the callback stub.                                                      *)
GuestCallbackEntry ==
  /\ pc = "cpu" /\ env.pc = "cbFunc" /\ Room(1)
  /\ mem' = [mem EXCEPT ![env.sp + 1] = Frame("cb", env, "open")]
  /\ env' = At("code", env.lr, env.sp + 1, env.arg)
  /\ UNCHANGED <<pc, contextVars, gyh_syscall, moduleVars, signalVars, count, torn>>

(* The callback stub returned: __gyh_callback_return__ pops its frame and
   issues syscall 50906.                                                   *)
GuestCallbackDone ==
  /\ pc = "cpu" /\ env.pc = "code" /\ mem[env.sp].kind = "cb"
  /\ env' = At("cbret", mem[env.sp].lr, env.sp - 1, env.arg)
  /\ gyh_syscall' = [num |-> "callback_return", arg |-> Junk]
  /\ pc' = "signals"
  /\ UNCHANGED <<mem, contextVars, moduleVars, signalVars, count, torn>>

(* A system call that changes the guest's mask blocks all signals until
   process_pending_signals.  With a delivery due it only restarts.         *)
block_signals == ~pending /\ pending' = TRUE /\ hmask' = "all"

(* Any other trap: EXCP_INTERRUPT before any instruction, a fault, or a
   system call of guest code, which may change the signal mask.
   gyh_syscall stays as the loop initialised it.                           *)
GuestTrap ==
  /\ pc = "cpu"
  /\ \/ UNCHANGED <<gmask, hmask, pending>>
     \/ env.pc = "code" /\ block_signals /\ gmask' \in Mask
  /\ pc' = "signals"
  /\ UNCHANGED <<env, mem, contextVars, gyh_syscall, moduleVars, queued, raised, count,
                 torn>>

(* A signal handler returns: rt_sigreturn reloads what the frame saved.    *)
GuestSigreturn ==
  /\ pc = "cpu" /\ env.pc = "code" /\ mem[env.sp].kind = "sig"
  /\ block_signals
  /\ LET f == mem[env.sp]
     IN  /\ env' = At(f.pc, f.lr, f.sp, f.arg)
         /\ gmask' = f.mask
  /\ pc' = "signals"
  /\ UNCHANGED <<mem, contextVars, gyh_syscall, moduleVars, queued, raised, count, torn>>

(* longjmp to a guest function further up the stack, over host frames too. *)
GuestLongjmp ==
  /\ pc = "cpu" /\ env.pc = "code"
  /\ \E i \in 1..(env.sp - 1) :
        /\ mem[i].kind \in GuestFrame
        /\ env' = At("code", env.lr, i, env.arg)
  /\ UNCHANGED <<pc, mem, contextVars, gyh_syscall, moduleVars, signalVars, count, torn>>

(* exit_group: gyh_atexit writes the counters, the process ends.           *)
GuestExit ==
  /\ pc = "cpu" /\ env.pc = "code"
  /\ pc' = "exit"
  /\ UNCHANGED <<env, mem, contextVars, gyh_syscall, moduleVars, signalVars, count, torn>>

-----------------------------------------------------------------------------
(* host_signal_handler: a signal the thread does not block is queued, and all
   are blocked until process_pending_signals.                              *)
Raise ==
  /\ pc \notin Stopped /\ raised < MaxSignals /\ hmask = "open"
  /\ queued' = TRUE /\ pending' = TRUE /\ hmask' = "all" /\ raised' = raised + 1
  /\ UNCHANGED <<pc, env, mem, contextVars, gyh_syscall, moduleVars, gmask, count, torn>>

(* Whether a queued signal is delivered now.                               *)
Mut_NeverDeliver == FALSE
Deliver == pending /\ queued /\ gmask = "open"

(* The host mask after process_pending_signals, for the guest's mask m.     *)
Mut_HostMask(m) == hmask
HostMask(m) == IF pending THEN m ELSE hmask

(* process_pending_signals, the last statement of gyh_do_cpu whatever the
   trap was: if signal_pending is set, a deliverable signal gets its frame,
   the registers become those of the handler, and the host mask becomes the
   guest's.  A frame that does not fit the stack ends the process.         *)
process_pending_signals ==
  /\ pc = "signals"
  /\ IF Deliver /\ Room(1)
     THEN /\ mem' = [mem EXCEPT ![env.sp + 1] = Frame("sig", env, gmask)]
          /\ env' = At("code", "restorer", env.sp + 1, Junk)
          /\ gmask' = "blocked"
          /\ queued' = FALSE
          /\ torn' = (torn \/ gyh_syscall.num \in {"call", "callback_return"})
     ELSE UNCHANGED <<mem, env, gmask, queued, torn>>
  /\ pending' = FALSE
  /\ hmask' = HostMask(gmask')
  /\ pc' = IF Deliver /\ ~Room(1) THEN "abort" ELSE "dispatch"
  /\ UNCHANGED <<contextVars, gyh_syscall, moduleVars, raised, count>>

-----------------------------------------------------------------------------
(* The switch of gyh_cpu_loop.                                             *)

(* The ABI keeps the stack pointer of x86_64 16-byte aligned in a stub and
   8 bytes off on entry to a signal handler; aarch64 and riscv64 keep it
   aligned everywhere.                                                     *)
Aligned(sp) == Arch = "x86_64" => mem[sp].kind # "sig"

CountSyscall(c) == [c EXCEPT !.syscalls = @ + 1]

DispatchNone ==
  /\ pc = "dispatch" /\ gyh_syscall.num = "none"
  /\ pc' = "loop"
  /\ UNCHANGED <<env, mem, contextVars, gyh_syscall, moduleVars, signalVars, count, torn>>

(* gyh_ctor, gyh_ctor_grt, gyh_ctor_fcp_cm: every failure aborts.  They use
   the copied arguments.                                                   *)
DispatchCtor ==
  /\ pc = "dispatch" /\ gyh_syscall.num = "ctor"
  /\ \/ /\ cbFunc' = "cbFunc"
        /\ registered' = registered \cup {gyh_syscall.arg}
        /\ count' = CountSyscall(count)
        /\ pc' = "loop"
     \/ /\ pc' = "abort"
        /\ UNCHANGED <<moduleVars, count>>
  /\ UNCHANGED <<env, mem, contextVars, gyh_syscall, signalVars, torn>>

DispatchDtor ==
  /\ pc = "dispatch" /\ gyh_syscall.num = "dtor"
  /\ registered' = registered \ {gyh_syscall.arg}
  /\ count' = CountSyscall(count)
  /\ pc' = "loop"
  /\ UNCHANGED <<env, mem, contextVars, gyh_syscall, cbFunc, signalVars, torn>>

(* gyh_call and gyh_call_grt build the context of gyh_do_call from the
   registers as they are now.                                              *)
gyh_call ==
  /\ pc = "dispatch" /\ gyh_syscall.num = "call"
  /\ IF Aligned(env.sp) /\ ctx_to = NULL
     THEN /\ ctx_to' = [to |-> "do_call", at |-> env.sp, arg |-> env.arg, mask |-> hmask]
          /\ count' = CountSyscall([count EXCEPT !.calls = @ + 1])
          /\ pc' = "loop"
     ELSE /\ pc' = "abort"
          /\ count' = [count EXCEPT !.calls = @ + 1]
          /\ UNCHANGED ctx_to
  /\ UNCHANGED <<env, mem, hsp, loop_ctx, gyh_syscall, moduleVars, signalVars, torn>>

(* Mutant: the return address stays on the stack.                          *)
Mut_AfterRetNoPop ==
  IF Arch # "x86_64" THEN At(env.lr, env.lr, env.sp, env.arg)
  ELSE At(mem[env.sp].pc, env.lr, env.sp, env.arg)

(* The registers after the emulated ret of syscall 50906: x86_64 pops the
   return address, of which a signal frame holds the trampoline's; the
   others branch to the link register.                                     *)
AfterRet ==
  CASE Arch # "x86_64"            -> At(env.lr, env.lr, env.sp, env.arg)
    [] mem[env.sp].kind = "ret"   -> At(mem[env.sp].pc, env.lr, env.sp - 1, env.arg)
    [] OTHER                      -> At("restorer", env.lr, env.sp, env.arg)

gyh_callback_return ==
  /\ pc = "dispatch" /\ gyh_syscall.num = "callback_return"
  /\ env' = AfterRet
  /\ IF ctx_to = NULL
     THEN /\ ctx_to' = [to |-> "callback", at |-> env'.sp, arg |-> Junk, mask |-> "open"]
          /\ count' = CountSyscall([count EXCEPT !.callback_returns = @ + 1])
          /\ pc' = "loop"
     ELSE /\ pc' = "abort"
          /\ count' = [count EXCEPT !.callback_returns = @ + 1]
          /\ UNCHANGED ctx_to
  /\ UNCHANGED <<mem, hsp, loop_ctx, gyh_syscall, moduleVars, signalVars, torn>>

-----------------------------------------------------------------------------
(* The top of gyh_cpu_loop and the code it switches to.                    *)

(* gyh_syscall is a fresh, zero-initialised local of every iteration (QEMU
   is built with -ftrivial-auto-var-init=zero).                            *)
ToCpu == pc' = "cpu" /\ gyh_syscall' = [num |-> "none", arg |-> Junk]

LoopEmulate ==
  /\ pc = "loop" /\ ctx_to = NULL
  /\ ToCpu
  /\ UNCHANGED <<env, mem, contextVars, moduleVars, signalVars, count, torn>>

(* What swapcontext saves in gyh_cpu_loop_ctx, and what the code it reaches
   leaves in gyh_cpu_loop_ctx_to.                                          *)
Mut_NotSaved == loop_ctx
SavedMask    == hmask
Mut_NotReset == ctx_to
Reset        == NULL

(* swapcontext into gyh_do_call, below the frame of the guest's stub.      *)
gyh_do_call ==
  /\ pc = "loop" /\ ctx_to.to = "do_call"
  /\ loop_ctx' = SavedMask /\ hmask' = ctx_to.mask
  /\ ctx_to' = Reset
  /\ \/ /\ ctx_to.arg = Junk     \* *qlibUid is no address
        /\ pc' = "wild"
        /\ UNCHANGED <<mem, hsp>>
     \/ /\ ctx_to.arg \in Qlib \ registered
        /\ pc' = "abort"
        /\ UNCHANGED <<mem, hsp>>
     \/ /\ ctx_to.arg \in registered
        /\ mem' = [mem EXCEPT ![ctx_to.at + 1] =
                     Frame("host", At(env.pc, env.lr, 0, ctx_to.arg), "open")]
        /\ hsp' = ctx_to.at + 1
        /\ pc' = "host"
  /\ UNCHANGED <<env, gyh_syscall, moduleVars, gmask, pending, queued, raised, count, torn>>

(* The guest's stack pointer that __gyh_callback__ noted in its frame h.    *)
Mut_KeptSp(h) == env.sp
NotedSp(h)    == mem[h].sp

(* swapcontext back into __gyh_callback__, whose last statements restore the
   guest's stack pointer from its local variable.                          *)
ResumeCallback ==
  /\ pc = "loop" /\ ctx_to.to = "callback"
  /\ loop_ctx' = SavedMask
  /\ LET c == mem[ctx_to.at]
     IN  IF c.kind = "ctx"
         THEN /\ hsp' = c.sp /\ hmask' = c.mask
              /\ env' = At(env.pc, env.lr, NotedSp(c.sp), env.arg)
              /\ ctx_to' = Reset
              /\ pc' = "host"
         ELSE pc' = "wild" /\ UNCHANGED <<hsp, hmask, env, ctx_to>>
  /\ UNCHANGED <<mem, gyh_syscall, moduleVars, gmask, pending, queued, raised, count, torn>>

(* __gyh_callback__ counts itself, and moves the guest's stack pointer below
   its own frame.                                                          *)
Mut_CountCallback(c) == c
CountCallback(c) == [c EXCEPT !.callbacks = @ + 1]
Mut_BelowGuest == env.sp - 1
BelowHost == hsp

(* __gyh_callback__ up to its swapcontext into the loop.                   *)
__gyh_callback__ ==
  /\ pc = "host"
  /\ Room(3) /\ count.callbacks < MaxCallbacks
  /\ IF ctx_to = NULL
     THEN LET c == Frame("ctx", At(env.pc, env.lr, hsp, env.arg), hmask)
          IN  /\ IF Arch = "x86_64"
                 THEN /\ mem' = [mem EXCEPT ![hsp].sp = env.sp, ![hsp + 1] = c,
                                            ![BelowHost + 2] = Frame("ret", env, "open")]
                      /\ env' = At(cbFunc, env.lr, BelowHost + 2, Junk)
                 ELSE /\ mem' = [mem EXCEPT ![hsp].sp = env.sp, ![hsp + 1] = c]
                      /\ env' = At(cbFunc, env.pc, BelowHost + 1, Junk)
              /\ count' = CountCallback(count)
              /\ hmask' = loop_ctx
              /\ ToCpu
     ELSE pc' = "abort" /\ UNCHANGED <<mem, env, count, hmask, gyh_syscall>>
  /\ UNCHANGED <<contextVars, moduleVars, gmask, pending, queued, raised, torn>>

(* Mutant: the outermost call is resumed.                                  *)
Mut_HostReturnOutermost ==
  /\ pc = "host"
  /\ hmask' = loop_ctx
  /\ ToCpu
  /\ LET outer == {i \in 1..env.sp : mem[i].kind = "stub"}
     IN  env' = At("stub", env.lr, CHOOSE i \in outer : \A j \in outer : i <= j, env.arg)
  /\ UNCHANGED <<mem, contextVars, moduleVars, gmask, pending, queued, raised, count, torn>>

(* The host function returns into gyh_do_call: setcontext to the loop.     *)
HostReturn ==
  /\ pc = "host"
  /\ hmask' = loop_ctx
  /\ ToCpu
  /\ UNCHANGED <<env, mem, contextVars, moduleVars, gmask, pending, queued, raised, count, torn>>
-----------------------------------------------------------------------------
Guest ==
  \/ \E num \in {"ctor", "dtor", "call"}, q \in Qlib : GuestRequest(num, q)
  \/ GuestStubReturn
  \/ GuestCallbackEntry
  \/ GuestCallbackDone
  \/ GuestTrap
  \/ GuestSigreturn
  \/ GuestLongjmp
  \/ GuestExit

Dispatch ==
  \/ DispatchNone
  \/ DispatchCtor
  \/ DispatchDtor
  \/ gyh_call
  \/ gyh_callback_return

Switch == LoopEmulate \/ gyh_do_call \/ ResumeCallback

Host == __gyh_callback__ \/ HostReturn

(* A process that ended stays ended.                                       *)
Ended == pc \in Stopped /\ UNCHANGED vars

Next ==
  \/ Guest
  \/ Raise
  \/ process_pending_signals
  \/ Dispatch
  \/ Switch
  \/ Host
  \/ Ended

Spec == Init /\ [][Next]_vars

(* The thread is scheduled: QEMU's own statements are executed, and since
   host_signal_handler kicks the CPU out of cpu_exec, guest code traps while a
   signal is pending.  Nothing is assumed of host functions or of the senders
   of signals.                                                             *)
FairSpec ==
  /\ Spec
  /\ WF_vars(process_pending_signals) /\ WF_vars(Dispatch) /\ WF_vars(Switch)
  /\ WF_vars(pending /\ GuestTrap)

-----------------------------------------------------------------------------
(* The variables keep their types; in particular no stack pointer leaves
   the stack and the host mask is never taken from a loop context that was
   not saved.                                                              *)
TypeOK ==
  /\ pc \in Where
  /\ env \in Regs
  /\ mem \in [1..StackSize -> Cell]
  /\ hsp \in Addr
  /\ ctx_to \in Ctx
  /\ loop_ctx \in HMask \cup {"unset"}
  /\ gyh_syscall \in [num: Num, arg: Arg]
  /\ cbFunc \in {"null", "cbFunc"}
  /\ registered \in SUBSET Qlib
  /\ gmask \in Mask /\ hmask \in HMask
  /\ pending \in BOOLEAN /\ queued \in BOOLEAN /\ torn \in BOOLEAN
  /\ raised \in Nat
  /\ count \in [syscalls: Nat, calls: Nat, callbacks: Nat, callback_returns: Nat]

(* The top of the stack in use.                                            *)
Top == IF pc = "host" THEN hsp ELSE env.sp

(* Whatever the nesting of calls, callbacks, signal handlers and longjmps,
   control never goes astray (a resumed context that is no context, a stub
   returning through a frame that is not its own, a wild *qlibUid in
   gyh_do_call), as long as no signal frame came between the trap of a call
   or callback_return and gyh_call or gyh_callback_return.                 *)
NeverAstray == pc = "wild" => torn

(* While a host function runs, first time or after its callbacks returned,
   it sits right below the stub frame that requested it, serves the module
   that frame requested, and the guest registers are those the guest must
   continue with: its stack pointer at that frame, its program counter
   behind the syscall instruction.                                         *)
HostServesCaller ==
  pc = "host" =>
    /\ env.pc = "stub" /\ env.sp = hsp - 1
    /\ mem[hsp].kind = "host" /\ mem[env.sp].kind = "stub"
    /\ mem[hsp].arg = mem[env.sp].arg

(* gyh_cpu_loop_ctx_to is reset by the code a switch reaches, so the three
   assertions gyh_cpu_loop_ctx_to == NULL of gyh_call, gyh_callback_return
   and __gyh_callback__ cannot fail.                                       *)
SwitchSlotFree == pc \in {"cpu", "signals", "dispatch", "host"} => ctx_to = NULL

(* A mask that stands for the guest's: the same, or all signals blocked while
   process_pending_signals is due.                                         *)
InForce(m) == m = gmask \/ (m = "all" /\ pending)

(* Guest code is emulated under the signal mask the guest set, although
   every switch installs the mask of another context and signals arrive in
   all of them: swapcontext saves the loop's mask each time the loop is left,
   and a mask that blocks everything is left in force only while
   process_pending_signals is due.                                         *)
GuestMaskInForce == pc = "cpu" => InForce(hmask)

(* The contexts saved by __gyh_callback__ that are still on the stack.     *)
SavedContexts == {i \in 1..Top : mem[i].kind = "ctx"}

(* Every callback counted is still on the stack, has been counted as
   returned, or was abandoned by a longjmp: more returns than callbacks, or
   a context that returns twice, cannot be.                                *)
CallbacksAccounted ==
  ~torn => count.callback_returns + Cardinality(SavedContexts)
             <= count.callbacks + (IF ctx_to.to = "callback" THEN 1 ELSE 0)

(* No step overwrites a frame of the stack that stays in use: host code works
   below the guest frames, the guest below the host frames and contexts of
   the callbacks it runs in.  The one exception is __gyh_callback__ noting
   the guest's stack pointer in its own frame.                             *)
KeepsLiveFrames ==
  \A i \in 1..StackSize :
    i <= Top /\ i <= Top' =>
      \/ mem'[i] = mem[i]
      \/ pc = "host" /\ i = hsp /\ mem'[i] = [mem[i] EXCEPT !.sp = env.sp]
LiveFramesKept == [][KeepsLiveFrames]_vars

(* The activation a cell of the stack stands for: the context __gyh_callback__
   saves is the guest activation it starts.  The other cells are details of
   stubs.                                                                  *)
IsActivation(f) == f.kind \in {"main", "host", "ctx", "sig"}
ActivationOf(f) == CASE f.kind = "host" -> <<"host", f.arg>>
                     [] f.kind = "sig"  -> <<"handler">>
                     [] OTHER           -> <<"guest">>

Activations == [i \in {j \in 1..Top : IsActivation(mem[j])} |-> ActivationOf(mem[i])]

Promise == INSTANCE OffloadStack
           WITH Place <- 1..StackSize, acts <- Activations, alive <- pc \notin Stopped

(* The emulation loop implements nested calls: every step of the loop, the
   guest stubs and the host code maps to a call, callback, return, signal,
   sigreturn or longjmp of OffloadStack, or changes no activation.         *)
ImplementsOffloadStack == Promise!Spec

(* A queued signal the guest does not block is delivered, unless a host
   function is running (it is not interrupted: the signal waits until it
   returns or calls back), the guest blocks it, or the process ends; all the
   switching through gyh_cpu_loop cannot postpone it for ever.             *)
SignalDelivered ==
  queued /\ gmask = "open" ~>
    ~queued \/ gmask = "blocked" \/ pc = "host" \/ pc \in Stopped

(* What gyh_callback_return says of the stack pointer it finds: it is where
   __gyh_callback__ saved its context.                                     *)
ContextAtReturn == pc = "loop" /\ ctx_to.to = "callback" => mem[ctx_to.at].kind = "ctx"
-----------------------------------------------------------------------------
(* The inductive invariant behind these properties.                        *)

(* Where __gyh_callback__ leaves the guest's stack pointer.                *)
CallbackSlot == IF Arch = "x86_64" THEN "ret" ELSE "ctx"

(* The registers e belong to the frame they point to.                      *)
RegsFit(e) ==
  /\ e.sp \in 1..StackSize
  /\ \/ e.pc = "code" /\ mem[e.sp].kind \in GuestFrame
     \/ e.pc = "stub" /\ mem[e.sp].kind = "stub"
     \/ /\ e.pc = "cbFunc" /\ mem[e.sp].kind = CallbackSlot
        /\ Arch # "x86_64" => e.lr = "stub"

(* The cell i belongs on the cell above it.                                *)
FrameFits(i) ==
  LET f == mem[i]
      up == mem[i - 1]
  IN  \/ i = 1 /\ f.kind = "main"
      \/ i > 1 /\ f.kind = "stub" /\ up.kind \in GuestFrame
      \/ i > 1 /\ f.kind = "host" /\ up.kind = "stub" /\ f.arg = up.arg
           /\ f.arg \in Qlib /\ cbFunc = "cbFunc"
      \/ i > 2 /\ f.kind = "ctx" /\ f.sp = i - 1 /\ up.kind = "host" /\ up.sp = i - 2
      \/ i > 1 /\ f.kind = "ret" /\ f.pc = "stub" /\ up.kind = "ctx"
      \/ i > 1 /\ f.kind = "cb" /\ up.kind = CallbackSlot
           /\ (Arch # "x86_64" => f.lr = "stub")
      \/ i > 1 /\ f.kind = "sig" /\ f.sp = i - 1 /\ f.mask \in Mask /\ RegsFit(f)

FramesFit == \A i \in 1..Top : FrameFits(i)

(* What holds at each place of a thread that has not gone astray.          *)
PlaceFits ==
  /\ pc = "cpu" => gyh_syscall.num = "none"
  /\ pc \in {"cpu", "signals", "dispatch"} /\ gyh_syscall.num # "callback_return" => RegsFit(env)
  /\ pc \in {"signals", "dispatch"} =>
       /\ gyh_syscall.num \in {"ctor", "dtor"} => gyh_syscall.arg \in Qlib
       /\ gyh_syscall.num = "call" =>
            env.pc = "stub" /\ env.arg \in Qlib /\ env.arg = mem[env.sp].arg /\ Room(1)
       /\ gyh_syscall.num = "callback_return" =>
            env.pc = "cbret" /\ RegsFit(At("cbFunc", env.lr, env.sp, env.arg))
  /\ pc = "loop" =>
       /\ ctx_to.to = "null" => RegsFit(env) /\ ctx_to = NULL
       /\ ctx_to.to = "do_call" =>
            /\ RegsFit(env) /\ env.pc = "stub" /\ ctx_to.at = env.sp /\ Room(1)
            /\ ctx_to.arg \in Qlib /\ ctx_to.arg = mem[env.sp].arg
       /\ ctx_to.to = "callback" =>
            /\ env.sp \in 1..StackSize /\ mem[env.sp].kind = "ctx"
            /\ env.pc = "stub" /\ ctx_to.at = env.sp
  /\ pc = "host" => hsp \in 2..StackSize /\ HostServesCaller

(* After a torn request the registers are a handler's, and the request is
   about to fail.                                                          *)
Doomed ==
  /\ env.sp \in 1..StackSize
  /\ \/ /\ pc = "dispatch" /\ gyh_syscall.num \in {"call", "callback_return"}
        /\ env.arg = Junk /\ mem[env.sp].kind = "sig"
     \/ pc = "loop" /\ ctx_to.to = "do_call" /\ ctx_to.arg = Junk
     \/ pc = "loop" /\ ctx_to.to = "callback" /\ ctx_to.at = env.sp
          /\ mem[env.sp].kind = "sig"

MasksFit ==
  /\ pc \in {"loop", "cpu", "signals", "dispatch"} => InForce(hmask)
  /\ pc = "host" => InForce(loop_ctx)
  /\ pc \notin Stopped /\ queued /\ gmask = "open" => pending

LoopInv ==
  /\ TypeOK
  /\ SwitchSlotFree
  /\ MasksFit
  /\ registered # {} => cbFunc = "cbFunc"
  /\ ~torn /\ pc \notin Stopped => PlaceFits /\ FramesFit
  /\ torn /\ pc \notin Stopped => Doomed
  /\ NeverAstray

=============================================================================
