# Verification of coMulator

coMulator runs a guest program under a modified QEMU (linux-user) and moves
("offloads") functions of the guest into native code of the host. A link-time pass
splits each guest module in two. In the *guest half* the bodies of the chosen
functions are replaced by stubs; the *host half* is compiled into a library
`<uid>.qso`. At run time a stub traps into QEMU, whose CPU loop runs the host
function **on the guest's own stack**. Host functions call back into the guest
through `__gyh_callback__`, and the two kinds of calls nest.

This directory models that control flow in TLA+, checks it with TLC on small
instances, and proves with TLAPS, for all instances, every safety property that a
passing run checks, the refinement of the abstract specification included.
`PROJECT.json` lists components, runs, mutants, theorems, findings and hazards, and
maps every definition to the source lines it models.

## The parts of the system

| Part | Code | Module |
| --- | --- | --- |
| Emulation loop: switches between CPU loop, guest and host code | `src/qemu/linux-user/+gyh/` (`gyh.c`, `<arch>-on.c`) | `GyhLoop` |
| Guest runtime stubs: the traps | `src/lib/guest_rt/<arch>.s` | guest actions of `GyhLoop` |
| Signal delivery, as the loop meets it | `src/qemu/linux-user/signal.c` | `GyhLoop` |
| Host library table: `gyh_do_ctor`, `gyh_dtor`, look-ups of calls | `gyh.c` | `GyhQlibs` |
| Guest threads: they run the stock loop | `src/qemu/linux-user/syscall.c` | `GyhQlibs` |
| Exclusive sections: stopping the other threads for atomic steps, fork and flushes | `src/qemu/cpu-common.c`, `cpu-exec.c`, `main.c`, `syscall.c` | `CpuExclusive` |
| Cross-module fast call path (FCP-CM): prefixes, their patching, the check | `gyh.c`, `TakeOut.cpp`, `ChopOff.cpp` | `FcpCm` |
| Link-time pass: PickUp, Outline, Analyze, TakeOut, ChopOff | `src/lib/gyhcall/` | `LtoPass` |
| Files of a configuration directory: links, stepwise tools, `hqlibs`; the keys of `symtbl.json` | `LtoPass.cpp`, `_main.hpp`, `src/app/*.cpp`, `hqlibs`, `Symtbl.cpp`, `util.cpp` | `Toolset` |
| Inspection tools, type hashes, wrappers, logging, libc component, experiment scripts | `src/app`, `src/lib`, `src/_run` | not modelled: pure functions of a file, output, or scripts |

How they interact: `LtoPass` decides which functions have a body in which half
and what the tables hold. When the guest loads a module, its constructor issues
a *ctor* request, which `GyhLoop` dispatches and `GyhQlibs` serves, by opening the
library and putting a slot number where the module had its uid; with FCP-CM the
constructor goes on as in `FcpCm`. A stub issues a *call* request: `GyhLoop` is
how control gets to the host function and back, `GyhQlibs` which function it is.
The modules are separate because their states hardly overlap: `GyhLoop` needs of
the table only which modules are registered (`registered`), and `GyhQlibs` treats
a call as one step. `LtoPass` is one link seen from inside; `Toolset` is several
links, tools and builds that share a directory. `CpuExclusive` is the layer of
QEMU below `GyhLoop`: what happens around each `cpu_exec` of each thread.

## Modules

### GyhLoop: the emulation loop

One thread; the guest stack is a memory of cells, one per frame. Popping moves a
stack pointer and leaves the cell as it is, so that using a dead frame is a state
of the model and not impossible by construction. The cells are what the code puts
there: the frame of a stub, the frame of `gyh_do_call` and the host function, the
`ucontext_t` of `__gyh_callback__`, the return address that x86_64 pushes, the
frame of `__gyh_callback_return__`, signal frames.

| State | Code |
| --- | --- |
| `pc` | where the thread is: top of the loop, `cpu_exec`, `process_pending_signals`, the switch, host code |
| `env` | the guest registers that matter: program counter, link register, stack pointer, first argument |
| `mem`, `hsp` | the guest stack, and the host code's pointer into it |
| `ctx_to`, `loop_ctx` | `gyh_cpu_loop_ctx_to`, and the signal mask in `gyh_cpu_loop_ctx` |
| `gyh_syscall` | the local of `gyh_cpu_loop` that carries a request |
| `gmask`, `hmask`, `pending`, `queued` | `ts->signal_mask`, the mask of the host thread, `ts->signal_pending`, the signal queue |
| `count` | `gyh_breakdown_*` |
| `torn` | history: a signal frame was pushed between the trap of a call or a callback_return and the code that serves it |

An action is a stretch of code in which nothing else can happen: a guest stub up
to its trap, the tail of `gyh_do_cpu`, one case of the switch of `gyh_cpu_loop`,
`gyh_do_call` up to the host function, `__gyh_callback__` up to its
`swapcontext`. Guest code may do what compiled code may do: call, return,
`longjmp` over host frames, change its mask, take a signal, exit. The dtor stub of
x86_64 has no syscall instruction, hence its guest makes no dtor request.

`OffloadStack` is the abstract specification: activations of guest functions, host
functions and handlers in one stack, as in a single C program. An activation has a
place, and the stack is a function from the places in use: pushing adds a place
further in, popping takes the innermost away. `Activations` of `GyhLoop` maps the
cells that are activations to it; the context that `__gyh_callback__` saves stands for the
guest code it starts, and the frames of stubs are details.

### GyhQlibs: the host library table

Guest modules ("images") get loaded, constructed, called, destructed, unloaded and
loaded again, perhaps elsewhere, in any order, from the first thread or another.
`qlibUid[i]` is the variable `__gyh_qlib_uid_*` of an image, its uid or its slot;
`refs` and `mapped` are the reference count and the address of a library as the
dynamic linker of the host keeps them; `grt` is the instance whose tables a library
refers to; `bound` is the definition of the weak `__gyh_callback_return__` an image
got. `last` records how the last call ended.

### FcpCm: the cross-module fast path

The two words before each function, the loop that patches them (one iteration a
step, with the pages it made writable), destruction, reloading, and the check of
the generated code. A magic word is represented by what the magic number is
xor'ed with; that two different words do not collide is an assumption. So is
`LinkAssumption`: the dynamic linker binds a definition to itself, and modules are
mapped to pages of their own.

### LtoPass: the link

One action per step of `LtoPass::run`, each with the save that may end the pass.
A function is abstracted to what the steps tell apart: its marks, what keeps its
body from being offloaded, whether chopping it pays, whether it has prefix data, and whom it
calls. `Reached` reads off the resulting tables what a call runs in the loaded
program. All diagnostics have severity `DS_Error`, so a reported error lets the
pass go on but no program is linked (`reported`); this is how the linker treats
them, and external to the repository's own sources. A function marked for Outline in
which nothing is found is reported; variadic ones are skipped before that, so
for declarations and refused functions, which may be variadic, the model leaves
the report open (`MaybeNothing`).

### CpuExclusive: the threads of a process

Every guest thread executes between `cpu_exec_start` and `cpu_exec_end`: the first
in `gyh_do_cpu`, the others in the stock loop. `pc[c]` is where thread `c` is;
`running`, `has_waiter`, `exit_request`, `work_list`, `pending_cpus` and
`running_cpus` are the variables of the code, `lock` is the holder of
`qemu_cpu_list_lock` where it is held over several steps, `scan` what is left of
`CPU_FOREACH`. A step has at most one access to `running` and `pending_cpus`, the
two variables accessed without the lock; the code separates its accesses by
`smp_mb`, so they are sequentially consistent. What happens under the lock only is
one step. Work items that are not exclusive stop nobody and are left out;
`work_list` counts the others. `CF_PARALLEL` is set, and a flush queued, by the first
`clone` and by `mmap` or `shmat` of shared memory (`MapShared`). Threads are created by the first thread or another, exit, fork (the
model goes on as the parent or as the child, which has the forking thread only)
and may be woken without a signal. The first thread may be in a host function,
which is outside `cpu_exec` and stopped by no section.

### Toolset: the configuration directory

Links, one stepwise tool at a time and `hqlibs` share `guest/` and `host/`. A file holds
the link it was made from, nothing (`Truncated`), or a module without functions
(`Hollow`), which is what LLVM makes of an empty `.ll`. `link[l]` is a link's
place in `LtoPass::run`, with the tries it made and, as history, how many failed
because the uid was taken (`taken`) and how many because the file system refused the
directory (`refused`). `create_directories` is two steps when
`guest/` is missing, and a link that loses the race for it has lost a try too; any
other error, as of permissions or a full disk, is `RefuseDir`, at every step. `hqlibs`
passes over directories without a host half and stops where clang fails
(`check=True`), which it may do on any file, and must on one that is not IR; a failing
clang leaves the library that was there or none. Tools
truncate their output before they read their input, as `_main.hpp` does. `spoilt`
is history: the directories in which a tool failed, overwrote its input or ran
beside another one. A tool is not run in the directory of a link that is still
saving (whoever runs it names the directory).

## Runs

`tlc -config <cfg> <module>`; distinct states in brackets.

**Passing**

| Run | Checks |
| --- | --- |
| `loop_x86_64` (604,049) | control never goes astray unless a signal tears a request (`NeverAstray`); the running host function serves the frame right above it, with the guest's registers as they must be (`HostServesCaller`); the assertions on `gyh_cpu_loop_ctx_to` (`SwitchSlotFree`); signal masks (`GuestMaskInForce`); callback counters (`CallbacksAccounted`); live frames are not overwritten (`LiveFramesKept`); signals get delivered (`SignalDelivered`); refinement of `OffloadStack` |
| `loop_aarch64` (793,049) | the inductive invariant of the proofs (`LoopInv`) and the refinement, for a guest with a link register that also destructs modules |
| `qlibs_aarch64` (1,475,860) | calls stay with their own library and tables (`CallServedByOwn`); no call enters a closed or moved library (`NeverStale`); a constructed image keeps its slot and open library (`ReadyServed`); its callback entry stays mapped (`CallbackEntryMapped`); the table is full only after one construction per slot (`FullWhenUsed`) |
| `fcpcm_all` (88,772) | writes go only to pages made writable (`PatchNeverFaults`); fast calls reach the function's own host half (`FastCallsOwn`); causes of "bad magic" (`AbortExplained`) |
| `pass_all` (about 1.09 million) | every call finds a body (`CallReachesBody`); what is switched off stays off (`OffStaysOff`); requests are met or reported (`RequestsMet`); when the pass dies (`DiesOnlyOnLists`); causes of "bad magic" (`AbortExplained`) |
| `exclusive` (439,951) | nobody executes translated code beside a section, and sections exclude each other (`ExclusiveAlone`); `start_exclusive` waits for just the CPUs that will report (`WaitersCounted`); nobody sleeps on a condition that holds (`NoLostWakeup`); every section asked for ends (`SectionEnds`); the inductive invariant of the proofs (`ExclInv`) |
| `tools` (1,075,051) | no program finds another one's library under its uid (`HalvesMatch`); of the three tries of a link the race for `guest/` costs at most one, so that it gives up only after two taken uids or refusals (`GivesUpLate`); where empty modules and libraries come from (`HollowExplained`); `hqlibs` exits with 0 only if all that was linked when it started has a library, and fails only at a directory with a host half (`BuildComplete`) |

**Violated**: each checks one sentence of the sources that the code does not keep;
the quotations are in `findings`.

| Run | What the counterexample shows |
| --- | --- |
| `loop_context` | `gyh_do_cpu` runs `process_pending_signals` between the trap of a callback_return and `gyh_callback_return`; after a handler is entered there, its signal frame is resumed as a `ucontext_t` |
| `fcpcm_unpatched` | function number 0 of a module not constructed yet passes the magic check, since x xor 0 = x, and null is called |
| `pass_no_take_out` | a function marked no-take-out is chopped off all the same: its call jumps to null |
| `pass_chop_list` | PickUp enters the FCP-CM list of the configuration into the wrong list |
| `tools_symtbl` | `symtbl.json` is written with the key `CallbackStubs` and read with `CallbackTypes`: take-out and chop-off exit with 7, their output already truncated |

More observations have no run of their own.

* The window of `loop_context` lies before `gyh_call` too: on x86_64 the handler's
  stack pointer then fails the alignment assertion, elsewhere a register of the
  handler is taken for an argument; `NeverAstray` and `torn` are about it.
* `funcUid == hfunctblSize` passes the range test `>` of `gyh_do_call` (`gyh.c:277`),
  whose message says "out of range"; `mock.c:119` tests `>=`. It needs a guest half
  newer than its library; `CallServedByOwn` describes the outcome ("past").
* Calls from a second guest thread return without running the function, since
  `clone_func` (`syscall.c:6562`) enters the stock loop; the stub (`x86_64.s:61`)
  says it behaves "like the function body". `ReadyServed` is about the first thread.
* The test at `TakeOut.cpp:96` is the opposite of the comment at `TakeOut.cpp:99`: a
  call to a white callee ends the link with an exception. It is one of the causes
  `DiesOnlyOnLists` allows.
* With FCP-CM a function marked no-chop-off makes the constructor abort with "bad
  magic", one of the causes `AbortExplained` allows. So is, at run time, a definition that the tables of two
  modules are bound to.
* A function marked chop-off that Analyze refuses keeps its body without a report,
  which is why `RequestsMet` is about the analyze and take-out marks only.
* The result of `mprotect` is not looked at (`gyh.c:430`); a failure is the exception of
  `PatchNeverFaults`.
* An atomic step of another thread does not stop the first thread in a host function.
* After a take-out that failed (always, see `tools_symtbl`) `hqlibs` stops at the
  empty `host.bc`, or builds an empty library from the empty `host.ll` and reports
  success.

Properties that hold carry the exceptions these findings make as explicit
hypotheses (`torn`, the no-take-out mark, listed callees) and not as missing
behaviour: the actions do what the code does.

### Bounds

* `GyhLoop`: 10 or 11 stack cells, 4 requests, 2 callbacks, 1 signal, 2 modules.
  These admit a call in a callback in a call, with a signal at any point, a longjmp
  over the host frames, and a further call that reuses the abandoned memory. With
  one module fewer, serving the wrong module could not be seen. The bounds do not
  matter for what is proved.
* `GyhQlibs`: 3 images of which 2 have the same uid, 3 slots, 4 loads, so that an
  image can be reloaded, at its old address or another one, and the table can fill.
  The third image is built with GRT and has a newer guest half with more functions
  than its library. Calls and requests of another thread include the destructions
  that QEMU never sees, which are all an x86_64 guest has.
  Copies are symmetric: they have the same uid and number of functions.
* `FcpCm`: a table of 3 functions anywhere in 4 pages of 4 words and in any order,
  so that prefixes straddle page boundaries and the table goes back to earlier
  pages; then one layout with interposed, unprefixed and null functions.
* `LtoPass`: two functions, one calling the other, since every decision of the pass
  is about one function or one call; all 81 combinations of annotations with all
  kinds of bodies, configurations that override annotations, lists, the sets of
  options the tools use and two inconsistent ones. Every save may fail.
* `CpuExclusive`: three threads, so that a section, a CPU it waits for and one that
  starts, exits or asks for a section of its own meet; one flush waiting per CPU.
  The number of threads does not matter for what is proved.
* `Toolset`: two links with two uids, which get in each other's way both at
  `guest/` and at a uid, two tool runs (one that leaves a bad file, one that reads
  it) and one build. Tools meet only in a directory they share, so the state
  constraint `SecondRunAlone` looks at a second run only when links are over and
  have left one directory; a first run may come at any time. The proofs do
  without constraint and bounds.

### Fairness

`GyhLoop` states fairness for `SignalDelivered`. Weak fairness of
`process_pending_signals`, of the dispatch and of the switches says that the thread
executes QEMU's own statements. Weak fairness of `pending /\ GuestTrap` says that
guest code leaves `cpu_exec` when a signal is pending, which
`host_signal_handler` arranges (`cpu_exit`). Nothing is assumed of host functions,
which may run for ever, nor that anyone sends a signal.

`CpuExclusive` states it for `SectionEnds`: weak fairness of the steps of each thread
through QEMU's own statements, locks and wake-ups, and of the return of `cpu_exec`
once it is kicked (`Leave(c, "interrupt")`, guarded by `exit_request`). A guest that is not
kicked may execute for ever, a host function need not return, and nobody has to
create, exit or flush. `GyhQlibs`, `FcpCm`, `LtoPass` and `Toolset` state no fairness.

### Deadlock

Deadlock is checked everywhere. Each module has an `Ended` step for a process that
stopped.

## Proofs

`tlapm` on `GyhLoopProofs`, `GyhLoopNesting`, `CpuExclusiveProofs`, `ToolsetProofs`,
`GyhQlibsProofs`, `FcpCmProofs` and `LtoPassProofs`; each takes minutes from nothing.

**GyhLoop**, for every architecture, stack size, set of modules and bounds
(`LoopAssumption`, `JunkAssumption`: the constants have their types, and the
argument of a handler is no module). Proved: `TypeOK`, `NeverAstray`, `HostServesCaller`, `SwitchSlotFree`,
`GuestMaskInForce`, `LiveFramesKept`.

None of these is inductive. That a resumed context belongs to the right host
function depends on frames pushed long before, with arbitrary nesting in between.
`LoopInv` therefore says of *every* cell up to the top of the stack that it fits the
cell above (`FrameFits`): a host frame sits under the stub frame with the same
module, a context right under its host frame, which has noted the stub's stack
pointer, a signal frame holds registers that fit the cell it interrupted
(`RegsFit`). `PlaceFits` says the same of the registers at each place of the loop,
`MasksFit` which mask is in force where. After a torn request none of this can be
kept; `Doomed` says that such a request fails in its next steps, which is why
`NeverAstray` has only `torn` as an exception. Pushing and popping preserve
`FrameFits` of the cells that stay (lemmas `FramesKept`, `FramePushed`), so each
action is left with its own cell. There is one lemma per action.

`GyhLoopNesting` proves the refinement, `ImplementsOffloadStack`, from `LoopInv`. The
steps come in four kinds, each with a lemma: those that push an activation
(`PushStep`), those that pop one (`PopStep`), those that push or pop frames of stubs
only (`GrowsPlain`, `ShrinksPlain`), and longjmp. `OffloadStack` lets a signal or a call
happen in guest code only, so the proof needs what runs: above a frame that is not
host code's, `FrameFits` leads in at most three cells to the activation of a guest
(`GuestAbove`). After a torn request nothing is pushed or popped any more (`Doomed`).
`CallbacksAccounted` follows from the same facts: only `__gyh_callback__` adds a
context (`ContextsKept`, from `KeepsLiveFrames`), and the one that `ResumeCallback` takes away
is the one `gyh_callback_return` counted the step before.

**LtoPass**, for every module, configuration and pattern of failing saves
(`PassAssumption` only gives the constants' types and is not used by the argument).
Proved: `TypeOK`, `CallReachesBody`, `OffStaysOff`, `RequestsMet`, `DiesOnlyOnLists`,
`AbortExplained`. The properties are
about the end of the link, and each table is written steps before. `PassInv`
says that the tables are empty up to the step that writes them, afterwards
bounded by a function of the marks and the symbol table, and equal to it in what
is linked; and that a linked program cannot have a taken-out function without an
entry for FCP-CM (`~NoHostFunc`), since TakeOut would have died. `RequestsMet` rests on
reports that are never taken back, `DiesOnlyOnLists` on the stubs that Analyze records
being the ones that TakeOut asks for (`StubsInv`).

**GyhQlibs**, for every set of images, sizes, slots, architecture and order of loads
(`QlibsAssumption`; `UidAssumption`: no uid is a slot number). Proved:
`TypeOK`, `CallServedByOwn`, `NeverStale`, `ReadyServed`, `CallbackEntryMapped`,
`FullWhenUsed`. That a library
is open when it is called depends on all constructions and destructions since it
was opened, also those of copies with the same uid. `QlibsInv` counts: a library is
open at least as often as images hold a slot of it (`OpenEnough`); a number an image
holds is its uid or a slot of its own (`UidKept`, `SlotsHeld`, `SlotsOwn`). For the
callback entry, the definition images are bound to stays mapped (`BoundMapped`).
Slots are never given back, so the used ones are those below the number of
constructions (`SlotsFilled`), which gives `FullWhenUsed`.

**FcpCm**, for every set of modules, tables, page size and layout (`FcpCmAssumption`,
and `LinkAssumption` above). Proved: `TypeOK`, `PatchNeverFaults`, `FastCallsOwn`,
`AbortExplained`. The constructor compares a prefix with a range of pages that it
set for an earlier function, perhaps of another module. `PatchInv` says that the
range is empty or that of one function, whose pages are writable (`RangeFits`); since
modules do not share pages, a prefix inside the range is that module's and writable
too. It says that a function the constructor has reached keeps its patched
prefix until its module is loaded again (`PatchesKept`), since a second constructor
would stop at it, and that what is ahead is as it was linked unless two
functions are bound to it (`RawAhead`).

**CpuExclusive**, for every finite number of threads and bound of queued work
(`CpuAssumption`). Proved: `TypeOK`, `ExclInv`, and from it `ExclusiveAlone`, `WaitersCounted`,
`NoLostWakeup`. None of the three is inductive: between the two accesses of
`cpu_exec_start` a CPU is `running` and may or may not have been seen by the scan.
`ExclInv` says that at most one thread is past the beginning of `start_exclusive` and
`pending_cpus` is nonzero just then; that whoever executes is still to be scanned or
counted (`Scanned`, `Counted`); that the count is the number of `has_waiter` flags, each of
a CPU on its way to `cpu_exec_end`; and that sleepers have something to wait for.

**Toolset**, for every set of links and uids and any number of runs and builds
(`ToolsetAssumption`). Proved: `TypeOK`, `HalvesMatch`, `GivesUpLate`, `HollowExplained`, `BuildComplete`.
`ToolsetInv` gives each directory one owner, the link that created it, and lets its
files and library hold nothing of another link; a link's failed tries are those on
taken uids, those refused and at most one lost to the race for `guest/`. `HollowInv` adds where a `Truncated` file may be
(a host half being filled, or a spoilt directory), `BuildInv` that a
linked program has its host half, and a library once the build has passed it. The types need that a link
lost no more tries than it made (`LinkGoes`).

**Model-checked only**

* `SignalDelivered`, `SectionEnds`: liveness under fairness is out of the prover's
  reach. What is proved of them is safety: `NoLostWakeup` for the second, and for the
  first that a deliverable signal keeps `pending` set (`MasksFit`).
* The violated properties, by their counterexamples.

## Not modelled

* *Signals*: alternate stacks, default actions, `sigsuspend`, faults of guest
  instructions, more than one signal number. Every delivered signal has a handler on the same stack.
* *Guest*: threads inside `GyhLoop` (they never enter this loop), vsyscall,
  floating point and vector registers, the contents of arguments. A guest does not
  destruct a module while one of its host functions is on the stack.
* *Uids below `gyh_qlibs_size`*: a uid is drawn from 32 bits, and one below 1024
  would be taken for a slot (`UidAssumption`).
* *FCP-CM after destruction*: prefixes keep pointing into the closed library; only
  calls into constructed modules are covered.
* *The IR*: what the steps write into function bodies, and how types are hashed.
  Outline's sharing of outliners between calls of equal operand types is left out.
* *External behaviour*, taken from how the sources use it: `dlopen`/`dlclose`
  reference counts, `mprotect`, the linker's treatment of diagnostics.
* *Exclusive sections*: nested ones, `do_run_on_cpu` (linux-user does not call it),
  `stop_all_tasks`, weak memory beyond what the barriers order, a `pthread_create` that
  fails and leaves its CPU in the list.
* *Tools*: what a step does to a module (`LtoPass`), tools that take files of two
  directories or run in the directory of a link still saving, `--guest_bw` and
  `--with-ir` of `hqlibs`, the JSON of single entries and of the lists.
* *The rest of QEMU*, about two million lines of translation, devices and system
  calls that these parts do not depend on in their control.
* *Inspection tools, type hashes, wrappers, logging, libc component, experiment
  scripts*: pure functions of a file, output, or scripts without shared state.
* `mock.c`, the in-process stand-in for the runtime, is used for comparison only.

## Open work

1. An abstract registry (constructed modules and their libraries) that `GyhQlibs`
   implements and `GyhLoop` uses, so that `registered` is justified by a
   refinement; the cross-module path on top of it.
2. `GyhLoop` with two signal numbers and nested handlers.
