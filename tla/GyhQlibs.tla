------------------------------ MODULE GyhQlibs ------------------------------
(***************************************************************************)
(* The table of loaded host libraries (gyh_qlibs of +gyh/gyh.c): how the   *)
(* guest modules ("images") that get loaded, constructed, destructed and   *)
(* unloaded share its slots, and which host function a call ends up in.    *)
(* The construction, destruction and call requests are those of the guest  *)
(* runtime; GyhLoop models how control gets here and back.                 *)
(***************************************************************************)
EXTENDS Integers, FiniteSets

CONSTANTS
  Arch,       \* the guest architecture
  Image,      \* guest modules that can be loaded
  Uid,        \* Uid[i]: the number LtoPass gave image i, __gyh_qlib_uid_*
  Funcs,      \* Funcs[i]: how many functions the guest half of i calls
  HFuncs,     \* HFuncs[u]: __gyh_hfunctbl_size_* of the library of uid u
  Grt,        \* the images built with the global reference tables
  QlibsSize,  \* gyh_qlibs_size
  MaxLoads    \* bound: loads of images

UidSet == {Uid[i] : i \in Image}
Slot   == 0..(QlibsSize - 1)

ASSUME QlibsAssumption ==
  /\ Arch \in {"x86_64", "aarch64", "riscv64"}
  /\ IsFiniteSet(Image)
  /\ Uid \in [Image -> Nat] /\ Funcs \in [Image -> Nat] /\ HFuncs \in [UidSet -> Nat]
  /\ Grt \subseteq Image /\ QlibsSize \in Nat /\ MaxLoads \in Nat

(* LtoPass draws uids from all 32-bit numbers.  One below gyh_qlibs_size
   could be taken for a slot; the chance is 2^-22 and is left out.         *)
ASSUME UidAssumption == \A i \in Image : Uid[i] >= QlibsSize

VARIABLES
  proc,     \* the process: runs, or how it ended
  image,    \* what became of each image
  loads,    \* loads so far, each possibly at new addresses
  base,     \* where each image is, or was last; an instance is <<i, base[i]>>
  bound,    \* the instance whose __gyh_callback_return__ an image refers to
  qlibUid,  \* __gyh_qlib_uid_*: the uid of an image, or its slot
  qlibs,    \* gyh_qlibs
  refs,     \* how often the library of a uid is open (dlopen, dlclose)
  mapped,   \* how often it was mapped: its current addresses
  grt,      \* the instance whose tables its __gyh_extreftbl_* points to
  cbFunc,   \* gyh_cbFunc: the instance that defines it
  ctors,    \* history: successful constructions
  last      \* the call just made, if any

vars == <<proc, image, loads, base, bound, qlibUid, qlibs, refs, mapped, grt, cbFunc, ctors, last>>

NULL     == <<>>
Instance == Image \X Nat
This(i)  == <<i, base[i]>>

Proc   == {"runs", "exit", "cbFunc", "full", "dlopen", "range", "wild"}
(* "unserved": constructed by a thread whose requests QEMU does not serve.  *)
State  == {"absent", "loaded", "ready", "unserved", "closed"}
Thread == {"main", "other"}

(* How a call ended: "ran" a host function, read "past" the table, entered a
   library at addresses "stale", or was "skipped".                         *)
How    == {"none", "ran", "past", "stale", "skipped"}
NoCall == [how |-> "none", by |-> NULL, uid |-> 0, tables |-> NULL]

Init ==
  /\ proc = "runs"
  /\ image = [i \in Image |-> "absent"]
  /\ loads = 0
  /\ base = [i \in Image |-> 0]
  /\ bound = [i \in Image |-> NULL]
  /\ qlibUid = Uid
  /\ qlibs = [s \in Slot |-> [handle |-> FALSE, uid |-> 0, hfunctbl |-> 0]]
  /\ refs = [u \in UidSet |-> 0]
  /\ mapped = [u \in UidSet |-> 0]
  /\ grt = [u \in UidSet |-> NULL]
  /\ cbFunc = NULL
  /\ ctors = 0
  /\ last = NoCall

-----------------------------------------------------------------------------
(* The dynamic linker of the guest.  A reloaded image may be where it was or
   elsewhere.  __gyh_callback_return__ is weak: every image has a definition,
   and an image is bound to one that is mapped.                            *)
Load(i, cb) ==
  /\ proc = "runs" /\ image[i] = "absent" /\ loads < MaxLoads
  /\ cb = i \/ image[cb] # "absent"
  /\ image' = [image EXCEPT ![i] = "loaded"]
  /\ loads' = loads + 1
  /\ \E a \in {base[i], loads'} \ {0} : base' = [base EXCEPT ![i] = a]
  /\ bound' = [bound EXCEPT ![i] = <<cb, base'[cb]>>]
  /\ qlibUid' = [qlibUid EXCEPT ![i] = Uid[i]]
  /\ UNCHANGED <<proc, qlibs, refs, mapped, grt, cbFunc, ctors>> /\ last' = NoCall

(* An image others are bound to stays mapped as long as they are.          *)
Unload(i) ==
  /\ proc = "runs" /\ image[i] = "closed"
  /\ \A j \in Image \ {i} : image[j] # "absent" => bound[j] # This(i)
  /\ image' = [image EXCEPT ![i] = "absent"]
  /\ UNCHANGED <<proc, loads, base, bound, qlibUid, qlibs, refs, mapped, grt, cbFunc, ctors>> /\ last' = NoCall

-----------------------------------------------------------------------------
Stop(how) ==
  /\ proc' = how
  /\ UNCHANGED <<image, loads, base, bound, qlibUid, qlibs, refs, mapped, grt, cbFunc, ctors>> /\ last' = NoCall

(* A thread the guest created runs QEMU's stock cpu_loop: the requests of
   the guest runtime are unknown system calls there.                       *)
Unserved(i) ==
  /\ image' = [image EXCEPT ![i] = "unserved"]
  /\ UNCHANGED <<proc, loads, base, bound, qlibUid, qlibs, refs, mapped, grt, cbFunc, ctors>> /\ last' = NoCall

Free == {s \in Slot : ~qlibs[s].handle}

(* The slot gyh_do_ctor takes.                                             *)
Mut_AnySlot(s)     == s \in Slot
Mut_OneSlotLess(s) == s \in Free /\ s # QlibsSize - 1 /\ \A r \in Free : s <= r
FirstFree(s)       == s \in Free /\ \A r \in Free : s <= r

(* dlopen: the library is mapped, its tables empty, unless it still is.     *)
Mapping(u) == IF refs[u] = 0 THEN mapped[u] + 1 ELSE mapped[u]
Mut_TablesOnce(i) == IF refs[Uid[i]] = 0 THEN This(i) ELSE grt[Uid[i]]
Tables(i)  == IF i \in Grt THEN This(i) ELSE IF refs[Uid[i]] = 0 THEN NULL ELSE grt[Uid[i]]

(* Whether gyh_do_ctor accepts the callback entry of image i.               *)
Mut_AnyCbFunc(i) == TRUE
CbFuncFits(i)    == cbFunc \in {NULL, bound[i]}

(* gyh_do_ctor and gyh_do_ctor_grt, called by gyh_ctor and gyh_ctor_grt.     *)
gyh_do_ctor(i) ==
  \/ ~CbFuncFits(i) /\ Stop("cbFunc")
  \/ /\ CbFuncFits(i)
     /\ \/ (\A s \in Slot : ~FirstFree(s)) /\ Stop("full")
        \/ (\E s \in Slot : FirstFree(s)) /\ Stop("dlopen")
        \/ \E s \in Slot :
             /\ FirstFree(s)
             /\ cbFunc' = bound[i]
             /\ refs' = [refs EXCEPT ![Uid[i]] = @ + 1]
             /\ mapped' = [mapped EXCEPT ![Uid[i]] = Mapping(Uid[i])]
             /\ qlibs' = [qlibs EXCEPT ![s] = [handle |-> TRUE, uid |-> Uid[i],
                                               hfunctbl |-> Mapping(Uid[i])]]
             /\ grt' = [grt EXCEPT ![Uid[i]] = Tables(i)]
             /\ qlibUid' = [qlibUid EXCEPT ![i] = s]
             /\ image' = [image EXCEPT ![i] = "ready"]
             /\ ctors' = ctors + 1
             /\ UNCHANGED <<proc, loads, base, bound>> /\ last' = NoCall

Ctor(i, t) ==
  /\ proc = "runs" /\ image[i] = "loaded"
  /\ IF t = "main" THEN gyh_do_ctor(i) ELSE Unserved(i)

(* How often a library is open after dlclose; what gyh_dtor leaves in
   __gyh_qlib_uid_*.                                                       *)
Mut_ClosedTwice(u) == refs[u] - 2
Closed(u)          == refs[u] - 1
Mut_KeptIndex(i)   == qlibUid[i]
RestoredUid(i)     == qlibs[qlibUid[i]].uid

(* gyh_dtor.  The slot keeps its handle: it is never taken again.          *)
gyh_dtor(i) ==
  IF qlibUid[i] >= QlibsSize \/ ~qlibs[qlibUid[i]].handle THEN Stop("range")
  ELSE LET u == qlibs[qlibUid[i]].uid
       IN  /\ refs' = [refs EXCEPT ![u] = Closed(u)]
           /\ qlibUid' = [qlibUid EXCEPT ![i] = RestoredUid(i)]
           /\ image' = [image EXCEPT ![i] = "closed"]
           /\ UNCHANGED <<proc, loads, base, bound, qlibs, mapped, grt, cbFunc, ctors>> /\ last' = NoCall

(* The dtor stub of x86_64 issues no system call.                          *)
Dtor(i, t) ==
  /\ proc = "runs" /\ image[i] \in {"ready", "unserved"}
  /\ IF t = "main" /\ Arch # "x86_64" THEN gyh_dtor(i)
     ELSE /\ image' = [image EXCEPT ![i] = "closed"]
          /\ UNCHANGED <<proc, loads, base, bound, qlibUid, qlibs, refs, mapped, grt, cbFunc, ctors>> /\ last' = NoCall

Called(i, how, u) ==
  /\ last' = [how |-> how, by |-> This(i), uid |-> u,
              tables |-> IF i \in Grt /\ how = "ran" THEN grt[u] ELSE This(i)]
  /\ proc' = IF how \in {"past", "stale"} THEN "wild" ELSE "runs"
  /\ UNCHANGED <<image, loads, base, bound, qlibUid, qlibs, refs, mapped, grt, cbFunc, ctors>>

(* gyh_do_call and gyh_do_call_grt.  Without GRT the stub passes the tables
   of its own image.                                                       *)
gyh_do_call(i, f) ==
  IF qlibUid[i] >= QlibsSize THEN Stop("range")
  ELSE LET q == qlibs[qlibUid[i]]
       IN  IF ~q.handle THEN Called(i, "stale", 0)
           ELSE IF f > HFuncs[q.uid] THEN Stop("range")
           ELSE IF refs[q.uid] = 0 \/ mapped[q.uid] # q.hfunctbl THEN Called(i, "stale", q.uid)
           ELSE IF f >= HFuncs[q.uid] THEN Called(i, "past", q.uid)
           ELSE Called(i, "ran", q.uid)

(* Any image that is mapped may call: before its constructor through the
   constructor of another, after its destructor at exit.                   *)
Call(i, f, t) ==
  /\ proc = "runs" /\ image[i] # "absent" /\ f < Funcs[i]
  /\ IF t = "main" THEN gyh_do_call(i, f) ELSE Called(i, "skipped", Uid[i])

Exit  == proc = "runs" /\ Stop("exit")
Ended == proc # "runs" /\ UNCHANGED vars

Next ==
  \/ \E i, cb \in Image : Load(i, cb)
  \/ \E i \in Image : Unload(i)
  \/ \E i \in Image, t \in Thread : Ctor(i, t) \/ Dtor(i, t)
  \/ \E i \in Image, t \in Thread : \E f \in 0..(Funcs[i] - 1) : Call(i, f, t)
  \/ Exit
  \/ Ended

Spec == Init /\ [][Next]_vars

-----------------------------------------------------------------------------
TypeOK ==
  /\ proc \in Proc
  /\ image \in [Image -> State]
  /\ loads \in Nat /\ base \in [Image -> Nat]
  /\ bound \in [Image -> Instance \cup {NULL}]
  /\ qlibUid \in [Image -> Nat]
  /\ qlibs \in [Slot -> [handle: BOOLEAN, uid: Nat, hfunctbl: Nat]]
  /\ refs \in [UidSet -> Nat] /\ mapped \in [UidSet -> Nat]
  /\ grt \in [UidSet -> Instance \cup {NULL}]
  /\ cbFunc \in Instance \cup {NULL}
  /\ ctors \in Nat
  /\ last.how \in How

(* No other image has the uid of image i.                                  *)
UniqueUid(i) == \A j \in Image \ {i} : Uid[j] # Uid[i]

(* A call that runs a host function runs one of the library that belongs to
   the calling image, through the tables of the calling instance and no
   earlier load of it, whatever was constructed, destructed and reloaded in
   between, other images with the same uid included.  With GRT the tables sit
   in the library, so images of the same uid overwrite each other's.  A call
   reads past the table, which the range test of gyh_do_call allows by one,
   only where the guest half has functions its own library lacks.          *)
CallServedByOwn ==
  /\ last.how \in {"ran", "past"} => last.uid = Uid[last.by[1]]
  /\ last.how = "ran" /\ (last.by[1] \notin Grt \/ UniqueUid(last.by[1])) => last.tables = last.by
  /\ last.how = "past" => Funcs[last.by[1]] > HFuncs[Uid[last.by[1]]]

(* gyh_do_call never enters a library that was closed or mapped elsewhere
   since the slot was filled, although slots keep their handles.           *)
NeverStale == last.how # "stale"

(* As long as an image is constructed, its library is open and its slot,
   which is no other image's, refers to where it is mapped now.            *)
ReadySlot(i) ==
  /\ qlibUid[i] \in Slot
  /\ LET q == qlibs[qlibUid[i]]
     IN  q.handle /\ q.uid = Uid[i] /\ refs[q.uid] > 0 /\ q.hfunctbl = mapped[q.uid]
  /\ \A j \in Image \ {i} : image[j] = "ready" => qlibUid[j] # qlibUid[i]
ReadyServed == \A i \in Image : image[i] = "ready" => ReadySlot(i)

(* gyh_do_ctor runs out of slots only after filling each of them once.      *)
FullWhenUsed == proc = "full" => ctors = QlibsSize

(* The one callback entry gyh_do_ctor accepts is mapped for as long as a
   constructed image can call back through it.                             *)
CallbackEntryMapped ==
  \A i \in Image :
    image[i] = "ready" => cbFunc # NULL /\ image[cbFunc[1]] # "absent" /\ cbFunc = This(cbFunc[1])

=============================================================================
