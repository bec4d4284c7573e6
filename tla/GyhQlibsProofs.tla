--------------------------- MODULE GyhQlibsProofs ---------------------------
(***************************************************************************)
(* Calls are served by the library of the calling module, for any modules, *)
(* any sharing of uids between them, any size of the table and any guest   *)
(* architecture.                                                           *)
(***************************************************************************)
EXTENDS GyhQlibs, FiniteSetTheorems, TLAPS

(* The image i is mapped and has a slot number in __gyh_qlib_uid_*: it is
   constructed, or, on x86_64, where gyh_dtor is not called, was.          *)
Held(i) == image[i] # "absent" /\ qlibUid[i] < QlibsSize
Holders(u) == {i \in Image : Held(i) /\ Uid[i] = u}

Types ==
  /\ image = [i \in Image |-> image[i]] /\ bound = [i \in Image |-> bound[i]]
  /\ base = [i \in Image |-> base[i]] /\ grt = [u \in UidSet |-> grt[u]]
  /\ qlibUid \in [Image -> Nat]
  /\ qlibs = [s \in Slot |-> qlibs[s]]
  /\ refs \in [UidSet -> Nat] /\ mapped \in [UidSet -> Nat]

(* Images without a slot hold their uid.                                   *)
UidKept ==
  \A i \in Image :
    /\ image[i] \in {"loaded", "unserved"} => qlibUid[i] = Uid[i]
    /\ image[i] = "ready" => qlibUid[i] < QlibsSize

(* The slot an image holds is its own and refers to its library where that is
   mapped now, and nobody else has set the library's tables.               *)
HeldSlot(i) ==
  /\ qlibs[qlibUid[i]].handle
  /\ qlibs[qlibUid[i]].uid = Uid[i]
  /\ qlibs[qlibUid[i]].hfunctbl = mapped[Uid[i]]
  /\ i \in Grt /\ UniqueUid(i) => grt[Uid[i]] = This(i)
SlotsHeld == \A i \in Image : Held(i) => HeldSlot(i)
SlotsOwn  == \A i, j \in Image : Held(i) /\ Held(j) /\ qlibUid[i] = qlibUid[j] => i = j

(* A library is open as often as images hold it.                           *)
OpenEnough == \A u \in UidSet : refs[u] >= Cardinality(Holders(u))

QlibsInv == Types /\ UidKept /\ SlotsHeld /\ SlotsOwn /\ OpenEnough

(* Slot numbers and uids do not overlap.                                   *)
LEMMA UidNoSlot == \A i \in Image : Uid[i] \in Nat /\ Uid[i] \in UidSet /\ ~(Uid[i] < QlibsSize)
  BY QlibsAssumption, UidAssumption DEF UidSet

LEMMA SlotNumbers == QlibsSize \in Nat /\ \A n : n \in Slot <=> n \in Nat /\ n < QlibsSize
<1>1. QlibsSize \in Nat
  BY QlibsAssumption
<1> QED BY <1>1 DEF Slot

LEMMA HoldersFinite == \A u : IsFiniteSet(Holders(u)) /\ Cardinality(Holders(u)) \in Nat
<1> TAKE u
<1>1. Holders(u) \subseteq Image
  BY DEF Holders
<1>2. IsFiniteSet(Holders(u))
  BY <1>1, QlibsAssumption, FS_Subset
<1> QED BY <1>2, FS_CardinalityType

(* The library of an image that holds a slot is open.                      *)
LEMMA HeldOpen ==
  ASSUME QlibsInv, NEW i \in Image, Held(i)
  PROVE  refs[Uid[i]] > 0
<1>1. i \in Holders(Uid[i])
  BY DEF Holders
<1>2. Cardinality(Holders(Uid[i])) # 0
  BY <1>1, HoldersFinite, FS_EmptySet
<1> QED BY <1>2, HoldersFinite, UidNoSlot DEF QlibsInv, Types, OpenEnough

(* A step that changes the state of images that hold no slot, before or
   after it, keeps slots and counts.                                       *)
LEMMA SlotsKept ==
  ASSUME QlibsInv, NEW i \in Image, UNCHANGED <<qlibs, refs, mapped, grt>>,
         \A j \in Image : j # i => image'[j] = image[j] /\ qlibUid'[j] = qlibUid[j] /\ base'[j] = base[j],
         Held(i)' => Held(i) /\ qlibUid'[i] = qlibUid[i] /\ base'[i] = base[i],
         Types', UidKept'
  PROVE  QlibsInv'
<1> USE DEF QlibsInv
<1>1. \A j \in Image : Held(j)' => Held(j) /\ qlibUid'[j] = qlibUid[j] /\ base'[j] = base[j]
  BY DEF Held
<1>2. SlotsHeld'
  BY <1>1 DEF SlotsHeld, HeldSlot, This, UniqueUid
<1>3. SlotsOwn'
  BY <1>1 DEF SlotsOwn
<1>4. OpenEnough'
  <2> SUFFICES ASSUME NEW u \in UidSet PROVE refs[u] >= Cardinality(Holders(u)')
    BY DEF OpenEnough
  <2>1. Holders(u)' \subseteq Holders(u)
    BY <1>1 DEF Holders
  <2>2. Cardinality(Holders(u)') <= Cardinality(Holders(u)) /\ Cardinality(Holders(u)') \in Nat
    BY <2>1, HoldersFinite, FS_Subset, FS_CardinalityType
  <2> QED BY <2>2, HoldersFinite DEF OpenEnough, Types
<1> QED BY <1>2, <1>3, <1>4

LEMMA LoadKeeps ==
  ASSUME QlibsInv, NEW i \in Image, NEW cb \in Image, Load(i, cb)
  PROVE  QlibsInv'
<1>1. /\ Types' /\ image'[i] = "loaded" /\ qlibUid'[i] = Uid[i]
      /\ \A j \in Image : j # i => image'[j] = image[j] /\ qlibUid'[j] = qlibUid[j] /\ base'[j] = base[j]
  BY UidNoSlot DEF Load, QlibsInv, Types
<1>2. UidKept'
  BY <1>1 DEF UidKept, QlibsInv
<1>3. ~Held(i)'
  BY <1>1, UidNoSlot DEF Held
<1>4. UNCHANGED <<qlibs, refs, mapped, grt>>
  BY DEF Load
<1> QED BY <1>1, <1>2, <1>3, <1>4, SlotsKept

(* Unloading, and a construction or destruction that is not served.        *)
LEMMA StateKeeps ==
  ASSUME QlibsInv, NEW i \in Image, NEW st \in {"absent", "closed", "unserved"},
         image[i] # "absent", st = "unserved" => image[i] = "loaded",
         image' = [image EXCEPT ![i] = st],
         UNCHANGED <<base, bound, qlibUid, qlibs, refs, mapped, grt>>
  PROVE  QlibsInv'
<1>1. Types' /\ image'[i] = st /\ \A j \in Image : j # i => image'[j] = image[j]
  BY DEF QlibsInv, Types
<1>2. UidKept'
  BY <1>1 DEF UidKept, QlibsInv
<1>3. Held(i)' => Held(i)
  BY DEF Held
<1> QED BY <1>1, <1>2, <1>3, SlotsKept

LEMMA SameKeeps ==
  ASSUME QlibsInv, UNCHANGED <<image, base, bound, qlibUid, qlibs, refs, mapped, grt>>
  PROVE  QlibsInv'
<1>1. \A i \in Image : Held(i)' <=> Held(i)
  BY DEF Held
<1>2. \A u \in UidSet : Holders(u)' = Holders(u)
  BY <1>1 DEF Holders
<1>3. OpenEnough'
  BY <1>2 DEF QlibsInv, OpenEnough
<1>4. Types' /\ UidKept'
  BY DEF QlibsInv, Types, UidKept
<1>5. SlotsHeld' /\ SlotsOwn'
  BY <1>1 DEF QlibsInv, SlotsHeld, HeldSlot, SlotsOwn, This
<1> QED BY <1>3, <1>4, <1>5 DEF QlibsInv

(* A construction that succeeds takes a slot nobody holds.  If it maps the
   library anew, nobody held that.                                         *)
LEMMA CtorKeeps ==
  ASSUME QlibsInv, NEW i \in Image, image[i] = "loaded", NEW s \in Slot, ~qlibs[s].handle,
         refs' = [refs EXCEPT ![Uid[i]] = @ + 1],
         mapped' = [mapped EXCEPT ![Uid[i]] = Mapping(Uid[i])],
         qlibs' = [qlibs EXCEPT ![s] = [handle |-> TRUE, uid |-> Uid[i], hfunctbl |-> Mapping(Uid[i])]],
         grt' = [grt EXCEPT ![Uid[i]] = Tables(i)],
         qlibUid' = [qlibUid EXCEPT ![i] = s],
         image' = [image EXCEPT ![i] = "ready"],
         UNCHANGED <<base, bound>>
  PROVE  QlibsInv'
<1> USE DEF QlibsInv
<1> DEFINE u == Uid[i]
<1>0. u \in UidSet /\ s \in Nat /\ s < QlibsSize /\ Mapping(u) \in Nat
  <2>1. u \in UidSet /\ s \in Nat /\ s < QlibsSize
    BY UidNoSlot, SlotNumbers
  <2>2. Mapping(u) \in Nat
    BY <2>1 DEF Mapping, Types
  <2> QED BY <2>1, <2>2
<1>1. /\ qlibUid'[i] = s /\ image'[i] = "ready" /\ refs'[u] = refs[u] + 1 /\ mapped'[u] = Mapping(u)
      /\ grt'[u] = Tables(i)
      /\ qlibs'[s] = [handle |-> TRUE, uid |-> u, hfunctbl |-> Mapping(u)]
      /\ \A j \in Image : j # i => qlibUid'[j] = qlibUid[j] /\ image'[j] = image[j]
      /\ \A w \in UidSet : w # u => refs'[w] = refs[w] /\ mapped'[w] = mapped[w] /\ grt'[w] = grt[w]
      /\ \A t \in Slot : t # s => qlibs'[t] = qlibs[t]
  BY <1>0 DEF Types
<1>2. Types'
  <2>1. refs' \in [UidSet -> Nat] /\ mapped' \in [UidSet -> Nat] /\ qlibUid' \in [Image -> Nat]
    BY <1>0 DEF Types
  <2> QED BY <2>1 DEF Types
<1>3. UidKept'
  BY <1>0, <1>1 DEF UidKept
<1>4. ~Held(i) /\ Held(i)' /\ \A j \in Image : j # i => (Held(j)' <=> Held(j))
  BY <1>0, <1>1, UidNoSlot DEF Held, UidKept
<1>5. \A j \in Image : Held(j) => qlibUid[j] # s /\ qlibUid[j] \in Slot
  <2>1. \A j \in Image : Held(j) => qlibUid[j] \in Slot
    BY SlotNumbers DEF Held, Types
  <2> QED BY <2>1 DEF SlotsHeld, HeldSlot
<1>6. SlotsOwn'
  BY <1>1, <1>4, <1>5 DEF SlotsOwn
<1>7. \A j \in Image : Held(j) /\ Uid[j] = u => Mapping(u) = mapped[u]
  BY HeldOpen DEF Mapping, Types
<1>8. SlotsHeld'
  <2> SUFFICES ASSUME NEW j \in Image, Held(j)' PROVE HeldSlot(j)'
    BY DEF SlotsHeld
  <2>1. CASE j = i
    BY <1>1, <2>1 DEF HeldSlot, Tables, This
  <2>2. CASE j # i
    <3>1. Held(j) /\ HeldSlot(j) /\ qlibUid'[j] = qlibUid[j]
      BY <2>2, <1>1, <1>4 DEF SlotsHeld
    <3>2. qlibs'[qlibUid[j]] = qlibs[qlibUid[j]]
      BY <3>1, <1>1, <1>5
    <3>3. mapped'[Uid[j]] = mapped[Uid[j]]
      BY <3>1, <1>1, <1>7, UidNoSlot
    <3>4. UniqueUid(j) => grt'[Uid[j]] = grt[Uid[j]]
      BY <2>2, <1>1, UidNoSlot DEF UniqueUid
    <3> QED BY <3>1, <3>2, <3>3, <3>4 DEF HeldSlot, This
  <2> QED BY <2>1, <2>2
<1>9. OpenEnough'
  <2> SUFFICES ASSUME NEW w \in UidSet PROVE refs'[w] >= Cardinality(Holders(w)')
    BY DEF OpenEnough
  <2>1. CASE w = u
    <3>1. Holders(u)' = Holders(u) \cup {i} /\ i \notin Holders(u)
      BY <1>4 DEF Holders
    <3>2. Cardinality(Holders(u)') = Cardinality(Holders(u)) + 1
      BY <3>1, HoldersFinite, FS_AddElement
    <3> QED BY <2>1, <3>2, <1>0, <1>1, HoldersFinite DEF OpenEnough, Types
  <2>2. CASE w # u
    <3>1. Holders(w)' = Holders(w)
      BY <2>2, <1>4 DEF Holders
    <3> QED BY <2>2, <3>1, <1>1 DEF OpenEnough
  <2> QED BY <2>1, <2>2
<1> QED BY <1>2, <1>3, <1>6, <1>8, <1>9

(* A destruction leaves the library open for the other images of its uid.  *)
LEMMA DtorKeeps ==
  ASSUME QlibsInv, NEW i \in Image, image[i] \in {"ready", "unserved"}, gyh_dtor(i)
  PROVE  QlibsInv'
<1> USE DEF QlibsInv
<1> DEFINE u == Uid[i]
<1>1. CASE qlibUid[i] >= QlibsSize \/ ~qlibs[qlibUid[i]].handle
  BY <1>1, SameKeeps DEF gyh_dtor, Stop
<1>2. CASE ~(qlibUid[i] >= QlibsSize \/ ~qlibs[qlibUid[i]].handle)
  <2>1. Held(i) /\ qlibs[qlibUid[i]].uid = u
    <3>1. Held(i)
      BY <1>2, SlotNumbers DEF Held, Types
    <3> QED BY <3>1 DEF SlotsHeld, HeldSlot
  <2>2. /\ refs' = [refs EXCEPT ![u] = refs[u] - 1] /\ qlibUid' = [qlibUid EXCEPT ![i] = u]
        /\ image' = [image EXCEPT ![i] = "closed"] /\ UNCHANGED <<base, bound, qlibs, mapped, grt>>
    BY <1>2, <2>1 DEF gyh_dtor, Closed, RestoredUid
  <2>3. refs[u] > 0 /\ u \in UidSet /\ u \in Nat /\ ~(u < QlibsSize)
    BY <2>1, HeldOpen, UidNoSlot
  <2>4. /\ qlibUid'[i] = u /\ image'[i] = "closed" /\ refs'[u] = refs[u] - 1
        /\ \A j \in Image : j # i => qlibUid'[j] = qlibUid[j] /\ image'[j] = image[j]
        /\ \A w \in UidSet : w # u => refs'[w] = refs[w]
    BY <2>2, <2>3 DEF Types
  <2>5. Types' /\ UidKept'
    BY <2>2, <2>3, <2>4 DEF Types, UidKept
  <2>6. ~Held(i)' /\ \A j \in Image : j # i => (Held(j)' <=> Held(j))
    BY <2>3, <2>4 DEF Held
  <2>7. SlotsHeld' /\ SlotsOwn'
    BY <2>2, <2>4, <2>6 DEF SlotsHeld, HeldSlot, SlotsOwn, This
  <2>8. OpenEnough'
    <3> SUFFICES ASSUME NEW w \in UidSet PROVE refs'[w] >= Cardinality(Holders(w)')
      BY DEF OpenEnough
    <3>1. CASE w = u
      <4>1. Holders(u)' = Holders(u) \ {i} /\ i \in Holders(u)
        BY <2>1, <2>6 DEF Holders
      <4>2. Cardinality(Holders(u)') = Cardinality(Holders(u)) - 1
        BY <4>1, HoldersFinite, FS_RemoveElement
      <4> QED BY <3>1, <4>2, <2>3, <2>4, HoldersFinite DEF OpenEnough, Types
    <3>2. CASE w # u
      <4>1. Holders(w)' = Holders(w)
        BY <3>2, <2>6 DEF Holders
      <4> QED BY <3>2, <4>1, <2>4 DEF OpenEnough
    <3> QED BY <3>1, <3>2
  <2> QED BY <2>5, <2>7, <2>8
<1> QED BY <1>1, <1>2

(* A call by an image that holds a slot is served by its library.          *)
CallOk == NeverStale /\ CallServedByOwn

LEMMA CallServed ==
  ASSUME QlibsInv, NEW i \in Image, NEW f \in 0..(Funcs[i] - 1), NEW t \in Thread, Call(i, f, t)
  PROVE  CallOk'
<1> DEFINE u == Uid[i]
           q == qlibs[qlibUid[i]]
<1>0. f \in Nat /\ f < Funcs[i] /\ Funcs[i] \in Nat /\ HFuncs[u] \in Nat
  <2>1. Funcs[i] \in Nat /\ HFuncs[u] \in Nat
    BY QlibsAssumption, UidNoSlot
  <2> QED BY <2>1
<1>1. CASE last' = NoCall
  BY <1>1 DEF CallOk, NeverStale, CallServedByOwn, NoCall
<1>2. CASE t # "main"
  <2>1. last'.how = "skipped"
    BY <1>2 DEF Call, Called
  <2> QED BY <2>1 DEF CallOk, NeverStale, CallServedByOwn
<1>3. CASE t = "main" /\ ~(qlibUid[i] >= QlibsSize)
  <2>1. Held(i)
    BY <1>3, SlotNumbers DEF Call, Held, QlibsInv, Types
  <2>2. /\ q.handle /\ q.uid = u /\ q.hfunctbl = mapped[u] /\ refs[u] # 0
        /\ i \in Grt /\ UniqueUid(i) => grt[u] = This(i)
    BY <2>1, HeldOpen DEF QlibsInv, SlotsHeld, HeldSlot
  <2>3. \/ last' = NoCall
        \/ Called(i, "past", u) /\ f >= HFuncs[u]
        \/ Called(i, "ran", u)
    BY <1>3, <2>2 DEF Call, gyh_do_call, Stop
  <2>4. CASE Called(i, "past", u) /\ f >= HFuncs[u]
    BY <2>4, <1>0 DEF Called, CallOk, NeverStale, CallServedByOwn, This
  <2>5. CASE Called(i, "ran", u)
    BY <2>5, <2>2 DEF Called, CallOk, NeverStale, CallServedByOwn, This
  <2> QED BY <1>1, <2>3, <2>4, <2>5
<1>4. CASE t = "main" /\ qlibUid[i] >= QlibsSize
  BY <1>1, <1>4 DEF Call, gyh_do_call, Stop
<1> QED BY <1>2, <1>3, <1>4

LEMMA NextKeeps ==
  ASSUME QlibsInv, CallOk, [Next]_vars
  PROVE  QlibsInv' /\ CallOk'
<1>0. last' = NoCall => CallOk'
  BY DEF CallOk, NeverStale, CallServedByOwn, NoCall
<1>1. ASSUME NEW i \in Image, NEW cb \in Image, Load(i, cb)
      PROVE  QlibsInv' /\ last' = NoCall
  BY <1>1, LoadKeeps DEF Load
<1>2. ASSUME NEW i \in Image, Unload(i)
      PROVE  QlibsInv' /\ last' = NoCall
  BY <1>2, StateKeeps DEF Unload
<1>3. ASSUME NEW i \in Image, NEW t \in Thread, Ctor(i, t)
      PROVE  QlibsInv' /\ last' = NoCall
  <2>1. CASE t # "main"
    BY <1>3, <2>1, StateKeeps DEF Ctor, Unserved
  <2>2. CASE \E how : Stop(how)
    BY <2>2, SameKeeps DEF Stop
  <2>3. CASE t = "main" /\ ~\E how : Stop(how)
    <3>1. gyh_do_ctor(i) /\ image[i] = "loaded"
      BY <1>3, <2>3 DEF Ctor
    <3>2. PICK s \in Slot :
            /\ FirstFree(s)
            /\ refs' = [refs EXCEPT ![Uid[i]] = @ + 1]
            /\ mapped' = [mapped EXCEPT ![Uid[i]] = Mapping(Uid[i])]
            /\ qlibs' = [qlibs EXCEPT ![s] = [handle |-> TRUE, uid |-> Uid[i],
                                              hfunctbl |-> Mapping(Uid[i])]]
            /\ grt' = [grt EXCEPT ![Uid[i]] = Tables(i)]
            /\ qlibUid' = [qlibUid EXCEPT ![i] = s]
            /\ image' = [image EXCEPT ![i] = "ready"]
            /\ UNCHANGED <<base, bound>> /\ last' = NoCall
      BY <2>3, <3>1 DEF gyh_do_ctor
    <3>3. ~qlibs[s].handle
      BY <3>2 DEF FirstFree, Free
    <3> QED BY <3>1, <3>2, <3>3, CtorKeeps
  <2> QED BY <2>1, <2>2, <2>3
<1>4. ASSUME NEW i \in Image, NEW t \in Thread, Dtor(i, t)
      PROVE  QlibsInv' /\ last' = NoCall
  <2>1. CASE gyh_dtor(i)
    <3>1. last' = NoCall
      BY <2>1 DEF gyh_dtor, Stop
    <3> QED BY <1>4, <2>1, <3>1, DtorKeeps DEF Dtor
  <2>2. CASE ~gyh_dtor(i)
    BY <1>4, <2>2, StateKeeps DEF Dtor
  <2> QED BY <2>1, <2>2
<1>5. ASSUME NEW i \in Image, NEW t \in Thread, NEW f \in 0..(Funcs[i] - 1), Call(i, f, t)
      PROVE  QlibsInv' /\ CallOk'
  <2>1. UNCHANGED <<image, base, bound, qlibUid, qlibs, refs, mapped, grt>>
    BY <1>5 DEF Call, gyh_do_call, Called, Stop
  <2> QED BY <1>5, <2>1, SameKeeps, CallServed
<1>6. CASE Exit
  <2>1. UNCHANGED <<image, base, bound, qlibUid, qlibs, refs, mapped, grt>> /\ last' = NoCall
    BY <1>6 DEF Exit, Stop
  <2> QED BY <1>0, <2>1, SameKeeps
<1>7. CASE Ended \/ UNCHANGED vars
  <2>1. UNCHANGED <<image, base, bound, qlibUid, qlibs, refs, mapped, grt, last>>
    BY <1>7 DEF Ended, vars
  <2>2. CallOk'
    BY <2>1 DEF CallOk, NeverStale, CallServedByOwn
  <2> QED BY <2>1, <2>2, SameKeeps
<1>8. CASE \E i \in Image, t \in Thread : Ctor(i, t) \/ Dtor(i, t)
  BY <1>0, <1>3, <1>4, <1>8
<1>9. CASE (\E i, cb \in Image : Load(i, cb)) \/ (\E i \in Image : Unload(i))
  BY <1>0, <1>1, <1>2, <1>9
<1>10. CASE \E i \in Image, t \in Thread : \E f \in 0..(Funcs[i] - 1) : Call(i, f, t)
  BY <1>5, <1>10
<1> QED BY <1>6, <1>7, <1>8, <1>9, <1>10 DEF Next

(* Slots, libraries and the images that hold them agree in every state, and
   so do the calls made.                                                   *)
THEOREM QlibsInvariant == Spec => [](QlibsInv /\ CallOk)
<1>1. Init => QlibsInv /\ CallOk
  <2> SUFFICES ASSUME Init PROVE QlibsInv /\ CallOk
    OBVIOUS
  <2>1. Types
    BY QlibsAssumption DEF Init, Types
  <2>2. \A i \in Image : image[i] = "absent"
    BY DEF Init
  <2>3. UidKept /\ SlotsHeld /\ SlotsOwn
    BY <2>2 DEF UidKept, SlotsHeld, SlotsOwn, Held
  <2>4. \A u \in UidSet : Holders(u) = {} /\ refs[u] = 0
    BY <2>2 DEF Init, Holders, Held
  <2>5. OpenEnough
    BY <2>4, FS_EmptySet DEF OpenEnough
  <2>6. CallOk
    BY DEF Init, NoCall, CallOk, NeverStale, CallServedByOwn
  <2> QED BY <2>1, <2>3, <2>5, <2>6 DEF QlibsInv
<1>2. QlibsInv /\ CallOk /\ [Next]_vars => (QlibsInv /\ CallOk)'
  BY NextKeeps
<1> QED BY <1>1, <1>2, PTL DEF Spec

(* gyh_do_call never runs another module's function, nor one through another
   instance's tables, and reads past a table only where the guest half has
   more functions than its own library.                                    *)
THEOREM CallServedByOwnAlways == Spec => []CallServedByOwn
<1>1. CallOk => CallServedByOwn
  BY DEF CallOk
<1> QED BY <1>1, QlibsInvariant, PTL

(* gyh_do_call never enters a library that is closed or was remapped.      *)
THEOREM NeverStaleAlways == Spec => []NeverStale
<1>1. CallOk => NeverStale
  BY DEF CallOk
<1> QED BY <1>1, QlibsInvariant, PTL

(* A constructed module has a slot of its own, that refers to its open
   library, until it is destructed, whatever other modules do.             *)
THEOREM ReadyServedAlways == Spec => []ReadyServed
<1>1. QlibsInv => ReadyServed
  <2> SUFFICES ASSUME QlibsInv, NEW i \in Image, image[i] = "ready" PROVE ReadySlot(i)
    BY DEF ReadyServed
  <2>1. Held(i) /\ qlibUid[i] \in Slot
    BY SlotNumbers DEF QlibsInv, UidKept, Held, Types
  <2>2. HeldSlot(i) /\ refs[Uid[i]] > 0
    BY <2>1, HeldOpen DEF QlibsInv, SlotsHeld
  <2>3. \A j \in Image \ {i} : image[j] = "ready" => qlibUid[j] # qlibUid[i]
    BY <2>1 DEF QlibsInv, SlotsOwn, UidKept, Held
  <2> QED BY <2>1, <2>2, <2>3 DEF ReadySlot, HeldSlot
<1> QED BY <1>1, QlibsInvariant, PTL

-----------------------------------------------------------------------------
(* An image refers to a callback entry that is mapped, and constructed images
   all refer to the accepted one.                                          *)
BoundMapped(i) ==
  /\ bound[i] # NULL /\ bound[i][1] \in Image /\ bound[i] = This(bound[i][1])
  /\ image[bound[i][1]] # "absent"
CallbackInv ==
  /\ \A i \in Image : image[i] # "absent" => BoundMapped(i)
  /\ \A i \in Image : image[i] = "ready" => cbFunc = bound[i]

LEMMA CallbackKeeps ==
  ASSUME QlibsInv, CallbackInv, [Next]_vars
  PROVE  CallbackInv'
<1> USE DEF CallbackInv
<1>0. Types
  BY DEF QlibsInv
<1>1. ASSUME NEW i \in Image, NEW cb \in Image, Load(i, cb)
      PROVE  CallbackInv'
  <2>1. /\ image[i] = "absent" /\ (cb = i \/ image[cb] # "absent") /\ cbFunc' = cbFunc
        /\ image'[i] = "loaded" /\ bound'[i] = <<cb, base'[cb]>>
        /\ \A j \in Image : j # i => image'[j] = image[j] /\ bound'[j] = bound[j] /\ base'[j] = base[j]
    BY <1>0, <1>1 DEF Load, Types
  <2>2. BoundMapped(i)'
    BY <2>1 DEF BoundMapped, This, NULL
  <2>3. ASSUME NEW j \in Image, j # i, image[j] # "absent"
        PROVE  BoundMapped(j)'
    <3>1. bound[j][1] # i /\ bound[j][1] \in Image
      BY <2>1, <2>3 DEF BoundMapped
    <3> QED BY <2>1, <2>3, <3>1 DEF BoundMapped, This
  <2> QED BY <2>1, <2>2, <2>3
<1>2. ASSUME NEW i \in Image, Unload(i)
      PROVE  CallbackInv'
  <2>1. /\ image'[i] = "absent" /\ UNCHANGED <<bound, base, cbFunc>>
        /\ \A j \in Image : j # i => image'[j] = image[j]
        /\ \A j \in Image \ {i} : image[j] # "absent" => bound[j] # This(i)
    BY <1>0, <1>2 DEF Unload, Types
  <2>2. ASSUME NEW j \in Image, image'[j] # "absent"
        PROVE  BoundMapped(j)'
    <3>1. j # i /\ image[j] # "absent" /\ BoundMapped(j)
      BY <2>1, <2>2
    <3>2. bound[j][1] # i
      BY <2>1, <3>1 DEF BoundMapped
    <3> QED BY <2>1, <3>1, <3>2 DEF BoundMapped, This
  <2> QED BY <2>1, <2>2
<1>3. ASSUME UNCHANGED <<bound, base, cbFunc>>,
             \A i \in Image : /\ image[i] = "absent" <=> image'[i] = "absent"
                              /\ image'[i] = "ready" => image[i] = "ready"
      PROVE  CallbackInv'
  BY <1>3 DEF BoundMapped, This
<1>4. ASSUME NEW i \in Image, NEW t \in Thread, Ctor(i, t)
      PROVE  CallbackInv'
  <2>1. CASE t # "main"
    BY <1>0, <1>3, <1>4, <2>1 DEF Ctor, Unserved, Types
  <2>2. CASE \E how : Stop(how)
    BY <1>3, <2>2 DEF Stop
  <2>3. CASE t = "main" /\ ~\E how : Stop(how)
    <3>1. /\ image[i] = "loaded" /\ CbFuncFits(i) /\ cbFunc' = bound[i]
          /\ image' = [image EXCEPT ![i] = "ready"] /\ UNCHANGED <<base, bound>>
      BY <1>4, <2>3 DEF Ctor, gyh_do_ctor
    <3>2. image'[i] = "ready" /\ \A j \in Image : j # i => image'[j] = image[j]
      BY <1>0, <3>1 DEF Types
    <3>3. \A j \in Image : image'[j] # "absent" => BoundMapped(j)'
      BY <3>1, <3>2 DEF BoundMapped, This
    <3>4. \A j \in Image : image[j] = "ready" => cbFunc = bound[i]
      BY <3>1 DEF CbFuncFits, BoundMapped
    <3> QED BY <3>1, <3>2, <3>3, <3>4
  <2> QED BY <2>1, <2>2, <2>3
<1>5. ASSUME NEW i \in Image, NEW t \in Thread, Dtor(i, t)
      PROVE  CallbackInv'
  <2>1. /\ UNCHANGED <<bound, base, cbFunc>>
        /\ image' = image \/ image' = [image EXCEPT ![i] = "closed"]
        /\ image[i] # "absent"
    BY <1>5 DEF Dtor, gyh_dtor, Stop
  <2> QED BY <1>0, <1>3, <2>1 DEF Types
<1>6. ASSUME UNCHANGED <<image, bound, base, cbFunc>>
      PROVE  CallbackInv'
  BY <1>3, <1>6
<1>7. ASSUME NEW i \in Image, NEW t \in Thread, NEW f \in 0..(Funcs[i] - 1), Call(i, f, t)
      PROVE  UNCHANGED <<image, bound, base, cbFunc>>
  BY <1>7 DEF Call, gyh_do_call, Called, Stop
<1>8. Exit \/ Ended \/ UNCHANGED vars => UNCHANGED <<image, bound, base, cbFunc>>
  BY DEF Exit, Ended, Stop, vars
<1> HIDE DEF CallbackInv
<1> QED BY <1>1, <1>2, <1>4, <1>5, <1>6, <1>7, <1>8 DEF Next

(* The callback entry gyh_do_ctor accepts stays mapped while a constructed
   module can call back through it.                                        *)
THEOREM CallbackEntryMappedAlways == Spec => []CallbackEntryMapped
<1>1. Init => CallbackInv
  BY DEF Init, CallbackInv
<1>2. QlibsInv /\ CallbackInv /\ [Next]_vars => CallbackInv'
  BY CallbackKeeps
<1>3. CallbackInv => CallbackEntryMapped
  BY DEF CallbackInv, CallbackEntryMapped, BoundMapped
<1> QED BY <1>1, <1>2, <1>3, QlibsInvariant, PTL DEF Spec

-----------------------------------------------------------------------------
(* Slots are filled from the first one on and never given back, so that the
   number of constructions is the first free slot.                         *)
SlotsFilled ==
  /\ ctors \in 0..QlibsSize
  /\ \A s \in Slot : qlibs[s].handle <=> s < ctors
FullInv == SlotsFilled /\ FullWhenUsed

LEMMA FirstFreeSlot ==
  ASSUME SlotsFilled
  PROVE  /\ \A s \in Slot : FirstFree(s) => s = ctors
         /\ (\A s \in Slot : ~FirstFree(s)) => ctors = QlibsSize
<1>1. ctors \in Nat /\ ctors <= QlibsSize /\ QlibsSize \in Nat
  BY SlotNumbers DEF SlotsFilled
<1>2. \A s \in Slot : s \in Free <=> ~(s < ctors)
  BY DEF Free, SlotsFilled
<1>3. ASSUME ctors # QlibsSize PROVE ctors \in Slot /\ FirstFree(ctors)
  <2>1. ctors \in Slot
    BY <1>1, <1>3, SlotNumbers
  <2>2. \A r \in Free : r \in Slot
    BY DEF Free
  <2>3. \A r \in Free : ctors <= r
    BY <1>1, <1>2, <2>2, SlotNumbers
  <2> QED BY <1>1, <1>2, <2>1, <2>3 DEF FirstFree
<1>4. ASSUME NEW s \in Slot, FirstFree(s) PROVE s = ctors
  <2>1. s \in Nat /\ s < QlibsSize /\ ~(s < ctors)
    BY <1>2, <1>4, SlotNumbers DEF FirstFree
  <2>2. ctors \in Free
    BY <1>1, <1>3, <2>1 DEF FirstFree
  <2> QED BY <1>1, <1>4, <2>1, <2>2 DEF FirstFree
<1> QED BY <1>3, <1>4

LEMMA FullKeeps ==
  ASSUME Types, FullInv, [Next]_vars
  PROVE  FullInv'
<1> USE DEF FullInv
<1>1. ASSUME UNCHANGED <<qlibs, ctors>>, proc' # "full" \/ proc' = proc
      PROVE  FullInv'
  BY <1>1 DEF SlotsFilled, FullWhenUsed
<1>2. ASSUME NEW i \in Image, gyh_do_ctor(i), proc = "runs" PROVE FullInv'
  <2>1. CASE (\A s \in Slot : ~FirstFree(s)) /\ Stop("full")
    BY <2>1, FirstFreeSlot DEF Stop, SlotsFilled, FullWhenUsed
  <2>2. CASE Stop("cbFunc") \/ Stop("dlopen")
    BY <1>1, <2>2 DEF Stop
  <2>3. ASSUME NEW s \in Slot, FirstFree(s), proc' = proc, ctors' = ctors + 1,
               qlibs' = [qlibs EXCEPT ![s] = [handle |-> TRUE, uid |-> Uid[i],
                                              hfunctbl |-> Mapping(Uid[i])]]
        PROVE  FullInv'
    <3>1. s = ctors /\ s \in Nat /\ s < QlibsSize /\ QlibsSize \in Nat
      BY <2>3, FirstFreeSlot, SlotNumbers
    <3>2. qlibs'[s].handle = TRUE /\ \A t \in Slot : t # s => qlibs'[t] = qlibs[t]
      BY <2>3 DEF Types
    <3>3. \A t \in Slot : t < ctors' <=> t = s \/ t < ctors
      BY <2>3, <3>1, SlotNumbers
    <3>4. \A t \in Slot : qlibs'[t].handle <=> t < ctors'
      BY <3>2, <3>3 DEF SlotsFilled
    <3>5. ctors' \in 0..QlibsSize
      BY <2>3, <3>1
    <3> QED BY <1>2, <2>3, <3>4, <3>5 DEF SlotsFilled, FullWhenUsed
  <2> QED BY <1>2, <2>1, <2>2, <2>3 DEF gyh_do_ctor
<1>3. ASSUME NEW i \in Image, NEW t \in Thread, Ctor(i, t) PROVE FullInv'
  <2>1. CASE t = "main"
    BY <1>2, <1>3, <2>1 DEF Ctor
  <2>2. CASE t # "main"
    BY <1>1, <1>3, <2>2 DEF Ctor, Unserved
  <2> QED BY <2>1, <2>2
<1>4. ASSUME NEW i \in Image, NEW t \in Thread, Dtor(i, t) PROVE FullInv'
  BY <1>1, <1>4 DEF Dtor, gyh_dtor, Stop
<1>5. ASSUME NEW i \in Image, NEW t \in Thread, NEW f \in 0..(Funcs[i] - 1), Call(i, f, t)
      PROVE  FullInv'
  BY <1>1, <1>5 DEF Call, gyh_do_call, Called, Stop
<1>6. ASSUME NEW i \in Image, NEW cb \in Image, Load(i, cb) PROVE FullInv'
  BY <1>1, <1>6 DEF Load
<1>7. ASSUME NEW i \in Image, Unload(i) PROVE FullInv'
  BY <1>1, <1>7 DEF Unload
<1>8. CASE Exit \/ Ended \/ UNCHANGED vars
  BY <1>1, <1>8 DEF Exit, Ended, Stop, vars
<1> HIDE DEF FullInv
<1> QED BY <1>3, <1>4, <1>5, <1>6, <1>7, <1>8 DEF Next

(* gyh_do_ctor reports a full table only after QlibsSize constructions, each
   of which took a slot of its own.                                        *)
THEOREM FullWhenUsedAlways == Spec => []FullWhenUsed
<1>1. Init => FullInv
  <2> SUFFICES ASSUME Init PROVE FullInv
    OBVIOUS
  <2>1. ctors = 0 /\ ctors \in 0..QlibsSize
    BY SlotNumbers DEF Init
  <2>2. \A s \in Slot : ~qlibs[s].handle /\ ~(s < ctors)
    BY <2>1, SlotNumbers DEF Init
  <2>3. FullWhenUsed
    BY DEF Init, FullWhenUsed
  <2> QED BY <2>1, <2>2, <2>3 DEF FullInv, SlotsFilled
<1>2. QlibsInv /\ FullInv /\ [Next]_vars => FullInv'
  BY FullKeeps DEF QlibsInv
<1>3. FullInv => FullWhenUsed
  BY DEF FullInv
<1> QED BY <1>1, <1>2, <1>3, QlibsInvariant, PTL DEF Spec

-----------------------------------------------------------------------------
(* The rest of the types.                                                  *)
Entry == [handle: BOOLEAN, uid: Nat, hfunctbl: Nat]
KindsKept ==
  /\ proc \in Proc /\ image \in [Image -> State] /\ loads \in Nat /\ base \in [Image -> Nat]
  /\ bound \in [Image -> Instance \cup {NULL}] /\ cbFunc \in Instance \cup {NULL}
  /\ qlibs \in [Slot -> Entry] /\ grt \in [UidSet -> Instance \cup {NULL}]
  /\ ctors \in Nat /\ last.how \in How

LEMMA ThisTyped ==
  ASSUME KindsKept, NEW i \in Image
  PROVE  This(i) \in Instance
  BY DEF KindsKept, This, Instance

LEMMA KindsStep ==
  ASSUME KindsKept, Types, [Next]_vars
  PROVE  KindsKept'
<1> USE DEF KindsKept
<1>1. ASSUME NEW p \in Proc, Stop(p) PROVE KindsKept'
  BY <1>1 DEF Stop, NoCall, How
<1>2. \A p \in {"exit", "cbFunc", "full", "dlopen", "range"} : p \in Proc
  BY DEF Proc
<1>3. ASSUME NEW i \in Image, NEW st \in State, image' = [image EXCEPT ![i] = st], last' = NoCall,
             UNCHANGED <<proc, loads, base, bound, qlibs, grt, cbFunc, ctors>>
      PROVE  KindsKept'
  BY <1>3 DEF NoCall, How
<1>4. ASSUME NEW i \in Image, NEW cb \in Image, Load(i, cb) PROVE KindsKept'
  <2>1. /\ proc' = proc /\ image' \in [Image -> State] /\ last'.how \in How
        /\ UNCHANGED <<qlibs, grt, cbFunc, ctors>>
    BY <1>4 DEF Load, State, NoCall, How
  <2>2. loads' \in Nat /\ base' \in [Image -> Nat]
    BY <1>4 DEF Load
  <2>3. bound' \in [Image -> Instance \cup {NULL}]
    BY <1>4, <2>2 DEF Load, Instance
  <2> QED BY <2>1, <2>2, <2>3
<1>5. ASSUME NEW i \in Image, gyh_do_ctor(i) PROVE KindsKept'
  <2>1. ASSUME NEW s \in Slot, cbFunc' = bound[i],
               qlibs' = [qlibs EXCEPT ![s] = [handle |-> TRUE, uid |-> Uid[i],
                                              hfunctbl |-> Mapping(Uid[i])]],
               grt' = [grt EXCEPT ![Uid[i]] = Tables(i)],
               image' = [image EXCEPT ![i] = "ready"],
               ctors' = ctors + 1, UNCHANGED <<proc, loads, base, bound>>, last' = NoCall
        PROVE  KindsKept'
    <3>1. image' \in [Image -> State] /\ last'.how \in How /\ cbFunc' \in Instance \cup {NULL}
      BY <2>1 DEF State, NoCall, How
    <3>2. ctors' \in Nat
      BY <2>1
    <3>3. [handle |-> TRUE, uid |-> Uid[i], hfunctbl |-> Mapping(Uid[i])] \in Entry
      <4>1. Uid[i] \in Nat /\ Uid[i] \in UidSet
        BY UidNoSlot
      <4>2. Mapping(Uid[i]) \in Nat
        <5>1. mapped[Uid[i]] \in Nat
          BY <4>1 DEF Types
        <5> QED BY <5>1 DEF Mapping
      <4> QED BY <4>1, <4>2 DEF Entry
    <3>4. qlibs' \in [Slot -> Entry]
      BY <2>1, <3>3
    <3>5. Tables(i) \in Instance \cup {NULL}
      BY ThisTyped, UidNoSlot DEF Tables
    <3>6. grt' \in [UidSet -> Instance \cup {NULL}]
      BY <2>1, <3>5
    <3> QED BY <2>1, <3>1, <3>2, <3>4, <3>6
  <2> QED BY <1>1, <1>2, <1>5, <2>1 DEF gyh_do_ctor
<1>6. ASSUME NEW i \in Image, NEW t \in Thread, Ctor(i, t) \/ Dtor(i, t) PROVE KindsKept'
  <2>1. CASE Ctor(i, t)
    BY <1>3, <1>5, <2>1 DEF Ctor, Unserved, State
  <2>2. CASE Dtor(i, t)
    BY <1>1, <1>2, <1>3, <2>2 DEF Dtor, gyh_dtor, State
  <2> QED BY <1>6, <2>1, <2>2
<1>7. ASSUME NEW i \in Image, NEW t \in Thread, NEW f \in 0..(Funcs[i] - 1), Call(i, f, t)
      PROVE  KindsKept'
  <2>1. ASSUME NEW how \in How, NEW u, Called(i, how, u) PROVE KindsKept'
    BY <2>1 DEF Called, Proc
  <2>2. CASE Stop("range")
    BY <1>1, <1>2, <2>2
  <2> QED BY <1>7, <2>1, <2>2 DEF Call, gyh_do_call, How
<1>8. ASSUME NEW i \in Image, Unload(i) PROVE KindsKept'
  BY <1>3, <1>8 DEF Unload, State
<1>9. CASE Exit
  BY <1>1, <1>2, <1>9 DEF Exit
<1>10. CASE Ended \/ UNCHANGED vars
  BY <1>10 DEF Ended, vars
<1> HIDE DEF KindsKept
<1> QED BY <1>4, <1>6, <1>7, <1>8, <1>9, <1>10 DEF Next

(* The table, the reference counts and the guests' variables keep their types:
   no library is closed more often than it was opened.                     *)
THEOREM QlibsTypeOKAlways == Spec => []TypeOK
<1>1. Init => KindsKept
  <2> SUFFICES ASSUME Init PROVE KindsKept
    OBVIOUS
  <2>1. qlibs \in [Slot -> Entry]
    BY DEF Init, Entry
  <2> QED BY <2>1 DEF Init, KindsKept, Proc, State, NoCall, How
<1>2. QlibsInv /\ KindsKept /\ [Next]_vars => KindsKept'
  BY KindsStep DEF QlibsInv
<1>3. QlibsInv /\ KindsKept => TypeOK
  BY DEF QlibsInv, Types, KindsKept, Entry, TypeOK
<1> QED BY <1>1, <1>2, <1>3, QlibsInvariant, PTL DEF Spec

=============================================================================
