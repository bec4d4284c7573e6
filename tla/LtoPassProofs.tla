--------------------------- MODULE LtoPassProofs ---------------------------
(***************************************************************************)
(* The two halves of a module fit together, for every module, every        *)
(* configuration and every pattern of failing saves.                       *)
(***************************************************************************)
EXTENDS LtoPass, TLAPS

Start == {"uid", "log", "allin1", "pickUp"}
Front == Start \cup {"outline", "analyze"}
Early == Front \cup {"takeOut"}
Late  == {"link", "badMagic", "loaded"}

NoTablesYet == hfunctbl = {} /\ functbl = {} /\ prefix = {} /\ chopped = {}

(* What Analyze enters into the table.                                     *)
TableFits ==
  \A f \in mFunctbl : mFuncs[f].analyze # "no" /\ \A g \in Callees[f] : mCallees[g] # "no"

(* The inductive invariant.  Until TakeOut the tables are empty; afterwards
   each is a function of the marks, the lists and Symtbl::mFunctbl, which no
   later step changes.  In a program that was linked they are complete.    *)
PassInv ==
  /\ stage \in Stage
  /\ stage \in Early => NoTablesYet
  /\ stage \in Front => mFunctbl = {}
  /\ stage \notin Start => NoTablesYet \/ mFuncs = PickedFuncs
  /\ stage \in Stage \ (Start \cup Ends) => mFuncs = PickedFuncs
  /\ TableFits
  /\ hfunctbl \subseteq TakenOut /\ functbl \subseteq TakenOut
  /\ prefix \subseteq Prefixed /\ chopped \subseteq Benefits
  /\ stage \in {"chopOff"} \cup Late =>
       hfunctbl = TakenOut /\ functbl = gen_functbl /\ ~NoHostFunc /\ "host" \in saved
  /\ stage \in Late => prefix = Prefixed /\ mFuncs = PickedFuncs
  /\ stage = "badMagic" => conf.use.fcpcm /\ ~gyh_do_ctor_fcp_cm

(* PassInv holds initially, when there are no tables.                      *)
LEMMA PassInit == Init => PassInv
  BY DEF Init, PassInv, Stage, Ends, Start, Front, Early, Late, NoTablesYet, TableFits

(* Every step of the link preserves PassInv.                               *)
LEMMA PassNext == PassInv /\ [Next]_vars => PassInv'
<1> SUFFICES ASSUME PassInv, [Next]_vars PROVE PassInv'
  OBVIOUS
<1> USE DEF Stage, Ends, Start, Front, Early, Late, lists, symtbl, host, guest
<1>1. ASSUME NEW u \in Uids, DrawUid(u) PROVE PassInv'
  BY <1>1 DEF PassInv, DrawUid, NoTablesYet, TableFits, TakenOut, blackList, Prefixed, Benefits,
     Choppable, OnlyPrefixed, PickedFuncs
<1>2. CASE OpenLog
  BY <1>2 DEF PassInv, OpenLog, NoTablesYet, TableFits, TakenOut, blackList, Prefixed, Benefits,
     Choppable, OnlyPrefixed, PickedFuncs
<1>3. CASE SaveAllin1
  BY <1>3 DEF PassInv, SaveAllin1, SaveOrReturn, NoTablesYet, TableFits, TakenOut, blackList,
     Prefixed, Benefits, Choppable, OnlyPrefixed, PickedFuncs
<1>4. CASE PickUp
  BY <1>4 DEF PassInv, PickUp, SaveOrReturn, NoTablesYet, TableFits, PickedFuncs
<1>5. CASE Outline
  BY <1>5 DEF PassInv, Outline, SaveOrReturn, NoTablesYet, TableFits, TakenOut, blackList, Prefixed,
     Benefits, Choppable, OnlyPrefixed, PickedFuncs
<1>6. CASE Analyze
  BY <1>6 DEF PassInv, Analyze, SaveOrReturn, NoTablesYet, TableFits, do_function, PickedFuncs
<1>7. CASE TakeOut
  BY <1>7 DEF PassInv, TakeOut, SaveOrReturn, NoTablesYet, TableFits, TakenOut, blackList, Prefixed,
     Benefits, Choppable, OnlyPrefixed, PickedFuncs, NoHostFunc, gen_functbl, mFcpFuncMap,
     mWhiteCallees
<1>8. CASE ChopOff
  BY <1>8 DEF PassInv, ChopOff, SaveOrReturn, NoTablesYet, TableFits, TakenOut, blackList, Prefixed,
     Benefits, Choppable, OnlyPrefixed, PickedFuncs, NoHostFunc, gen_functbl, mFcpFuncMap,
     mWhiteCallees
<1>9. CASE LinkAndLoad
  BY <1>9 DEF PassInv, LinkAndLoad, NoTablesYet, TableFits, TakenOut, blackList, Prefixed, Benefits,
     Choppable, OnlyPrefixed, PickedFuncs, NoHostFunc, gen_functbl, mFcpFuncMap, mWhiteCallees,
     gyh_do_ctor_fcp_cm
<1>10. CASE UNCHANGED vars
  BY <1>10 DEF PassInv, vars, NoTablesYet, TableFits, TakenOut, blackList, Prefixed, Benefits,
     Choppable, OnlyPrefixed, PickedFuncs, NoHostFunc, gen_functbl, mFcpFuncMap, mWhiteCallees,
     gyh_do_ctor_fcp_cm
<1> QED
  BY <1>1, <1>2, <1>3, <1>4, <1>5, <1>6, <1>7, <1>8, <1>9, <1>10 DEF Next, Ended

(* PassInv is an invariant of every link.                                  *)
THEOREM PassInvariant == Spec => []PassInv
  BY PassInit, PassNext, PTL DEF Spec

-----------------------------------------------------------------------------
(* In every program that loads, whatever is called and was not marked
   no-take-out has a body, in the guest or in the host half.  A stub stands
   for a function of the table, and so does a patched prefix; such a function
   is taken out, and FCP-CM is not on unless it is in TakeOut's map too.   *)
THEOREM CallReachesBodyAlways == Spec => []CallReachesBody
<1>1. PassInv => CallReachesBody
  <2> SUFFICES ASSUME PassInv, stage = "loaded"
               PROVE  /\ "host" \in saved
                      /\ \A f \in Func : mFuncs[f].takeOut # "no" => Reached(f)
    BY DEF CallReachesBody
  <2>1. /\ hfunctbl = TakenOut /\ functbl = gen_functbl /\ ~NoHostFunc /\ "host" \in saved
        /\ prefix = Prefixed /\ chopped \subseteq Benefits
    BY DEF PassInv, Late
  <2>2. ASSUME NEW f \in Func, mFuncs[f].takeOut # "no" PROVE Reached(f)
    <3>1. f \in chopped => f \in hfunctbl
      BY <2>1, <2>2 DEF Benefits, Choppable, TakenOut, blackList
    <3>2. f \in prefix => f \in functbl
      BY <2>1, <2>2 DEF Prefixed, Choppable, TakenOut, blackList, NoHostFunc, gen_functbl
    <3>3. GuestRuns(f) # "null" /\ HostRuns(f) # "null"
      BY <3>1, <3>2 DEF GuestRuns, HostRuns
    <3> QED
      BY <3>3 DEF Reached, CallRuns
  <2> QED
    BY <2>1, <2>2
<1> QED
  BY <1>1, PassInvariant, PTL

(* A step that is switched off for a function leaves it alone, in every state
   of every link.                                                          *)
THEOREM OffStaysOffAlways == Spec => []OffStaysOff
<1>1. PassInv => OffStaysOff
  <2> SUFFICES ASSUME PassInv, NEW f \in Func
               PROVE  /\ PickedFuncs[f].chopOff = "no" => f \notin chopped
                      /\ PickedFuncs[f].takeOut = "no" => f \notin hfunctbl \cup functbl
                      /\ PickedFuncs[f].analyze = "no" => f \notin hfunctbl \cup chopped
                      /\ f \in hfunctbl \cup chopped => \A g \in Callees[f] : mCallees[g] # "no"
    BY DEF OffStaysOff, PickedFuncs
  <2>1. CASE NoTablesYet
    BY <2>1 DEF NoTablesYet
  <2>2. CASE mFuncs = PickedFuncs
    BY <2>2 DEF PassInv, TableFits, TakenOut, blackList, Benefits, Choppable
  <2> QED
    BY <2>1, <2>2 DEF PassInv, Start, Front, Early
<1> QED
  BY <1>1, PassInvariant, PTL

(* A constructor aborts only because of a function that chop-off was told to
   leave alone or that had a prefix before: ChopOff puts the magic before all
   the others.                                                             *)
THEOREM AbortExplainedAlways == Spec => []AbortExplained
<1>1. PassInv => AbortExplained
  BY DEF PassInv, AbortExplained, Late, gyh_do_ctor_fcp_cm, Prefixed, Choppable
<1> QED
  BY <1>1, PassInvariant, PTL

-----------------------------------------------------------------------------
(* What the configurations considered are made of.                         *)
LEMMA ConfParts ==
  ASSUME NEW c \in Conf
  PROVE  /\ c.body \in [Func -> Body] /\ c.anno \in [Func -> Marks] /\ c.config \in [Func -> Marks]
         /\ c.callees \in [Func -> Bw]
  BY DEF Conf

LEMMA PassConstants ==
  /\ Confs \subseteq Conf /\ 0 \in Uids
  /\ \A f \in Func : Callees[f] \subseteq Func
  BY PassAssumption

(* The marks and callees that PickUp takes over have their types.          *)
LEMMA PickedTypes ==
  conf \in Conf => PickedFuncs \in [Func -> Marks] /\ PickedCallees \in [Func -> Bw]
<1> SUFFICES ASSUME conf \in Conf
             PROVE  PickedFuncs \in [Func -> Marks] /\ PickedCallees \in [Func -> Bw]
  OBVIOUS
<1>1. conf.anno \in [Func -> Marks] /\ conf.config \in [Func -> Marks] /\ conf.callees \in [Func -> Bw]
  BY ConfParts
<1> HIDE DEF Conf
<1>2. PickedFuncs \in [Func -> Marks]
  BY <1>1 DEF PickedFuncs
<1>3. PickedCallees \in [Func -> Bw]
  BY <1>1 DEF PickedCallees, Bw
<1> QED BY <1>2, <1>3

(* The variables of the pass keep their types, whatever the module, its marks
   and the outcomes of the saves.                                          *)
THEOREM PassTypeOKAlways == Spec => []TypeOK
<1>1. Init => TypeOK
  <2> SUFFICES ASSUME Init PROVE TypeOK
    OBVIOUS
  <2>1. conf \in Conf /\ uid \in Uids
    BY PassConstants DEF Init
  <2>2. mFuncs \in [Func -> Marks] /\ mCallees \in [Func -> Bw]
    BY DEF Init, Marks, Unset, Bw
  <2>3. ins \in [Func -> Ins]
    BY <2>1, ConfParts DEF Init, Body
  <2>4. tries \in 0..2
    BY DEF Init
  <2>5. /\ stage \in Stage /\ saved \subseteq Files /\ mFCPcmChop \subseteq Func /\ mFunctbl \subseteq Func
        /\ hfunctbl \subseteq Func /\ functbl \subseteq Func /\ prefix \subseteq Func /\ chopped \subseteq Func
        /\ reported \in BOOLEAN
    BY DEF Init, Stage
  <2>6. mCbStubArgs \in [Func -> SUBSET Func]
    BY DEF Init
  <2> QED BY <2>1, <2>2, <2>3, <2>4, <2>5, <2>6 DEF TypeOK
<1>2. TypeOK /\ [Next]_vars => TypeOK'
  <2> SUFFICES ASSUME TypeOK, [Next]_vars PROVE TypeOK'
    OBVIOUS
  <2> USE DEF TypeOK, Stage, Ends, Files, lists, symtbl, host, guest
  <2>1. ASSUME NEW u \in Uids, DrawUid(u) PROVE TypeOK'
    <3>1. tries' \in 0..2
      BY <2>1 DEF DrawUid, LastTry
    <3>2. stage' \in Stage /\ reported' \in BOOLEAN /\ uid' \in Uids
      BY <2>1 DEF DrawUid
    <3> QED BY <2>1, <3>1, <3>2 DEF DrawUid
  <2>2. CASE OpenLog
    BY <2>2 DEF OpenLog
  <2>3. CASE SaveAllin1
    BY <2>3 DEF SaveAllin1, SaveOrReturn
  <2>4. CASE PickUp
    BY <2>4, PickedTypes DEF PickUp, SaveOrReturn
  <2>5. CASE Outline
    <3>1. ins' \in [Func -> Ins]
      BY <2>5 DEF Outline, Outlined, Ins
    <3> QED BY <2>5, <3>1 DEF Outline, SaveOrReturn
  <2>6. CASE Analyze
    <3>1. mFunctbl' \subseteq Func
      BY <2>6 DEF Analyze
    <3>2. mCbStubArgs' \in [Func -> SUBSET Func]
      BY <2>6, PassConstants DEF Analyze, CallbackTypes
    <3> QED BY <2>6, <3>1, <3>2 DEF Analyze, SaveOrReturn
  <2>7. CASE TakeOut
    BY <2>7 DEF TakeOut, SaveOrReturn, TakenOut, gen_functbl, mFcpFuncMap
  <2>8. CASE ChopOff
    BY <2>8 DEF ChopOff, SaveOrReturn, Prefixed, Benefits, Choppable
  <2>9. CASE LinkAndLoad
    BY <2>9 DEF LinkAndLoad
  <2>10. CASE UNCHANGED vars
    BY <2>10 DEF vars
  <2> QED
    BY <2>1, <2>2, <2>3, <2>4, <2>5, <2>6, <2>7, <2>8, <2>9, <2>10 DEF Next, Ended
<1> QED BY <1>1, <1>2, PTL DEF Spec

-----------------------------------------------------------------------------
(* As long as nothing was reported, the table holds what the marks ask for:
   after Analyze the functions marked for it, after TakeOut those marked for
   that one too.                                                           *)
Analyzed == \A f \in Func : mFuncs[f].analyze = "yes" => f \in mFunctbl \/ ins[f] = "declared"
Wanted   == \A f \in Func : mFuncs[f].takeOut = "yes" => f \in mFunctbl
RequestsInv ==
  /\ stage \in {"takeOut", "chopOff"} \cup Late /\ ~reported => Analyzed
  /\ stage \in {"chopOff"} \cup Late /\ ~reported => Wanted
  /\ stage \in {"badMagic", "loaded"} => ~reported

LEMMA RequestsNext == RequestsInv /\ [Next]_vars => RequestsInv'
<1> SUFFICES ASSUME RequestsInv, [Next]_vars PROVE RequestsInv'
  OBVIOUS
<1> USE DEF RequestsInv, Late, lists, symtbl, host, guest
<1>1. ASSUME NEW u \in Uids, DrawUid(u) PROVE RequestsInv'
  BY <1>1 DEF DrawUid
<1>2. CASE OpenLog \/ SaveAllin1 \/ PickUp \/ Outline
  BY <1>2 DEF OpenLog, SaveAllin1, PickUp, Outline, SaveOrReturn
<1>3. CASE Analyze
  BY <1>3 DEF Analyze, SaveOrReturn, AnalyzeReports, Analyzed, do_function
<1>4. CASE TakeOut
  BY <1>4 DEF TakeOut, SaveOrReturn, TakeOutReports, Analyzed, Wanted
<1>5. CASE ChopOff
  BY <1>5 DEF ChopOff, SaveOrReturn, Analyzed, Wanted
<1>6. CASE LinkAndLoad
  BY <1>6 DEF LinkAndLoad, Analyzed, Wanted
<1>7. CASE UNCHANGED vars
  BY <1>7 DEF vars, Analyzed, Wanted
<1> QED
  BY <1>1, <1>2, <1>3, <1>4, <1>5, <1>6, <1>7 DEF Next, Ended

(* Whatever is marked for analyze or take-out has a host body in every program
   that is linked: a step that can not do what a mark asks for reports it, and
   nothing takes a report back.                                            *)
THEOREM RequestsMetAlways == Spec => []RequestsMet
<1>1. Init => RequestsInv
  BY DEF Init, RequestsInv, Late
<1>2. PassInv /\ RequestsInv => RequestsMet
  BY DEF PassInv, RequestsInv, RequestsMet, Late, Analyzed, Wanted, TakenOut, blackList
<1> QED
  BY <1>1, <1>2, RequestsNext, PassInvariant, PTL DEF Spec

-----------------------------------------------------------------------------
(* Analyze records a stub for every call that TakeOut can ask for.         *)
StubsInv ==
  /\ stage = "takeOut" => \A f \in mFunctbl : f \in Func /\ mCbStubArgs[f] = CallbackTypes(f)
  /\ DiesOnlyOnLists

(* With options that fit together and no function listed as a callee, TakeOut
   finds all that it looks up.                                             *)
LEMMA TakeOutFinds ==
  ASSUME \A f \in mFunctbl : f \in Func /\ mCbStubArgs[f] = CallbackTypes(f),
         NoTables \/ NoHostFunc \/ NoStub
  PROVE  \/ conf.use.fcp /\ ~conf.use.grt
         \/ conf.use.fcpcm /\ ~conf.use.fcp
         \/ \E f \in Func : mCallees[f] # "unset"
<1> SUFFICES ASSUME conf.use.fcpcm => conf.use.fcp, \A f \in Func : mCallees[f] = "unset", ~NoTables
             PROVE  FALSE
  BY DEF NoTables
<1>1. mWhiteCallees = {}
  BY DEF mWhiteCallees
<1>2. conf.use.fcp => mFcpFuncMap = TakenOut
  BY <1>1 DEF mFcpFuncMap
<1>3. ~NoHostFunc
  BY <1>2 DEF NoHostFunc
<1>4. ~NoStub
  <2> SUFFICES ASSUME NEW f \in TakenOut, NEW g \in Callees[f], HostCall(f, g) = "stray"
               PROVE  FALSE
    BY DEF NoStub
  <2>1. f \in Func /\ mCbStubArgs[f] = CallbackTypes(f) /\ g \in Func
    BY PassConstants DEF TakenOut
  <2>2. g \in mCbStubArgs[f]
    BY <2>1 DEF CallbackTypes
  <2> QED BY <1>1, <2>2 DEF HostCall
<1> QED BY <1>3, <1>4

LEMMA StubsNext == StubsInv /\ [Next]_vars => StubsInv'
<1> SUFFICES ASSUME StubsInv, [Next]_vars PROVE StubsInv'
  OBVIOUS
<1> USE DEF StubsInv, lists, symtbl, host, guest
<1>1. ASSUME NEW u \in Uids, DrawUid(u) PROVE StubsInv'
  BY <1>1 DEF DrawUid, DiesOnlyOnLists
<1>2. CASE OpenLog \/ SaveAllin1 \/ PickUp \/ Outline
  BY <1>2 DEF OpenLog, SaveAllin1, PickUp, Outline, SaveOrReturn, DiesOnlyOnLists
<1>3. CASE Analyze
  BY <1>3 DEF Analyze, SaveOrReturn, CallbackTypes, DiesOnlyOnLists
<1>4. CASE TakeOut
  <2>1. CASE NoTables \/ NoHostFunc \/ NoStub
    BY <1>4, <2>1, TakeOutFinds DEF TakeOut, DiesOnlyOnLists
  <2>2. CASE ~(NoTables \/ NoHostFunc \/ NoStub)
    BY <1>4, <2>2 DEF TakeOut, SaveOrReturn, DiesOnlyOnLists
  <2> QED BY <2>1, <2>2
<1>5. CASE ChopOff \/ LinkAndLoad
  BY <1>5 DEF ChopOff, LinkAndLoad, SaveOrReturn, DiesOnlyOnLists
<1>6. CASE UNCHANGED vars
  BY <1>6 DEF vars, CallbackTypes, DiesOnlyOnLists
<1> QED
  BY <1>1, <1>2, <1>3, <1>4, <1>5, <1>6 DEF Next, Ended

(* The linker dies in the pass only for options that are at odds or a function
   of the module that is listed as a callee: no mark and no kind of body does
   it.                                                                     *)
THEOREM DiesOnlyOnListsAlways == Spec => []DiesOnlyOnLists
<1>1. Init => StubsInv
  BY DEF Init, StubsInv, DiesOnlyOnLists
<1>2. StubsInv => DiesOnlyOnLists
  BY DEF StubsInv
<1> QED
  BY <1>1, <1>2, StubsNext, PTL DEF Spec

=============================================================================
