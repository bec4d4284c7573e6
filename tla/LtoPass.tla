------------------------------ MODULE LtoPass ------------------------------
(***************************************************************************)
(* The link-time pass (LtoPass::run): PickUp, Outline, Analyze, TakeOut    *)
(* and ChopOff turn a module into a guest half, which is linked, and a     *)
(* host half, from which the .qso is built.  Files are saved in between;   *)
(* a save that fails ends the pass.  All diagnostics of the pass have      *)
(* severity DS_Error, so that the linker, which lets the pass go on, does  *)
(* not produce an output in the end.  What a call reaches in the loaded    *)
(* program can then be read off the tables of the two halves.              *)
(*                                                                         *)
(* A function is what the five steps tell apart in it: its marks, what     *)
(* Analyze and Outline say of its body, its size, and which functions of   *)
(* the module it calls directly, not variadically.                         *)
(***************************************************************************)
EXTENDS Integers, FiniteSets

CONSTANTS
  Func,      \* functions of the module
  Callees,   \* Callees[f]: the functions f calls
  Confs,     \* the modules and configurations considered
  Uids,      \* the numbers a uid is drawn from
  Dirs       \* uids for which guest/<uid> cannot be created

Bw    == {"unset", "yes", "no"}
Marks == [outline: Bw, analyze: Bw, takeOut: Bw, chopOff: Bw]
Unset == [outline |-> "unset", analyze |-> "unset", takeOut |-> "unset", chopOff |-> "unset"]

(* ins: what keeps a function from being offloaded.  "variadic" calls only,
   which Outline can move out; "never": instructions that Outline gives up on
   as well; "refused": its attributes or its signature; "declared": its body
   is in another module.  prefixed: it has prefix data of its own.         *)
Ins  == {"fine", "variadic", "never", "refused", "declared"}
Body == [ins: Ins, big: BOOLEAN, prefixed: BOOLEAN]

(* Config::mFuncs names the functions in `named` and gives them the marks
   `config`; `anno` are the annotations in the source.                     *)
Conf == [body: [Func -> Body], anno: [Func -> Marks], config: [Func -> Marks], named: SUBSET Func,
         callees: [Func -> Bw], fcpCmChop: SUBSET Func, chopOthers: BOOLEAN,
         use: [pfo: BOOLEAN, grt: BOOLEAN, fcp: BOOLEAN, fcpcm: BOOLEAN]]

ASSUME PassAssumption ==
  /\ Callees \in [Func -> SUBSET Func]
  /\ Confs \subseteq Conf
  /\ Dirs \subseteq Uids /\ 0 \in Uids

VARIABLES
  conf,       \* the module and its configuration
  stage,      \* the step that comes next, or how it ended
  tries,      \* the index of the loop that draws a uid
  uid,        \* the uid drawn last
  reported,   \* an error was diagnosed
  saved,      \* the files written
  mFuncs,     \* BwList::mFuncs
  mCallees,   \* BwList::mCallees
  mFCPcmChop, \* BwList::mFCPcmChop
  ins,        \* ins[f]: the body of f, as Outline leaves it
  mFunctbl,   \* the functions in Symtbl::mFunctbl
  mCbStubArgs,\* mCbStubArgs[f]: the calls of f that have a callback stub
  hfunctbl,   \* the functions whose entry in __gyh_hfunctbl_* is not null
  functbl,    \* the functions whose entry in __gyh_functbl_* is not null
  prefix,     \* the functions with the FCP-CM magic before them
  chopped     \* the functions whose guest body is a stub

lists  == <<mFuncs, mCallees, mFCPcmChop>>
symtbl == <<mFunctbl, mCbStubArgs>>
host   == <<hfunctbl, functbl>>
guest  == <<prefix, chopped>>
vars   == <<conf, stage, tries, uid, reported, saved, lists, ins, symtbl, host, guest>>

Files == {"allin1", "bw-list", "outlined", "symtbl", "host", "guest"}
(* "failed": no program was linked; "crash": the linker died in the pass;
   "badMagic": the loaded program aborts in its constructor.               *)
Ends  == {"failed", "crash", "badMagic", "loaded"}
Stage == {"uid", "log", "allin1", "pickUp", "outline", "analyze", "takeOut", "chopOff", "link"}
           \cup Ends

Init ==
  /\ conf \in Confs
  /\ stage = "uid" /\ tries = 0 /\ uid = 0
  /\ reported = FALSE /\ saved = {}
  /\ mFuncs = [f \in Func |-> Unset]
  /\ mCallees = [f \in Func |-> "unset"] /\ mFCPcmChop = {}
  /\ ins = [f \in Func |-> conf.body[f].ins]
  /\ mFunctbl = {} /\ mCbStubArgs = [f \in Func |-> {}]
  /\ hfunctbl = {} /\ functbl = {}
  /\ prefix = {} /\ chopped = {}

-----------------------------------------------------------------------------
(* Three draws to find a uid whose directory can be created.               *)
Mut_FourTries == tries = 3
LastTry       == tries = 2

DrawUid(u) ==
  /\ stage = "uid"
  /\ uid' = u
  /\ IF u \notin Dirs
     THEN stage' = "log" /\ tries' = 0 /\ UNCHANGED reported
     ELSE IF ~LastTry
     THEN tries' = tries + 1 /\ UNCHANGED <<stage, reported>>
     ELSE tries' = 0 /\ stage' = "failed" /\ reported' = TRUE
  /\ UNCHANGED <<conf, saved, lists, ins, symtbl, host, guest>>

OpenLog ==
  /\ stage = "log"
  /\ \/ stage' = "allin1" /\ UNCHANGED reported
     \/ stage' = "failed" /\ reported' = TRUE
  /\ UNCHANGED <<conf, tries, uid, saved, lists, ins, symtbl, host, guest>>

(* The end of a step that may have reported an error itself: its file is
   saved and the next one follows, or the pass returns.                    *)
SaveOrReturn(file, next, error) ==
  \/ /\ saved' = saved \cup {file}
     /\ stage' = next
     /\ reported' = (reported \/ error)
  \/ /\ stage' = "failed" /\ reported' = TRUE
     /\ UNCHANGED saved

SaveAllin1 ==
  /\ stage = "allin1"
  /\ SaveOrReturn("allin1", "pickUp", FALSE)
  /\ UNCHANGED <<conf, tries, uid, lists, ins, symtbl, host, guest>>

(* An entry of Config::mFuncs replaces all the annotations of a function.  *)
Mut_AnnotationsOnly == conf.anno
PickedFuncs == [f \in Func |-> IF f \in conf.named THEN conf.config[f] ELSE conf.anno[f]]

(* The names in Config::mFCPcmChop become white callees.                   *)
PickedCallees == [f \in Func |-> IF f \in conf.fcpCmChop THEN "yes" ELSE conf.callees[f]]

PickUp ==
  /\ stage = "pickUp"
  /\ mFuncs' = PickedFuncs
  /\ mCallees' = PickedCallees
  /\ SaveOrReturn("bw-list", "outline", FALSE)
  /\ UNCHANGED <<conf, tries, uid, mFCPcmChop, ins, symtbl, host, guest>>

(* Outline moves the variadic calls of a function into functions of their
   own, unless it meets something it can not move.  It reports a function that
   is marked and has nothing to move; of one that Analyze would refuse or that
   is declared only, it may pass over the signature, which may be variadic, or
   find calls in the body, so that the report is left open.                *)
Outlined(f) ==
  IF mFuncs[f].outline # "no" /\ ins[f] = "variadic" THEN "fine" ELSE ins[f]
NothingToOutline(f) == mFuncs[f].outline = "yes" /\ ins[f] = "fine"
MaybeNothing(f)     == mFuncs[f].outline = "yes" /\ ins[f] \in {"refused", "declared"}

Outline ==
  /\ stage = "outline"
  /\ IF conf.use.pfo
     THEN /\ ins' = [f \in Func |-> Outlined(f)]
          /\ \E some \in SUBSET {f \in Func : MaybeNothing(f)} :
               SaveOrReturn("outlined", "analyze", some # {} \/ \E f \in Func : NothingToOutline(f))
     ELSE stage' = "analyze" /\ UNCHANGED <<ins, saved, reported>>
  /\ UNCHANGED <<conf, tries, uid, lists, symtbl, host, guest>>

-----------------------------------------------------------------------------
(* Analyze: a function whose body is supported and that calls no black
   callee enters the table, with a stub for each call that is to no white
   callee either.                                                          *)
do_function(f) ==
  /\ ins[f] = "fine"
  /\ \A g \in Callees[f] : mCallees[g] # "no"

Mut_NotReported == FALSE
AnalyzeReports  ==
  \E f \in Func : mFuncs[f].analyze = "yes" /\ ins[f] # "declared" /\ ~do_function(f)

Mut_ForeignCalls(f) == {g \in Callees[f] : mCallees[g] = "unset" /\ ~do_function(g)}
CallbackTypes(f) == {g \in Callees[f] : mCallees[g] = "unset"}

Analyze ==
  /\ stage = "analyze"
  /\ mFunctbl' = {f \in Func : mFuncs[f].analyze # "no" /\ do_function(f)}
  /\ mCbStubArgs' = [f \in Func |-> IF f \in mFunctbl' THEN CallbackTypes(f) ELSE {}]
  /\ SaveOrReturn("symtbl", "takeOut", AnalyzeReports)
  /\ UNCHANGED <<conf, tries, uid, lists, ins, host, guest>>

-----------------------------------------------------------------------------
(* TakeOut                                                                 *)
blackList     == {f \in Func : mFuncs[f].takeOut = "no"}
TakeOutReports == \E f \in Func : mFuncs[f].takeOut = "yes" /\ f \notin mFunctbl

(* The callees declared in the host half: those with `bw` false.           *)
mWhiteCallees == {g \in Func : mCallees[g] = "no"}

TakenOut    == mFunctbl \ blackList
mFcpFuncMap == IF conf.use.fcp THEN TakenOut \ mWhiteCallees ELSE {}

(* How the host body of f calls g.  "stray": no stub was recorded for the
   call and the callee is not mapped into the host half.                   *)
HostCall(f, g) ==
  CASE g \in mWhiteCallees -> "declared"
    [] g \notin mWhiteCallees /\ g \in mFcpFuncMap -> "direct"
    [] g \notin mWhiteCallees \cup mFcpFuncMap -> IF g \in mCbStubArgs[f] THEN "callback" ELSE "stray"

(* Look-ups that find nothing: the tables of GRT, which a function loads from
   with FCP; the host function of a stub (FCP) or of a table entry (FCP-CM);
   the stub of a callback.                                                 *)
NoTables   == conf.use.fcp /\ ~conf.use.grt /\ TakenOut # {}
NoHostFunc == (conf.use.fcp \/ conf.use.fcpcm) /\ TakenOut \ mFcpFuncMap # {}
NoStub     == \E f \in TakenOut : \E g \in Callees[f] : HostCall(f, g) = "stray"

(* The table for FCP-CM, without its null entries.                         *)
Mut_BigOnly == IF conf.use.fcpcm THEN {f \in mFcpFuncMap : conf.body[f].big} ELSE {}
gen_functbl == IF conf.use.fcpcm THEN mFcpFuncMap ELSE {}

TakeOut ==
  /\ stage = "takeOut"
  /\ IF NoTables \/ NoHostFunc \/ NoStub
     THEN stage' = "crash" /\ UNCHANGED <<saved, reported, host>>
     ELSE /\ hfunctbl' = TakenOut
          /\ functbl' = gen_functbl
          /\ SaveOrReturn("host", "chopOff", TakeOutReports)
  /\ UNCHANGED <<conf, tries, uid, lists, ins, symtbl, guest>>

-----------------------------------------------------------------------------
(* ChopOff::calc_benefits                                                  *)
Choppable == {f \in mFunctbl : mFuncs[f].chopOff # "no"}

Mut_PrefixBig == {f \in Choppable : conf.use.fcpcm /\ ~conf.body[f].prefixed /\ conf.body[f].big}
Prefixed      == {f \in Choppable : conf.use.fcpcm /\ ~conf.body[f].prefixed}

OnlyPrefixed(f) == conf.use.fcpcm /\ (f \in mFCPcmChop) # conf.chopOthers

Benefits == {f \in Choppable : conf.body[f].big /\ ~OnlyPrefixed(f)}

ChopOffReports == \E f \in Choppable \ Benefits : mFuncs[f].chopOff = "yes"

ChopOff ==
  /\ stage = "chopOff"
  /\ prefix' = Prefixed
  /\ chopped' = Benefits
  /\ SaveOrReturn("guest", "link", ChopOffReports)
  /\ UNCHANGED <<conf, tries, uid, lists, ins, symtbl, host>>

(* The linker, and then the constructor of the program: the one for FCP-CM
   wants the magic before every function of __gyh_gfunctbl__.              *)
gyh_do_ctor_fcp_cm == mFunctbl \subseteq prefix

LinkAndLoad ==
  /\ stage = "link"
  /\ stage' = CASE reported -> "failed"
                [] ~reported /\ conf.use.grt /\ conf.use.fcpcm /\ ~gyh_do_ctor_fcp_cm -> "badMagic"
                [] OTHER -> "loaded"
  /\ UNCHANGED <<conf, tries, uid, reported, saved, lists, ins, symtbl, host, guest>>

Ended == stage \in Ends /\ UNCHANGED vars

Next ==
  \/ \E u \in Uids : DrawUid(u)
  \/ OpenLog
  \/ SaveAllin1
  \/ PickUp
  \/ Outline
  \/ Analyze
  \/ TakeOut
  \/ ChopOff
  \/ LinkAndLoad
  \/ Ended

Spec == Init /\ [][Next]_vars

-----------------------------------------------------------------------------
(* What runs when guest code calls f; when host code calls f through a
   pointer, as all host code compiled for FCP-CM does once its prefix is
   patched; and when the host body of f calls g.                           *)
GuestRuns(f) ==
  IF f \notin chopped THEN "guest" ELSE IF f \in hfunctbl THEN "host" ELSE "null"
HostRuns(f) ==
  IF f \in prefix THEN IF f \in functbl THEN "host" ELSE "null" ELSE GuestRuns(f)
CallRuns(f, g) ==
  IF HostCall(f, g) = "direct" THEN "host" ELSE HostRuns(g)

(* f has a body to run whoever calls it.                                   *)
Reached(f) ==
  /\ GuestRuns(f) # "null" /\ HostRuns(f) # "null"
  /\ \A e \in hfunctbl : f \in Callees[e] => CallRuns(e, f) # "null"

(* The variables have their types: one link, whose steps follow each other.*)
TypeOK ==
  /\ conf \in Conf /\ stage \in Stage /\ tries \in 0..2 /\ uid \in Uids
  /\ reported \in BOOLEAN /\ saved \subseteq Files
  /\ mFuncs \in [Func -> Marks] /\ mCallees \in [Func -> Bw] /\ mFCPcmChop \subseteq Func
  /\ ins \in [Func -> Ins]
  /\ mFunctbl \subseteq Func /\ mCbStubArgs \in [Func -> SUBSET Func]
  /\ hfunctbl \subseteq Func /\ functbl \subseteq Func
  /\ prefix \subseteq Func /\ chopped \subseteq Func

(* In a program that loads, a call of a function that take-out was not told
   to leave alone finds a body: the guest body that chop-off left, or a host
   body in a .qso that was saved, whether guest code, host code or FCP-CM
   code with a pointer calls it.  TakeOut and ChopOff decide separately, from
   the same table, which bodies there are.                                 *)
CallReachesBody ==
  stage = "loaded" =>
    /\ chopped # {} => "host" \in saved
    /\ \A f \in Func : mFuncs[f].takeOut # "no" => Reached(f)

(* A step that is switched off for a function, in the source or, before it,
   in the configuration, leaves the function alone: its guest body stays, no
   host body is made, or neither happens.  Nothing that calls a black callee
   runs on the host.                                                       *)
OffStaysOff ==
  \A f \in Func :
    LET m == IF f \in conf.named THEN conf.config[f] ELSE conf.anno[f]
    IN  /\ m.chopOff = "no" => f \notin chopped
        /\ m.takeOut = "no" => f \notin hfunctbl \cup functbl
        /\ m.analyze = "no" => f \notin hfunctbl \cup chopped
        /\ f \in hfunctbl \cup chopped => \A g \in Callees[f] : mCallees[g] # "no"

(* A program is only linked when every function marked for analyze or for
   take-out really has a host body: the steps report the others, but for
   declarations, which Analyze passes over.                                *)
RequestsMet ==
  stage \in {"badMagic", "loaded"} =>
    \A f \in Func :
      /\ mFuncs[f].analyze = "yes" /\ mFuncs[f].takeOut # "no" =>
           f \in hfunctbl \/ ins[f] = "declared"
      /\ mFuncs[f].takeOut = "yes" => f \in hfunctbl

(* The pass dies only when the options are at odds (FCP needs GRT, FCP-CM
   needs FCP) or a function of the module is listed as a callee: the stubs
   that Analyze recorded are all that TakeOut asks for.                    *)
DiesOnlyOnLists ==
  stage = "crash" =>
    \/ conf.use.fcp /\ ~conf.use.grt
    \/ conf.use.fcpcm /\ ~conf.use.fcp
    \/ \E f \in Func : mCallees[f] # "unset"

(* The constructor aborts with "bad magic" only when a function of the table
   was kept from chop-off or had prefix data of its own.                   *)
AbortExplained ==
  stage = "badMagic" =>
    \E f \in mFunctbl : mFuncs[f].chopOff = "no" \/ conf.body[f].prefixed

-----------------------------------------------------------------------------
(* What the comments say, and the code does not do.                        *)

(* BwList::FuncBw: "false" only disables the step.  A function that take-out
   leaves alone should thus still have a body when it is called.           *)
NoTakeOutRuns ==
  stage = "loaded" => \A f \in Func : mFuncs[f].takeOut = "no" => Reached(f)

(* BwList::mFCPcmChop: the functions in the list of a configuration only get
   a prefix, and keep their guest body.                                    *)
ListedKeepBody ==
  stage = "loaded" /\ conf.use.fcpcm /\ ~conf.chopOthers => conf.fcpCmChop \cap chopped = {}

=============================================================================
