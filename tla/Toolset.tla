------------------------------- MODULE Toolset -------------------------------
(***************************************************************************)
(* The files of a configuration directory, and the programs that make      *)
(* them: links, whose pass (LtoPass.cpp) draws a uid and saves the stages  *)
(* of the module in guest/<uid>; the stepwise tools (app/*.cpp over        *)
(* _main.hpp), which redo one stage each; hqlibs, which compiles the host  *)
(* halves into host/<uid>.qso.  Any of them may run at the same time.      *)
(*                                                                         *)
(* What is in a file is a link, whose program it was made from, or Hollow, *)
(* a module or table without functions.                                    *)
(***************************************************************************)
EXTENDS Integers, Sequences, FiniteSets

CONSTANTS
  Link,     \* links of guest modules, each with its process
  Uid,      \* the uids that are drawn
  MaxRuns,  \* bound: runs of stepwise tools
  MaxBuilds \* bound: runs of hqlibs

Absent    == "absent"
Truncated == "truncated"
Hollow    == "hollow"

ASSUME ToolsetAssumption ==
  /\ Link \cap {Absent, Truncated, Hollow} = {}
  /\ MaxRuns \in Nat /\ MaxBuilds \in Nat

VARIABLES
  guestDir,   \* the directory guest/ exists
  dirs,       \* the uids with a directory
  file,       \* file[u][p]: what is in guest/<u>/<p>
  qso,        \* qso[u]: what is in host/<u>.qso
  link,       \* the links
  run,        \* the stepwise tool that runs
  runs,       \* their number
  build,      \* the last hqlibs that was started
  builds,     \* their number
  spoilt      \* history: uids in whose directory a tool met a file half made, or failed

vars == <<guestDir, dirs, file, qso, link, run, runs, build, builds, spoilt>>

Ext(ll)  == IF ll THEN ".ll" ELSE ".bc"
Ir       == {"allin1", "outlined", "host", "guest"}
Path     == (Ir \X {".ll", ".bc"}) \cup {<<"bw-list", ".json">>, <<"symtbl", ".json">>}
PathOf(name, ll) == IF name \in Ir THEN <<name, Ext(ll)>> ELSE <<name, ".json">>
Content  == Link \cup {Absent, Truncated, Hollow}

Init ==
  /\ guestDir = FALSE /\ dirs = {}
  /\ file = [u \in Uid |-> [p \in Path |-> Absent]]
  /\ qso = [u \in Uid |-> Absent]
  /\ link = [l \in Link |-> [at |-> "draw", tries |-> 0, taken |-> 0, refused |-> 0]]
  /\ run = [at |-> "none"] /\ runs = 0
  /\ build = [at |-> "none"] /\ builds = 0
  /\ spoilt = {}

-----------------------------------------------------------------------------
(* A link: llvmGetPassPluginInfo and LtoPass::run                           *)

Saves(pfo) == IF pfo THEN <<"allin1", "bw-list", "outlined", "symtbl", "host", "guest">>
                     ELSE <<"allin1", "bw-list", "symtbl", "host", "guest">>

Others == <<qso, run, runs, build, builds, spoilt>>

Tries == 3

(* create_directories failed, whatever its error: the uid's directory exists
   (taken = 1), the file system refuses (refused = 1), or guest/ was created
   by another link in between.                                              *)
Mut_FourTries(l, taken, refused) ==
  LET t == link[l].taken + taken
      r == link[l].refused + refused
  IN  link' = [link EXCEPT ![l] =
        IF @.tries = Tries
        THEN [at |-> "noDir", taken |-> t, refused |-> r]
        ELSE [at |-> "draw", tries |-> @.tries + 1, taken |-> t, refused |-> r]]
Mut_TwoTries(l, taken, refused) ==
  LET t == link[l].taken + taken
      r == link[l].refused + refused
  IN  link' = [link EXCEPT ![l] =
        IF @.tries + 1 = Tries - 1
        THEN [at |-> "noDir", taken |-> t, refused |-> r]
        ELSE [at |-> "draw", tries |-> @.tries + 1, taken |-> t, refused |-> r]]
Retry(l, taken, refused) ==
  LET t == link[l].taken + taken
      r == link[l].refused + refused
  IN  link' = [link EXCEPT ![l] =
        IF @.tries + 1 = Tries
        THEN [at |-> "noDir", taken |-> t, refused |-> r]
        ELSE [at |-> "draw", tries |-> @.tries + 1, taken |-> t, refused |-> r]]

(* gyhcall.config is edited between links: ll is its LLorBC, pfo its UsePFO. *)
StartSaving(l, u) ==
  \E ll, pfo \in BOOLEAN :
    link' = [link EXCEPT ![l] = [at |-> "save", ll |-> ll, uid |-> u, left |-> Saves(pfo)]]

Mut_UseExisting(l, u) == dirs' = dirs \cup {u} /\ StartSaving(l, u)
MakeDir(l, u) ==
  \/ u \in dirs /\ Retry(l, 1, 0) /\ UNCHANGED dirs
  \/ u \notin dirs /\ dirs' = dirs \cup {u} /\ StartSaving(l, u)

DrawUid(l, u) ==
  /\ link[l].at = "draw"
  /\ \/ guestDir /\ MakeDir(l, u)
     \/ /\ ~guestDir
        /\ link' = [link EXCEPT ![l] =
             [at |-> "parent", tries |-> @.tries, taken |-> @.taken, refused |-> @.refused, uid |-> u]]
        /\ UNCHANGED dirs
  /\ UNCHANGED <<guestDir, file, Others>>

(* create_directories creates the parent, and fails if it is there by now.  *)
MakeParent(l) ==
  /\ link[l].at = "parent"
  /\ \/ guestDir /\ Retry(l, 0, 0)
     \/ ~guestDir /\ link' = [link EXCEPT ![l] =
          [at |-> "child", tries |-> @.tries, taken |-> @.taken, refused |-> @.refused, uid |-> @.uid]]
  /\ guestDir' = TRUE
  /\ UNCHANGED <<dirs, file, Others>>

MakeChild(l) ==
  /\ link[l].at = "child" /\ MakeDir(l, link[l].uid)
  /\ UNCHANGED <<guestDir, file, Others>>

(* A directory can not be created for another reason: permissions, no space.
   guest/ stays if it was created before.                                   *)
RefuseDir(l) ==
  /\ link[l].at \in {"draw", "parent", "child"} /\ Retry(l, 0, 1)
  /\ UNCHANGED <<guestDir, dirs, file, Others>>

(* A save opens its file, which may fail, and fills it.  Only the host half is
   looked at by others in between.                                          *)
SavePath(l) == PathOf(Head(link[l].left), link[l].ll)
Saved(l) ==
  /\ file' = [file EXCEPT ![link[l].uid][SavePath(l)] = l]
  /\ link' = [link EXCEPT ![l] =
       IF Tail(@.left) = <<>> THEN [at |-> "linked", uid |-> @.uid]
       ELSE [at |-> "save", ll |-> @.ll, uid |-> @.uid, left |-> Tail(@.left)]]
Save(l) ==
  /\ link[l].at = "save"
  /\ \/ /\ Head(link[l].left) = "host"
        /\ file' = [file EXCEPT ![link[l].uid][SavePath(l)] = Truncated]
        /\ link' = [link EXCEPT ![l] = [at |-> "fill", ll |-> @.ll, uid |-> @.uid, left |-> @.left]]
     \/ Head(link[l].left) # "host" /\ Saved(l)
     \/ link' = [link EXCEPT ![l] = [at |-> "failed", uid |-> @.uid]] /\ UNCHANGED file
  /\ UNCHANGED <<guestDir, dirs, Others>>

Mut_SavedEmpty(l) ==
  /\ link[l].at = "fill"
  /\ file' = [file EXCEPT ![link[l].uid][SavePath(l)] = Hollow]
  /\ link' = [link EXCEPT ![l] =
       [at |-> "save", ll |-> @.ll, uid |-> @.uid, left |-> Tail(@.left)]]
  /\ UNCHANGED <<guestDir, dirs, Others>>
FillHost(l) ==
  /\ link[l].at = "fill" /\ Saved(l)
  /\ UNCHANGED <<guestDir, dirs, Others>>

-----------------------------------------------------------------------------
(* A stepwise tool: main of _main.hpp                                       *)

Tool == {"pick-up", "outline", "analyze", "take-out", "chop-off"}
Output(t) == CASE t = "pick-up" -> "bw-list" [] t = "outline"  -> "outlined"
               [] t = "analyze" -> "symtbl"  [] t = "take-out" -> "host"
               [] t = "chop-off" -> "guest"
OptISt(t) == t \in {"take-out", "chop-off"}

OutPath == PathOf(Output(run.tool), run.ll)

(* A link saves its files in u's directory at this time.                    *)
Linking(u) == \E l \in Link : link[l].at \in {"save", "fill"} /\ link[l].uid = u

(* The configuration is loaded, the output opened and thereby truncated.  A
   tool that fails to do so leaves everything as it is.  Whoever runs a tool
   names the directory, and so waits for its link to end.                   *)
OpenOutput(t, u, in, ll) ==
  /\ run.at = "none" /\ runs < MaxRuns /\ u \in dirs /\ ~Linking(u)
  /\ run' = [at |-> "opened", tool |-> t, uid |-> u, in |-> in, ll |-> ll] /\ runs' = runs + 1
  /\ file' = [file EXCEPT ![u][PathOf(Output(t), ll)] = Truncated]
  /\ spoilt' = IF Output(t) = in THEN spoilt \cup {u} ELSE spoilt
  /\ UNCHANGED <<guestDir, dirs, qso, link, build, builds>>

(* The extension of the input is looked for, the configured one first.      *)
InPath ==
  IF file[run.uid][<<run.in, Ext(run.ll)>>] # Absent THEN <<run.in, Ext(run.ll)>>
                                                     ELSE <<run.in, Ext(~run.ll)>>

(* parseIRFile: nothing is a module without functions, but no bitcode.      *)
Parsed(c, ext) == IF c = Truncated /\ ext = ".ll" THEN Hollow ELSE c

(* Symtbl::dump_json and Symtbl::load_json                                  *)
DumpKeys == {"Uid", "CallingStubs", "CallbackStubs", "Functbl", "Greftbl"}
LoadKeys == {"Uid", "CallingStubs", "CallbackTypes", "Functbl", "Greftbl"}
Loads(c) == c \notin {Absent, Truncated} /\ LoadKeys \subseteq DumpKeys

Exits(code) ==
  /\ run' = [at |-> "none"]
  /\ spoilt' = IF code = 0 THEN spoilt ELSE spoilt \cup {run.uid}

(* The inputs are read, which nobody changes meanwhile; main_body; the output
   is written, and verified if it is IR.  An error that is reported, of which
   only PickUp has one when there are no marks, ends the process.           *)
ReadAndWrite ==
  /\ run.at = "opened"
  /\ LET ir == Parsed(file[run.uid][InPath], InPath[2])
         st == Loads(file[run.uid][<<"symtbl", ".json">>])
     IN  \/ ir \in {Absent, Truncated} /\ Exits(6) /\ UNCHANGED file
         \/ ir \notin {Absent, Truncated} /\ OptISt(run.tool) /\ ~st /\ Exits(7) /\ UNCHANGED file
         \/ /\ ir \notin {Absent, Truncated} /\ (OptISt(run.tool) => st)
            /\ \/ /\ file' = [file EXCEPT ![run.uid][OutPath] = ir]
                  /\ Exits(0) \/ (Output(run.tool) \in Ir /\ Exits(3))
               \/ run.tool = "pick-up" /\ Exits(1) /\ UNCHANGED file
  /\ UNCHANGED <<guestDir, dirs, qso, link, runs, build, builds>>

-----------------------------------------------------------------------------
(* hqlibs                                                                   *)

Linked == {link[l].uid : l \in {m \in Link : link[m].at = "linked"}}

StartBuild ==
  /\ build.at \in {"none", "done"} /\ builds < MaxBuilds
  /\ builds' = builds + 1
  /\ build' = [at |-> "loop", todo |-> dirs, due |-> Linked]
  /\ UNCHANGED <<guestDir, dirs, file, qso, link, run, runs, spoilt>>

(* host.bc comes before host.ll, whatever the configuration says.           *)
HostExt(u) == IF file[u][<<"host", ".bc">>] # Absent THEN ".bc" ELSE ".ll"

(* A directory without a host half is passed over.  clang may fail on any file,
   and always does on an empty .bc; then hqlibs stops with an exception, and
   an older library is still there or is not.                               *)
Built(u) == build' = [at |-> "loop", todo |-> build.todo \ {u}, due |-> build.due]
Mut_StopsAtMissing(u) ==
  LET c == Parsed(file[u][<<"host", HostExt(u)>>], HostExt(u))
  IN  \/ /\ c = Absent /\ UNCHANGED qso
         /\ build' = [at |-> "done", code |-> 0, due |-> build.due]
      \/ /\ c # Absent /\ qso' \in {qso, [qso EXCEPT ![u] = Absent]}
         /\ build' = [at |-> "done", code |-> 1, stop |-> u, due |-> build.due]
      \/ /\ c \notin {Absent, Truncated} /\ qso' = [qso EXCEPT ![u] = c]
         /\ Built(u)
Compile(u) ==
  LET c == Parsed(file[u][<<"host", HostExt(u)>>], HostExt(u))
  IN  \/ c = Absent /\ UNCHANGED qso /\ Built(u)
      \/ /\ c # Absent /\ qso' \in {qso, [qso EXCEPT ![u] = Absent]}
         /\ build' = [at |-> "done", code |-> 1, stop |-> u, due |-> build.due]
      \/ /\ c \notin {Absent, Truncated} /\ qso' = [qso EXCEPT ![u] = c]
         /\ Built(u)

BuildOne(u) ==
  /\ build.at = "loop" /\ u \in build.todo
  /\ Compile(u)
  /\ spoilt' = IF Linking(u) \/ (run.at # "none" /\ run.uid = u)
               THEN spoilt \cup {u} ELSE spoilt
  /\ UNCHANGED <<guestDir, dirs, file, link, run, runs, builds>>

EndBuild ==
  /\ build.at = "loop" /\ build.todo = {}
  /\ build' = [at |-> "done", code |-> 0, due |-> build.due]
  /\ UNCHANGED <<guestDir, dirs, file, qso, link, run, runs, builds, spoilt>>

-----------------------------------------------------------------------------
LinksOver == \A l \in Link : link[l].at \in {"linked", "failed", "noDir"}

Ended ==
  /\ LinksOver /\ run.at = "none" /\ build.at \in {"none", "done"}
  /\ UNCHANGED vars

Next ==
  \/ \E l \in Link :
       \/ \E u \in Uid : DrawUid(l, u)
       \/ MakeParent(l) \/ MakeChild(l) \/ RefuseDir(l) \/ Save(l) \/ FillHost(l)
  \/ \E t \in Tool, u \in Uid, in \in {"allin1", "outlined"}, ll \in BOOLEAN :
       OpenOutput(t, u, in, ll)
  \/ ReadAndWrite
  \/ StartBuild \/ (\E u \in Uid : BuildOne(u)) \/ EndBuild
  \/ Ended

Spec == Init /\ [][Next]_vars

-----------------------------------------------------------------------------
LinkState ==
  [at : {"draw"}, tries : 0..(Tries - 1), taken : 0..Tries, refused : 0..Tries]
    \cup [at : {"parent", "child"}, tries : 0..(Tries - 1), taken : 0..Tries, refused : 0..Tries, uid : Uid]
    \cup [at : {"save", "fill"}, ll : BOOLEAN, uid : Uid, left : Seq(Ir \cup {"bw-list", "symtbl"})]
    \cup [at : {"linked", "failed"}, uid : Uid]
    \cup [at : {"noDir"}, taken : 0..Tries, refused : 0..Tries]
RunState ==
  [at : {"none"}]
    \cup [at : {"opened"}, tool : Tool, uid : Uid, in : {"allin1", "outlined"}, ll : BOOLEAN]
BuildState ==
  [at : {"none"}]
    \cup [at : {"loop"}, todo : SUBSET Uid, due : SUBSET Uid]
    \cup [at : {"done"}, code : {0}, due : SUBSET Uid]
    \cup [at : {"done"}, code : {1}, stop : Uid, due : SUBSET Uid]

TypeOK ==
  /\ guestDir \in BOOLEAN /\ dirs \subseteq Uid
  /\ file \in [Uid -> [Path -> Content]] /\ qso \in [Uid -> Link \cup {Absent, Hollow}]
  /\ link \in [Link -> LinkState] /\ run \in RunState /\ build \in BuildState
  /\ runs \in 0..MaxRuns /\ builds \in 0..MaxBuilds /\ spoilt \subseteq Uid

(* A program finds under its uid no other program's library: links that run
   at the same time never share a directory, though each one only tests and
   creates it, and hqlibs and the tools work on all of them meanwhile.      *)
HalvesMatch ==
  \A l \in Link : link[l].at = "linked" => qso[link[l].uid] \in {Absent, Hollow, l}

(* Links that start together in a new configuration directory get in each
   other's way when they create guest/.  Still only one of the three tries of
   LtoPass can be lost like that: a link gives up after it drew two uids that
   were taken, unless the file system refused to create a directory.        *)
GivesUpLate ==
  \A l \in Link : link[l].at = "noDir" => link[l].taken + link[l].refused >= 2

(* A table, a module or a library without functions is made, by a tool that
   reports success, only where a tool failed before, overwrote its input or
   ran beside another one.                                                  *)
HollowExplained ==
  \A u \in Uid : (qso[u] = Hollow \/ \E p \in Path : file[u][p] = Hollow) => u \in spoilt

(* hqlibs reports success only if each program that was linked when it started
   has a library, with functions unless its directory is spoilt.  It reports a
   failure only at a directory with a host half: those of links that failed
   before do not keep the others from being built.                          *)
HasHost(u) == \E ext \in {".ll", ".bc"} : file[u][<<"host", ext>>] # Absent
BuildComplete ==
  build.at = "done" =>
    \/ /\ build.code = 0
       /\ \A u \in build.due : qso[u] # Absent /\ (u \notin spoilt => qso[u] \in Link)
    \/ build.code = 1 /\ HasHost(build.stop)

(* What README.md says of analyze: take-out and chop-off consume the table it
   produces.                                                                *)
SymtblLoads ==
  run.at = "opened" /\ OptISt(run.tool) /\ file[run.uid][<<"symtbl", ".json">>] \in Link
    => Loads(file[run.uid][<<"symtbl", ".json">>])

=============================================================================
