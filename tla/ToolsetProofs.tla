---------------------------- MODULE ToolsetProofs ----------------------------
(***************************************************************************)
(* Concurrent links get directories of their own, and get them unless uids *)
(* are taken or directories refused, for any number of links, uids, tool   *)
(* runs and builds.                                                        *)
(***************************************************************************)
EXTENDS Toolset, TLAPS

(* The link l has made its directory.                                      *)
Past(l) == link[l].at \in {"save", "fill", "linked", "failed"}

Typed ==
  /\ file \in [Uid -> [Path -> Content]] /\ qso \in [Uid -> Link \cup {Absent, Hollow}]
  /\ link = [l \in Link |-> link[l]] /\ dirs \subseteq Uid

(* A directory belongs to one link, and what is in it, or was built from it,
   comes from that link.                                                   *)
OwnDirs ==
  /\ \A l \in Link : Past(l) => link[l].uid \in dirs
  /\ \A l, m \in Link : Past(l) /\ Past(m) /\ link[l].uid = link[m].uid => l = m
OwnFiles ==
  /\ \A u \in Uid, p \in Path, l \in Link : file[u][p] = l => Past(l) /\ link[l].uid = u
  /\ \A u \in Uid, l \in Link : qso[u] = l => Past(l) /\ link[l].uid = u

(* A link has lost at most one try to the creation of guest/, and none before
   guest/ exists: the others to taken uids and refusals.                   *)
Excused(l) == link[l].taken + link[l].refused
Counted(l) ==
  /\ link[l].at \in {"draw", "parent", "child"} =>
       /\ link[l].tries \in Nat /\ link[l].taken \in Nat /\ link[l].refused \in Nat
       /\ link[l].tries < Tries /\ link[l].tries <= Excused(l) + 1
  /\ link[l].at \in {"parent", "child"} => link[l].tries <= Excused(l) /\ link[l].uid \in Uid
  /\ link[l].at = "child" => guestDir
  /\ link[l].at = "draw" /\ ~guestDir => link[l].tries <= Excused(l)
  /\ link[l].at = "noDir" =>
       link[l].taken \in Nat /\ link[l].refused \in Nat /\ Excused(l) >= 2
TriesCounted == \A l \in Link : Counted(l)

ToolsetInv == Typed /\ OwnDirs /\ OwnFiles /\ TriesCounted

(* A tool's input is one of the two names it is run with.                  *)
RunTyped == run.at = "opened" => run.in \in {"allin1", "outlined"}

(* A program is not one of the marks for a file without one.               *)
LEMMA ContentMarks == \A l \in Link : l # Absent /\ l # Truncated /\ l # Hollow
  BY ToolsetAssumption

(* Marking a file truncated or hollow, in any directory, takes no file to
   another directory.                                                      *)
LEMMA MarkKeeps ==
  ASSUME ToolsetInv, NEW u, NEW p, NEW c \in {Truncated, Hollow},
         file' = [file EXCEPT ![u][p] = c], link' = link, qso' = qso, dirs' = dirs, guestDir' = guestDir
  PROVE  ToolsetInv'
<1> USE DEF ToolsetInv
<1>1. file' \in [Uid -> [Path -> Content]]
  BY DEF Typed, Content
<1>2. \A v \in Uid, q \in Path : file'[v][q] = file[v][q] \/ file'[v][q] = c
  BY DEF Typed
<1>3. OwnFiles'
  BY <1>2, ContentMarks DEF OwnFiles, Past
<1>4. Typed' /\ OwnDirs' /\ TriesCounted'
  BY <1>1 DEF Typed, OwnDirs, TriesCounted, Counted, Excused, Past
<1> QED BY <1>3, <1>4

(* A link that tries again has lost one try more: to a taken uid, to the file
   system, or to the creation of guest/.                                   *)
LEMMA RetryKeeps ==
  ASSUME ToolsetInv, NEW l \in Link, NEW t \in {0, 1}, NEW e \in {0, 1}, Retry(l, t, e), ~Past(l),
         link[l].at \in {"draw", "parent", "child"},
         t + e = 0 => link[l].at = "parent" /\ guestDir', guestDir => guestDir',
         file' = file, qso' = qso, dirs' = dirs
  PROVE  ToolsetInv'
<1> USE DEF ToolsetInv
<1>1. PICK n, k, j : n = link[l].tries + 1 /\ k = link[l].taken + t /\ j = link[l].refused + e
  OBVIOUS
<1>2. n \in Nat /\ k \in Nat /\ j \in Nat /\ n <= 3 /\ n <= k + j + 1 /\ (~guestDir' => n <= k + j)
  <2>1. /\ link[l].tries \in Nat /\ link[l].taken \in Nat /\ link[l].refused \in Nat
        /\ link[l].tries < 3 /\ link[l].tries <= link[l].taken + link[l].refused + 1
        /\ ~guestDir \/ link[l].at = "parent" => link[l].tries <= link[l].taken + link[l].refused
    BY DEF TriesCounted, Counted, Excused, Tries
  <2> QED BY <1>1, <2>1
<1>3. /\ \A m \in Link : m # l => link'[m] = link[m]
      /\ link'[l] = IF n = 3 THEN [at |-> "noDir", taken |-> k, refused |-> j]
                    ELSE [at |-> "draw", tries |-> n, taken |-> k, refused |-> j]
      /\ link' = [m \in Link |-> link'[m]]
  <2>1. link' = [link EXCEPT ![l] = IF n = 3 THEN [at |-> "noDir", taken |-> k, refused |-> j]
                                    ELSE [at |-> "draw", tries |-> n, taken |-> k, refused |-> j]]
    BY <1>1 DEF Retry, Tries
  <2> QED BY <2>1 DEF Typed
<1>4. \A m \in Link : Past(m)' <=> Past(m)
  BY <1>3 DEF Past
<1>5. \A m \in Link : Past(m) => link'[m] = link[m]
  BY <1>3
<1>6. Typed'
  BY <1>3 DEF Typed
<1>7. OwnDirs' /\ OwnFiles'
  BY <1>4, <1>5 DEF OwnDirs, OwnFiles
<1>8. TriesCounted'
  <2> SUFFICES ASSUME NEW m \in Link PROVE Counted(m)'
    BY DEF TriesCounted
  <2>1. CASE m # l
    BY <2>1, <1>3 DEF TriesCounted, Counted, Excused
  <2>2. CASE m = l /\ n = 3
    <3>1. link'[m] = [at |-> "noDir", taken |-> k, refused |-> j]
      BY <2>2, <1>3
    <3> QED BY <2>2, <3>1, <1>2 DEF Counted, Excused
  <2>3. CASE m = l /\ n # 3
    <3>1. link'[m] = [at |-> "draw", tries |-> n, taken |-> k, refused |-> j]
      BY <2>3, <1>3
    <3> QED BY <2>3, <3>1, <1>2 DEF Tries, Counted, Excused
  <2> QED BY <2>1, <2>2, <2>3
<1> QED BY <1>6, <1>7, <1>8

(* A step changes files to marks, or in the link's directory.              *)
OwnWrite(l) ==
  \A u \in Uid, p \in Path :
    \/ file'[u][p] = file[u][p]
    \/ file'[u][p] \notin Link
    \/ file'[u][p] = l /\ link[l].uid = u

(* A link that goes on without a directory, or with the one it has, keeps
   what belongs to it.                                                     *)
LEMMA MoveKeeps ==
  ASSUME ToolsetInv, NEW l \in Link, \A m \in Link : m # l => link'[m] = link[m],
         Past(l)' <=> Past(l), Past(l) => link'[l].uid = link[l].uid,
         Counted(l)', guestDir => guestDir', Typed', qso' = qso, dirs' = dirs,
         file' # file => Past(l),
         OwnWrite(l)
  PROVE  ToolsetInv'
<1> USE DEF ToolsetInv
<1>2. \A m \in Link : Past(m)' <=> Past(m)
  BY DEF Past
<1>3. \A m \in Link : Past(m) => link'[m].uid = link[m].uid
  OBVIOUS
<1>4. OwnDirs' /\ OwnFiles'
  BY <1>2, <1>3 DEF OwnDirs, OwnFiles, OwnWrite
<1>5. TriesCounted'
  <2> SUFFICES ASSUME NEW m \in Link PROVE Counted(m)'
    BY DEF TriesCounted
  <2>1. CASE m # l
    BY <2>1 DEF TriesCounted, Counted, Excused
  <2> QED BY <2>1
<1> QED BY <1>4, <1>5

(* The directory a link makes is nobody else's.                            *)
LEMMA NewDirKeeps ==
  ASSUME ToolsetInv, NEW l \in Link, NEW u \in Uid, ~Past(l), u \notin dirs, dirs' = dirs \cup {u},
         StartSaving(l, u), guestDir' = guestDir, file' = file, qso' = qso
  PROVE  ToolsetInv'
<1> USE DEF ToolsetInv
<1>1. PICK ll, pfo \in BOOLEAN :
        link' = [link EXCEPT ![l] = [at |-> "save", ll |-> ll, uid |-> u, left |-> Saves(pfo)]]
  BY DEF StartSaving
<1>2. /\ \A m \in Link : m # l => link'[m] = link[m]
      /\ link'[l].at = "save" /\ link'[l].uid = u
      /\ link' = [m \in Link |-> link'[m]]
  BY <1>1 DEF Typed
<1>3. \A m \in Link : Past(m)' <=> Past(m) \/ m = l
  BY <1>2 DEF Past
<1>4. Typed'
  BY <1>2 DEF Typed
<1>5. OwnDirs'
  BY <1>2, <1>3 DEF OwnDirs
<1>6. OwnFiles'
  BY <1>2, <1>3 DEF OwnFiles
<1>7. TriesCounted'
  BY <1>2 DEF TriesCounted, Counted, Excused
<1> QED BY <1>4, <1>5, <1>6, <1>7

(* Creating the directory fails and is tried again, or yields a new one.   *)
LEMMA MakeDirKeeps ==
  ASSUME ToolsetInv, NEW l \in Link, NEW u \in Uid, MakeDir(l, u), link[l].at \in {"draw", "child"},
         guestDir, guestDir' = guestDir, file' = file, qso' = qso
  PROVE  ToolsetInv'
<1>0. ~Past(l)
  BY DEF Past
<1>1. CASE u \in dirs /\ Retry(l, 1, 0) /\ UNCHANGED dirs
  BY <1>0, <1>1, RetryKeeps
<1>2. CASE u \notin dirs /\ dirs' = dirs \cup {u} /\ StartSaving(l, u)
  BY <1>0, <1>2, NewDirKeeps
<1> QED BY <1>1, <1>2 DEF MakeDir

LEMMA DrawUidKeeps ==
  ASSUME ToolsetInv, NEW l \in Link, NEW u \in Uid, DrawUid(l, u)
  PROVE  ToolsetInv'
<1> USE DEF DrawUid, Others
<1>1. CASE guestDir /\ MakeDir(l, u)
  BY <1>1, MakeDirKeeps
<1>2. CASE ~guestDir
  <2> DEFINE r == [at |-> "parent", tries |-> link[l].tries, taken |-> link[l].taken,
                   refused |-> link[l].refused, uid |-> u]
  <2>1. link' = [link EXCEPT ![l] = r]
    BY <1>2
  <2>2. Typed' /\ link'[l] = r
    BY <1>2, <2>1 DEF ToolsetInv, Typed
  <2>3. Counted(l)'
    BY <2>2, <1>2 DEF ToolsetInv, TriesCounted, Counted, Excused
  <2>4. (Past(l)' <=> Past(l)) /\ ~Past(l)
    BY <2>2 DEF Past
  <2>5. \A m \in Link : m # l => link'[m] = link[m]
    BY <2>1 DEF ToolsetInv, Typed
  <2>6. /\ (guestDir => guestDir') /\ dirs' = dirs /\ qso' = qso
        /\ (file' # file => Past(l))
        /\ OwnWrite(l)
    BY <1>2 DEF OwnWrite
  <2> QED BY <2>2, <2>3, <2>4, <2>5, <2>6, MoveKeeps
<1> QED BY <1>1, <1>2

LEMMA MakeParentKeeps ==
  ASSUME ToolsetInv, NEW l \in Link, MakeParent(l)
  PROVE  ToolsetInv'
<1> USE DEF MakeParent, Others
<1>1. CASE guestDir /\ Retry(l, 0, 0)
  BY <1>1, RetryKeeps DEF Past
<1>2. CASE ~guestDir
  <2> DEFINE r == [at |-> "child", tries |-> link[l].tries, taken |-> link[l].taken,
                   refused |-> link[l].refused, uid |-> link[l].uid]
  <2>1. link' = [link EXCEPT ![l] = r]
    BY <1>2
  <2>2. Typed' /\ link'[l] = r
    BY <1>2, <2>1 DEF ToolsetInv, Typed
  <2>3. Counted(l)'
    BY <2>2, <1>2 DEF ToolsetInv, TriesCounted, Counted, Excused
  <2>4. (Past(l)' <=> Past(l)) /\ ~Past(l)
    BY <2>2 DEF Past
  <2>5. \A m \in Link : m # l => link'[m] = link[m]
    BY <2>1 DEF ToolsetInv, Typed
  <2>6. /\ (guestDir => guestDir') /\ dirs' = dirs /\ qso' = qso
        /\ (file' # file => Past(l))
        /\ OwnWrite(l)
    BY <1>2 DEF OwnWrite
  <2> QED BY <2>2, <2>3, <2>4, <2>5, <2>6, MoveKeeps
<1> QED BY <1>1, <1>2

LEMMA MakeChildKeeps ==
  ASSUME ToolsetInv, NEW l \in Link, MakeChild(l)
  PROVE  ToolsetInv'
<1>1. guestDir /\ link[l].uid \in Uid
  BY DEF MakeChild, ToolsetInv, TriesCounted, Counted, Excused
<1> QED BY <1>1, MakeDirKeeps DEF MakeChild, Others

LEMMA RefuseDirKeeps ==
  ASSUME ToolsetInv, NEW l \in Link, RefuseDir(l)
  PROVE  ToolsetInv'
<1>1. ~Past(l) /\ Retry(l, 0, 1) /\ link[l].at \in {"draw", "parent", "child"}
  BY DEF RefuseDir, Past
<1>2. file' = file /\ qso' = qso /\ dirs' = dirs /\ guestDir' = guestDir
  BY DEF RefuseDir, Others
<1> QED BY <1>1, <1>2, RetryKeeps

(* A link writes its program, and marks, to its own directory.             *)
LEMMA SaveKeeps ==
  ASSUME ToolsetInv, NEW l \in Link, Save(l) \/ FillHost(l)
  PROVE  ToolsetInv'
<1> USE DEF ToolsetInv
<1>0. Past(l) /\ dirs' = dirs /\ qso' = qso /\ guestDir' = guestDir
  BY DEF Save, FillHost, Past, Others
<1>1. /\ link'[l].uid = link[l].uid
      /\ link'[l].at \in {"save", "fill", "linked", "failed"}
      /\ \A m \in Link : m # l => link'[m] = link[m]
      /\ link' = [m \in Link |-> link'[m]]
  BY DEF Typed, Save, FillHost, Saved
<1>2. \/ file' = file
      \/ \E c \in {l, Truncated} : file' = [file EXCEPT ![link[l].uid][SavePath(l)] = c]
  BY DEF Save, FillHost, Saved
<1>3. file' \in [Uid -> [Path -> Content]]
  BY <1>2 DEF Typed, Content
<1>4. Typed'
  BY <1>0, <1>1, <1>3 DEF Typed
<1>5. Truncated \notin Link
  BY ContentMarks
<1>7. OwnWrite(l)
  <2> SUFFICES ASSUME NEW u \in Uid, NEW p \in Path
               PROVE  \/ file'[u][p] = file[u][p]
                      \/ file'[u][p] \notin Link
                      \/ file'[u][p] = l /\ link[l].uid = u
    BY DEF OwnWrite
  <2>1. CASE file' = file
    BY <2>1
  <2>2. ASSUME NEW c \in {l, Truncated}, file' = [file EXCEPT ![link[l].uid][SavePath(l)] = c]
        PROVE  file'[u][p] = file[u][p] \/ (u = link[l].uid /\ file'[u][p] = c)
    BY <2>2 DEF Typed
  <2> QED BY <2>1, <2>2, <1>2, <1>5
<1>6. Counted(l)' /\ Past(l)'
  BY <1>1 DEF Past, Counted, Excused
<1> HIDE DEF ToolsetInv
<1>8. Typed' /\ (file' # file => Past(l)) /\ (guestDir => guestDir') /\ (Past(l)' <=> Past(l))
  BY <1>0, <1>4, <1>6
<1> QED BY <1>0, <1>1, <1>6, <1>7, <1>8, MoveKeeps

(* A tool leaves in a directory what was in it, or marks.                  *)
LEMMA ToolKeeps ==
  ASSUME ToolsetInv, RunTyped,
         \/ \E t \in Tool, u \in Uid, in \in {"allin1", "outlined"}, ll \in BOOLEAN : OpenOutput(t, u, in, ll)
         \/ ReadAndWrite
  PROVE  ToolsetInv'
<1>1. CASE \E t \in Tool, u \in Uid, in \in {"allin1", "outlined"}, ll \in BOOLEAN : OpenOutput(t, u, in, ll)
  <2>1. PICK u, p : file' = [file EXCEPT ![u][p] = Truncated] /\ UNCHANGED <<guestDir, dirs, qso, link>>
    BY <1>1 DEF OpenOutput
  <2> QED BY <2>1, MarkKeeps
<1>2. CASE ReadAndWrite
  <2> DEFINE c == Parsed(file[run.uid][InPath], InPath[2])
  <2>1. UNCHANGED <<guestDir, dirs, qso, link>>
    BY <1>2 DEF ReadAndWrite
  <2>2. file' = file \/ file' = [file EXCEPT ![run.uid][OutPath] = c]
    BY <1>2 DEF ReadAndWrite
  <2>3. CASE file' = file
    BY <2>1, <2>3 DEF ToolsetInv, Typed, OwnDirs, OwnFiles, TriesCounted, Counted, Excused, Past
  <2>4. CASE c = Hollow /\ file' = [file EXCEPT ![run.uid][OutPath] = c]
    BY <2>1, <2>4, MarkKeeps
  <2>5. CASE c = file[run.uid][InPath] /\ file' = [file EXCEPT ![run.uid][OutPath] = c]
    <3>1. InPath \in Path
      BY <1>2 DEF ReadAndWrite, RunTyped, InPath, Path, Ir, Ext
    <3>2. CASE run.uid \in Uid /\ OutPath \in Path
      <4>1. c \in Content
        BY <3>1, <3>2, <2>5 DEF ToolsetInv, Typed
      <4>2. Typed'
        BY <4>1, <2>5, <2>1 DEF ToolsetInv, Typed
      <4>3. OwnFiles'
        BY <3>1, <3>2, <2>5, <2>1 DEF ToolsetInv, Typed, OwnFiles, Past
      <4> QED BY <4>2, <4>3, <2>1 DEF ToolsetInv, OwnDirs, TriesCounted, Counted, Excused, Past
    <3>3. CASE ~(run.uid \in Uid /\ OutPath \in Path)
      <4>1. file' = file
        BY <3>3, <2>5 DEF ToolsetInv, Typed
      <4> QED BY <4>1, <2>3
    <3> QED BY <3>2, <3>3
  <2>6. c \in {Hollow, file[run.uid][InPath]}
    BY DEF Parsed
  <2> HIDE DEF c
  <2> QED BY <2>2, <2>3, <2>4, <2>5, <2>6
<1> QED BY <1>1, <1>2

(* A library is built from the host half in its directory.                 *)
LEMMA BuildKeeps ==
  ASSUME ToolsetInv, StartBuild \/ (\E u \in Uid : BuildOne(u)) \/ EndBuild \/ UNCHANGED vars
  PROVE  ToolsetInv'
<1> USE DEF ToolsetInv
<1>1. UNCHANGED <<guestDir, dirs, file, link>>
  BY DEF StartBuild, BuildOne, EndBuild, vars
<1>2. CASE qso' = qso
  BY <1>1, <1>2 DEF Typed, OwnDirs, OwnFiles, TriesCounted, Counted, Excused, Past
<1>0. Typed
  OBVIOUS
<1>3. ASSUME NEW u \in Uid, BuildOne(u), qso' # qso
      PROVE  ToolsetInv'
  <2> DEFINE p == <<"host", HostExt(u)>>
             c == Parsed(file[u][p], HostExt(u))
  <2>1. p \in Path
    BY DEF HostExt, Path, Ir
  <2>2. PICK d : d \in {Absent, c} /\ d # Truncated /\ qso' = [qso EXCEPT ![u] = d]
    BY <1>3 DEF BuildOne, Compile, Absent, Truncated
  <2>3. d \in Link \cup {Absent, Hollow} /\ (d \in Link => d = file[u][p])
    BY <1>0, <2>1, <2>2, ContentMarks DEF Typed, Parsed, Content
  <2>4. Typed'
    BY <1>1, <2>2, <2>3 DEF Typed
  <2>5. OwnFiles'
    BY <1>1, <2>1, <2>2, <2>3 DEF Typed, OwnFiles, Past
  <2> QED BY <1>1, <2>4, <2>5 DEF OwnDirs, TriesCounted, Counted, Excused, Past
<1> QED BY <1>2, <1>3 DEF StartBuild, EndBuild, vars

LEMMA RunTypedKeeps ==
  ASSUME RunTyped, [Next]_vars
  PROVE  RunTyped'
<1>1. CASE UNCHANGED run
  BY <1>1 DEF RunTyped
<1>2. CASE run'.at = "none"
  BY <1>2 DEF RunTyped
<1>3. ASSUME NEW t \in Tool, NEW u \in Uid, NEW in \in {"allin1", "outlined"}, NEW ll \in BOOLEAN,
             OpenOutput(t, u, in, ll)
      PROVE  RunTyped'
  BY <1>3 DEF OpenOutput, RunTyped
<1>4. ReadAndWrite => run'.at = "none"
  BY DEF ReadAndWrite, Exits
<1>5. (\E l \in Link : (\E u \in Uid : DrawUid(l, u)) \/ MakeParent(l) \/ MakeChild(l) \/ RefuseDir(l) \/ Save(l) \/ FillHost(l))
        => UNCHANGED run
  BY DEF DrawUid, MakeParent, MakeChild, RefuseDir, Save, FillHost, Others
<1>6. StartBuild \/ (\E u \in Uid : BuildOne(u)) \/ EndBuild \/ Ended \/ UNCHANGED vars => UNCHANGED run
  BY DEF StartBuild, BuildOne, EndBuild, Ended, vars
<1> QED BY <1>1, <1>2, <1>3, <1>4, <1>5, <1>6 DEF Next

LEMMA NextKeeps ==
  ASSUME ToolsetInv, RunTyped, [Next]_vars
  PROVE  ToolsetInv'
<1>1. ASSUME NEW l \in Link,
             (\E u \in Uid : DrawUid(l, u)) \/ MakeParent(l) \/ MakeChild(l) \/ RefuseDir(l) \/ Save(l) \/ FillHost(l)
      PROVE  ToolsetInv'
  BY <1>1, DrawUidKeeps, MakeParentKeeps, MakeChildKeeps, RefuseDirKeeps, SaveKeeps
<1>2. CASE \/ \E t \in Tool, u \in Uid, in \in {"allin1", "outlined"}, ll \in BOOLEAN : OpenOutput(t, u, in, ll)
           \/ ReadAndWrite
  BY <1>2, ToolKeeps
<1>3. CASE StartBuild \/ (\E u \in Uid : BuildOne(u)) \/ EndBuild \/ Ended \/ UNCHANGED vars
  BY <1>3, BuildKeeps DEF Ended
<1> QED BY <1>1, <1>2, <1>3 DEF Next

(* Directories, files and libraries have one owner, and lost tries are
   accounted for, in every state: LtoPass.cpp, _main.hpp and hqlibs for any
   number of links and uids.                                               *)
THEOREM ToolsetInvariant == Spec => [](ToolsetInv /\ RunTyped)
<1>1. Init => ToolsetInv /\ RunTyped
  <2> SUFFICES ASSUME Init PROVE ToolsetInv /\ RunTyped
    OBVIOUS
  <2>1. \A l \in Link : link[l] = [at |-> "draw", tries |-> 0, taken |-> 0, refused |-> 0]
    BY DEF Init
  <2>2. Typed /\ RunTyped
    BY DEF Init, Typed, Content, RunTyped
  <2>3. OwnDirs /\ TriesCounted
    BY <2>1 DEF OwnDirs, TriesCounted, Counted, Excused, Past, Tries
  <2>4. OwnFiles
    BY ContentMarks DEF Init, OwnFiles
  <2> QED BY <2>2, <2>3, <2>4 DEF ToolsetInv
<1>2. ToolsetInv /\ RunTyped /\ [Next]_vars => (ToolsetInv /\ RunTyped)'
  BY NextKeeps, RunTypedKeeps
<1> QED BY <1>1, <1>2, PTL DEF Spec

(* No program ever finds another program's library under its uid, however
   links, tools and hqlibs interleave.                                     *)
THEOREM HalvesMatchAlways == Spec => []HalvesMatch
<1>1. ToolsetInv => HalvesMatch
  BY DEF ToolsetInv, Typed, OwnDirs, OwnFiles, HalvesMatch, Past
<1> QED BY <1>1, ToolsetInvariant, PTL

(* However many links create the configuration directory together, each loses
   at most one try to that: LtoPass gives up only after two uids that were
   taken, or for which the file system refused a directory.                *)
THEOREM GivesUpLateAlways == Spec => []GivesUpLate
<1>1. ToolsetInv => GivesUpLate
  BY DEF ToolsetInv, TriesCounted, Counted, Excused, GivesUpLate
<1> QED BY <1>1, ToolsetInvariant, PTL

-----------------------------------------------------------------------------
(* A file is empty while a link fills its host half or a tool makes it, or
   where a tool failed.  A tool that overwrites its input has spoilt it.   *)
Filling(u, p) == \E l \in Link : link[l].at = "fill" /\ link[l].uid = u /\ SavePath(l) = p
Making(u, p)  == run.at = "opened" /\ run.uid = u /\ OutPath = p

EmptyExplained ==
  \A u \in Uid, p \in Path : file[u][p] = Truncated => u \in spoilt \/ Filling(u, p) \/ Making(u, p)
FillsHost == \A l \in Link : link[l].at = "fill" => Head(link[l].left) = "host"
InputKept ==
  run.at = "opened" =>
    /\ run.tool \in Tool /\ run.uid \in Uid
    /\ Output(run.tool) = run.in => run.uid \in spoilt

HollowInv == HollowExplained /\ EmptyExplained /\ FillsHost /\ InputKept

(* The steps of a link: an empty file is the host half it fills.           *)
LEMMA LinkHollow ==
  ASSUME HollowInv, Typed, NEW l \in Link, \A m \in Link : m # l => link'[m] = link[m],
         link'[l].at = "fill" => Head(link'[l].left) = "host",
         \A u \in Uid, p \in Path :
           /\ file'[u][p] = Hollow => file[u][p] = Hollow
           /\ file'[u][p] = Truncated =>
                \/ link'[l].at = "fill" /\ link'[l].uid = u /\ SavePath(l)' = p
                \/ file[u][p] = Truncated /\ ~(link[l].at = "fill" /\ link[l].uid = u /\ SavePath(l) = p),
         UNCHANGED Others
  PROVE  HollowInv'
<1> USE DEF HollowInv, Others
<1>1. \A m \in Link : m # l => SavePath(m)' = SavePath(m)
  BY DEF SavePath
<1>2. FillsHost'
  BY DEF FillsHost
<1>3. HollowExplained'
  BY DEF HollowExplained
<1>4. \A u \in Uid, p \in Path : Making(u, p)' <=> Making(u, p)
  BY DEF Making, OutPath
<1>5. InputKept'
  BY DEF InputKept
<1>6. EmptyExplained'
  <2> SUFFICES ASSUME NEW u \in Uid, NEW p \in Path, file'[u][p] = Truncated
               PROVE  u \in spoilt \/ Filling(u, p)' \/ Making(u, p)
    BY <1>4 DEF EmptyExplained
  <2>1. CASE link'[l].at = "fill" /\ link'[l].uid = u /\ SavePath(l)' = p
    BY <2>1 DEF Filling
  <2>2. CASE file[u][p] = Truncated /\ ~(link[l].at = "fill" /\ link[l].uid = u /\ SavePath(l) = p)
    <3>1. u \in spoilt \/ Filling(u, p) \/ Making(u, p)
      BY <2>2 DEF EmptyExplained
    <3>2. Filling(u, p) => Filling(u, p)'
      BY <2>2, <1>1 DEF Filling
    <3> QED BY <3>1, <3>2
  <2> QED BY <2>1, <2>2
<1> QED BY <1>2, <1>3, <1>5, <1>6

(* Links that look for a directory fill no file.                           *)
LEMMA DirHollow ==
  ASSUME HollowInv, Typed, NEW l \in Link,
         (\E u \in Uid : DrawUid(l, u)) \/ MakeParent(l) \/ MakeChild(l) \/ RefuseDir(l)
  PROVE  HollowInv'
<1>1. link[l].at # "fill" /\ file' = file /\ UNCHANGED Others
  BY DEF DrawUid, MakeParent, MakeChild, RefuseDir, Others
<1>2. link'[l].at # "fill" /\ \A m \in Link : m # l => link'[m] = link[m]
  BY DEF Typed, DrawUid, MakeParent, MakeChild, RefuseDir, MakeDir, Retry, StartSaving
<1> QED BY <1>1, <1>2, LinkHollow

LEMMA SaveHollow ==
  ASSUME HollowInv, Typed, NEW l \in Link, Save(l) \/ FillHost(l)
  PROVE  HollowInv'
<1> DEFINE v == link[l].uid
           q == SavePath(l)
<1>1. UNCHANGED Others /\ \A m \in Link : m # l => link'[m] = link[m]
  BY DEF Typed, Save, FillHost, Saved, Others
<1>2. l # Truncated /\ l # Hollow /\ Truncated # Hollow
  BY ContentMarks DEF Truncated, Hollow
<1>3. CASE Saved(l)
  <2>1. link'[l].at # "fill" /\ file' = [file EXCEPT ![v][q] = l]
    BY <1>3 DEF Typed, Saved
  <2>2. \A u \in Uid, p \in Path :
          IF u = v /\ p = q THEN file'[u][p] = l ELSE file'[u][p] = file[u][p]
    BY <2>1 DEF Typed
  <2> QED BY <1>1, <1>2, <2>1, <2>2, LinkHollow
<1>4. CASE Save(l) /\ link'[l].at = "fill"
  <2>1. /\ file' = [file EXCEPT ![v][q] = Truncated]
        /\ link'[l] = [at |-> "fill", ll |-> link[l].ll, uid |-> v, left |-> link[l].left]
        /\ Head(link[l].left) = "host" /\ link[l].at = "save"
    BY <1>4 DEF Typed, Save, Saved
  <2>2. SavePath(l)' = q /\ link'[l].uid = v /\ Head(link'[l].left) = "host"
    BY <2>1 DEF SavePath
  <2>3. \A u \in Uid, p \in Path :
          IF u = v /\ p = q THEN file'[u][p] = Truncated ELSE file'[u][p] = file[u][p]
    BY <2>1 DEF Typed
  <2> QED BY <1>1, <1>2, <1>4, <2>1, <2>2, <2>3, LinkHollow
<1>5. CASE Save(l) /\ file' = file /\ link'[l].at = "failed"
  <2>1. link[l].at # "fill"
    BY <1>5 DEF Save
  <2> QED BY <1>1, <1>5, <2>1, LinkHollow
<1>6. Save(l) => Saved(l) \/ link'[l].at = "fill" \/ (file' = file /\ link'[l].at = "failed")
  BY DEF Typed, Save
<1> QED BY <1>3, <1>4, <1>5, <1>6 DEF FillHost

(* A tool that opens its output makes it; one that opens its input spoils
   it.                                                                     *)
LEMMA OpenHollow ==
  ASSUME HollowInv, Typed, NEW t \in Tool, NEW u \in Uid, NEW in \in {"allin1", "outlined"},
         NEW ll \in BOOLEAN, OpenOutput(t, u, in, ll)
  PROVE  HollowInv'
<1> USE DEF HollowInv
<1> DEFINE q == PathOf(Output(t), ll)
<1>1. /\ run.at = "none" /\ link' = link /\ qso' = qso /\ spoilt \subseteq spoilt'
      /\ file' = [file EXCEPT ![u][q] = Truncated]
      /\ run' = [at |-> "opened", tool |-> t, uid |-> u, in |-> in, ll |-> ll]
      /\ Output(t) = in => u \in spoilt'
  BY DEF OpenOutput
<1>2. OutPath' = q
  <2>1. run'.tool = t /\ run'.ll = ll
    BY <1>1
  <2> QED BY <2>1 DEF OutPath
<1>3. \A v \in Uid, p \in Path :
        IF v = u /\ p = q THEN file'[v][p] = Truncated ELSE file'[v][p] = file[v][p]
  BY <1>1 DEF Typed
<1>4. Truncated # Hollow
  BY DEF Truncated, Hollow
<1> HIDE DEF q
<1>5. InputKept'
  BY <1>1 DEF InputKept, Output
<1>6. FillsHost'
  BY <1>1 DEF FillsHost
<1>7. HollowExplained'
  BY <1>1, <1>3, <1>4 DEF HollowExplained
<1>8. \A v \in Uid, p \in Path : Filling(v, p)' <=> Filling(v, p)
  BY <1>1 DEF Filling, SavePath
<1>9. EmptyExplained'
  <2> SUFFICES ASSUME NEW v \in Uid, NEW p \in Path, file'[v][p] = Truncated
               PROVE  v \in spoilt' \/ Filling(v, p)' \/ Making(v, p)'
    BY DEF EmptyExplained
  <2>1. CASE v = u /\ p = q
    BY <2>1, <1>1, <1>2 DEF Making
  <2>2. CASE ~(v = u /\ p = q)
    BY <2>2, <1>1, <1>3, <1>8 DEF EmptyExplained, Making
  <2> QED BY <2>1, <2>2
<1> QED BY <1>5, <1>6, <1>7, <1>9

(* What a tool reads is empty only where something failed before, or where
   it overwrites its input.                                                *)
LEMMA InputExplained ==
  ASSUME HollowInv, Typed, RunTyped, run.at = "opened",
         Parsed(file[run.uid][InPath], InPath[2]) = Hollow
  PROVE  run.uid \in spoilt
<1> USE DEF HollowInv
<1>1. InPath \in Path /\ InPath[1] = run.in /\ run.in \in {"allin1", "outlined"} /\ run.uid \in Uid
  BY DEF RunTyped, InputKept, InPath, Path, Ir, Ext
<1>2. file[run.uid][InPath] \in {Hollow, Truncated}
  BY DEF Parsed
<1>3. CASE file[run.uid][InPath] = Hollow
  BY <1>1, <1>3 DEF HollowExplained
<1>4. CASE Filling(run.uid, InPath)
  <2>1. PICK l \in Link : link[l].at = "fill" /\ SavePath(l) = InPath
    BY <1>4 DEF Filling
  <2>2. SavePath(l) = <<"host", Ext(link[l].ll)>>
    BY <2>1 DEF FillsHost, SavePath, PathOf, Ir
  <2>3. SavePath(l)[1] = "host"
    BY <2>2
  <2> QED BY <1>1, <2>1, <2>3
<1>5. CASE Making(run.uid, InPath)
  <2>1. OutPath[1] = Output(run.tool)
    BY DEF OutPath, PathOf
  <2> QED BY <1>1, <1>5, <2>1 DEF Making, InputKept
<1>6. CASE file[run.uid][InPath] = Truncated
  BY <1>1, <1>4, <1>5, <1>6 DEF EmptyExplained
<1> QED BY <1>2, <1>3, <1>6

LEMMA WriteHollow ==
  ASSUME HollowInv, Typed, RunTyped, ReadAndWrite
  PROVE  HollowInv'
<1> USE DEF HollowInv
<1> DEFINE ir == Parsed(file[run.uid][InPath], InPath[2])
<1>1. /\ run.at = "opened" /\ run'.at = "none" /\ link' = link /\ qso' = qso
      /\ spoilt \subseteq spoilt'
  BY DEF ReadAndWrite, Exits
<1>2. \/ file' = file /\ run.uid \in spoilt'
      \/ ir \notin {Absent, Truncated} /\ file' = [file EXCEPT ![run.uid][OutPath] = ir]
  BY DEF ReadAndWrite, Exits
<1>3. ir = Hollow => run.uid \in spoilt
  BY <1>1, InputExplained
<1> HIDE DEF ir
<1>4. \A v \in Uid, p \in Path :
        \/ file'[v][p] = file[v][p] /\ (v = run.uid => v \in spoilt' \/ p # OutPath)
        \/ file'[v][p] = ir /\ ir # Truncated /\ v = run.uid
  <2> SUFFICES ASSUME NEW v \in Uid, NEW p \in Path
               PROVE  \/ file'[v][p] = file[v][p] /\ (v = run.uid => v \in spoilt' \/ p # OutPath)
                      \/ file'[v][p] = ir /\ ir # Truncated /\ v = run.uid
    OBVIOUS
  <2>1. CASE file' = file /\ run.uid \in spoilt'
    BY <2>1
  <2>2. CASE ir \notin {Absent, Truncated} /\ file' = [file EXCEPT ![run.uid][OutPath] = ir]
    BY <2>2 DEF Typed
  <2> QED BY <1>2, <2>1, <2>2
<1>5. InputKept' /\ FillsHost'
  BY <1>1 DEF InputKept, FillsHost
<1>6. HollowExplained'
  BY <1>1, <1>3, <1>4 DEF HollowExplained
<1>7. \A v \in Uid, p \in Path : Filling(v, p)' <=> Filling(v, p)
  BY <1>1 DEF Filling, SavePath
<1>8. EmptyExplained'
  BY <1>1, <1>4, <1>7 DEF EmptyExplained, Making
<1> QED BY <1>5, <1>6, <1>8

(* hqlibs meets an empty host half beside a link or a tool, or where a tool
   failed.                                                                 *)
LEMMA BuildHollow ==
  ASSUME HollowInv, Typed, StartBuild \/ (\E u \in Uid : BuildOne(u)) \/ EndBuild \/ UNCHANGED vars
  PROVE  HollowInv'
<1> USE DEF HollowInv
<1>1. UNCHANGED <<file, link, run>> /\ spoilt \subseteq spoilt'
  BY DEF StartBuild, BuildOne, EndBuild, vars
<1>2. FillsHost' /\ InputKept'
  BY <1>1 DEF FillsHost, InputKept
<1>3. \A u \in Uid, p \in Path : (Filling(u, p)' <=> Filling(u, p)) /\ (Making(u, p)' <=> Making(u, p))
  BY <1>1 DEF Filling, Making, SavePath, OutPath
<1>4. EmptyExplained'
  BY <1>1, <1>3 DEF EmptyExplained
<1>5. ASSUME NEW u \in Uid, BuildOne(u)
      PROVE  HollowExplained'
  <2> DEFINE p == <<"host", HostExt(u)>>
             c == Parsed(file[u][p], HostExt(u))
  <2>1. p \in Path
    BY DEF HostExt, Path, Ir
  <2>2. qso' = qso \/ qso' = [qso EXCEPT ![u] = c] \/ qso' = [qso EXCEPT ![u] = Absent]
    BY <1>5 DEF BuildOne, Compile
  <2>3. c = Hollow => u \in spoilt'
    <3>1. c = Hollow => file[u][p] = Hollow \/ file[u][p] = Truncated
      BY DEF Parsed
    <3>2. Filling(u, p) => Linking(u)
      BY DEF Filling, Linking
    <3>3. Making(u, p) => run.at # "none" /\ run.uid = u
      BY DEF Making
    <3>4. Linking(u) \/ (run.at # "none" /\ run.uid = u) => u \in spoilt'
      BY <1>5 DEF BuildOne
    <3> HIDE DEF c, p
    <3> QED BY <1>1, <2>1, <3>1, <3>2, <3>3, <3>4 DEF HollowExplained, EmptyExplained
  <2> HIDE DEF c
  <2>4. \A v \in Uid : qso'[v] = qso[v] \/ qso'[v] = Absent \/ (v = u /\ qso'[v] = c)
    BY <2>2 DEF Typed
  <2> QED BY <1>1, <2>3, <2>4 DEF HollowExplained, Absent, Hollow
<1>6. qso' = qso => HollowExplained'
  BY <1>1 DEF HollowExplained
<1>7. HollowExplained'
  BY <1>5, <1>6 DEF StartBuild, EndBuild, vars
<1> QED BY <1>2, <1>4, <1>7

(* Empty files, and what was made from them, are explained in every state. *)
THEOREM HollowInvariant == Spec => []HollowInv
<1>1. Init => HollowInv
  <2> SUFFICES ASSUME Init PROVE HollowInv
    OBVIOUS
  <2>1. Absent # Hollow /\ Absent # Truncated
    BY DEF Absent, Hollow, Truncated
  <2>2. \A l \in Link : link[l].at # "fill"
    BY DEF Init
  <2>3. \A u \in Uid : qso[u] = Absent /\ \A p \in Path : file[u][p] = Absent
    BY DEF Init
  <2>4. run.at # "opened"
    BY DEF Init
  <2> QED BY <2>1, <2>2, <2>3, <2>4 DEF HollowInv, HollowExplained, EmptyExplained, FillsHost, InputKept
<1>2. ToolsetInv /\ RunTyped /\ HollowInv /\ [Next]_vars => HollowInv'
  <2> SUFFICES ASSUME ToolsetInv, RunTyped, HollowInv, [Next]_vars PROVE HollowInv'
    OBVIOUS
  <2>0. Typed
    BY DEF ToolsetInv
  <2>1. ASSUME NEW l \in Link, (\E u \in Uid : DrawUid(l, u)) \/ MakeParent(l) \/ MakeChild(l) \/ RefuseDir(l)
        PROVE  HollowInv'
    BY <2>0, <2>1, DirHollow
  <2>2. ASSUME NEW l \in Link, Save(l) \/ FillHost(l)
        PROVE  HollowInv'
    BY <2>0, <2>2, SaveHollow
  <2>3. ASSUME NEW t \in Tool, NEW u \in Uid, NEW in \in {"allin1", "outlined"}, NEW ll \in BOOLEAN,
               OpenOutput(t, u, in, ll)
        PROVE  HollowInv'
    BY <2>0, <2>3, OpenHollow
  <2>4. CASE ReadAndWrite
    BY <2>0, <2>4, WriteHollow
  <2>5. CASE StartBuild \/ (\E u \in Uid : BuildOne(u)) \/ EndBuild \/ Ended \/ UNCHANGED vars
    BY <2>0, <2>5, BuildHollow DEF Ended
  <2> QED BY <2>1, <2>2, <2>3, <2>4, <2>5 DEF Next
<1> QED BY <1>1, <1>2, ToolsetInvariant, PTL DEF Spec

(* A tool that reports success makes an empty table, module or library only
   where a tool failed before, overwrote its input or ran beside another
   one, for any number of links, tool runs and builds.                     *)
THEOREM HollowExplainedAlways == Spec => []HollowExplained
<1>1. HollowInv => HollowExplained
  BY DEF HollowInv
<1> QED BY <1>1, HollowInvariant, PTL

-----------------------------------------------------------------------------
(* A link that is over has saved its host half, one that saves has done so
   or has it in its list.  Files are not removed.                          *)
Stage == Ir \cup {"bw-list", "symtbl"}
HostAhead(l) == \E i \in 1..Len(link[l].left) : link[l].left[i] = "host"

HostSaved(l) ==
  /\ link[l].at \in {"save", "fill"} =>
       /\ link[l].left \in Seq(Stage) /\ link[l].left # <<>>
       /\ HasHost(link[l].uid) \/ HostAhead(l)
  /\ link[l].at = "linked" => HasHost(link[l].uid)

(* The libraries that are due have been built, or are still to be.         *)
Provided(u) == qso[u] # Absent /\ (u \notin spoilt => qso[u] \in Link)
BuildGoes ==
  /\ build.at = "loop" =>
       /\ build.due \subseteq Uid
       /\ \A u \in build.due : HasHost(u) /\ (u \in build.todo \/ Provided(u))
  /\ build.at = "done" /\ build.code = 1 => build.stop \in Uid

BuildInv == BuildGoes /\ BuildComplete /\ \A l \in Link : HostSaved(l)

LEMMA SavesHost ==
  ASSUME NEW pfo \in BOOLEAN
  PROVE  /\ Saves(pfo) \in Seq(Stage) /\ Saves(pfo) # <<>>
         /\ \E i \in 1..Len(Saves(pfo)) : Saves(pfo)[i] = "host"
<1>1. CASE pfo
  <2>1. Saves(pfo) = <<"allin1", "bw-list", "outlined", "symtbl", "host", "guest">>
    BY <1>1 DEF Saves
  <2>2. Saves(pfo)[5] = "host" /\ 5 \in 1..Len(Saves(pfo))
    BY <2>1
  <2> QED BY <2>1, <2>2 DEF Stage, Ir
<1>2. CASE ~pfo
  <2>1. Saves(pfo) = <<"allin1", "bw-list", "symtbl", "host", "guest">>
    BY <1>2 DEF Saves
  <2>2. Saves(pfo)[4] = "host" /\ 4 \in 1..Len(Saves(pfo))
    BY <2>1
  <2> QED BY <2>1, <2>2 DEF Stage, Ir
<1> QED BY <1>1, <1>2

(* Dropping a stage that is not the host half keeps it ahead.              *)
LEMMA TailKeepsHost ==
  ASSUME NEW s \in Seq(Stage), NEW i \in 1..Len(s), s[i] = "host", Head(s) # "host"
  PROVE  /\ Tail(s) \in Seq(Stage) /\ Tail(s) # <<>>
         /\ \E j \in 1..Len(Tail(s)) : Tail(s)[j] = "host"
<1>1. s # <<>> /\ i # 1 /\ Len(s) \in Nat
  OBVIOUS
<1>2. Tail(s) \in Seq(Stage) /\ Len(Tail(s)) = Len(s) - 1
  BY <1>1
<1>3. i - 1 \in 1..Len(Tail(s)) /\ Tail(s)[i - 1] = "host"
  BY <1>1, <1>2
<1>4. Tail(s) # <<>>
  <2>1. Len(Tail(s)) # 0 /\ Len(<<>>) = 0
    BY <1>2, <1>3
  <2> QED BY <2>1
<1> QED BY <1>2, <1>3, <1>4

(* A step that leaves no file absent that was not, and changes no link that
   is over or saves, keeps host halves.                                    *)
LEMMA HostKeeps ==
  ASSUME NEW l \in Link, HostSaved(l), link'[l] = link[l],
         \A u \in Uid, p \in Path : file[u][p] # Absent => file'[u][p] # Absent,
         Past(l) => link[l].uid \in Uid
  PROVE  HostSaved(l)'
<1>1. \A u \in Uid : HasHost(u) => HasHost(u)'
  BY DEF HasHost, Path, Ir
<1>2. HostAhead(l)' <=> HostAhead(l)
  BY DEF HostAhead
<1> QED BY <1>1, <1>2 DEF HostSaved, Past

(* A step beside hqlibs keeps what it has built and has still to build.    *)
LEMMA BesideBuild ==
  ASSUME BuildGoes, BuildComplete, UNCHANGED <<qso, build>>, spoilt \subseteq spoilt',
         \A u \in Uid, p \in Path : file[u][p] # Absent => file'[u][p] # Absent
  PROVE  BuildGoes' /\ BuildComplete'
<1>1. \A u \in Uid : HasHost(u) => HasHost(u)'
  BY DEF HasHost, Path, Ir
<1>2. BuildGoes'
  BY <1>1 DEF BuildGoes, Provided
<1>3. BuildComplete'
  BY <1>1 DEF BuildComplete, BuildGoes
<1> QED BY <1>2, <1>3

(* The steps of a link save its host half before it is over.               *)
LEMMA LinkBuild ==
  ASSUME BuildInv, FillsHost, ToolsetInv, NEW l \in Link,
         (\E u \in Uid : DrawUid(l, u)) \/ MakeParent(l) \/ MakeChild(l) \/ RefuseDir(l) \/ Save(l) \/ FillHost(l)
  PROVE  BuildInv'
<1> USE DEF BuildInv
<1> DEFINE q == SavePath(l)
<1>7. PICK v : v = link[l].uid
  OBVIOUS
<1>0. Typed /\ (\A m \in Link : Past(m) => link[m].uid \in Uid)
  BY DEF ToolsetInv, Typed, OwnDirs
<1>1. UNCHANGED <<qso, build, spoilt>> /\ \A m \in Link : m # l => link'[m] = link[m]
  <2>1. UNCHANGED <<qso, build, spoilt>>
    BY DEF DrawUid, MakeParent, MakeChild, RefuseDir, Save, FillHost, Others
  <2>2. \A m \in Link : m # l => link'[m] = link[m]
    BY <1>0 DEF Typed, DrawUid, MakeParent, MakeChild, RefuseDir, Save, FillHost, Saved, MakeDir, Retry, StartSaving
  <2> QED BY <2>1, <2>2
<1>2. l # Absent /\ Truncated # Absent
  BY ContentMarks DEF Truncated, Absent
<1>3. \A u \in Uid, p \in Path : file[u][p] # Absent => file'[u][p] # Absent
  <2>1. file' = file \/ \E c \in {l, Truncated} : file' = [file EXCEPT ![v][q] = c]
    BY <1>7 DEF DrawUid, MakeParent, MakeChild, RefuseDir, Save, FillHost, Saved
  <2> QED BY <2>1, <1>0, <1>2 DEF Typed
<1>4. BuildGoes' /\ BuildComplete'
  BY <1>1, <1>3, BesideBuild
<1>5. \A m \in Link : m # l => HostSaved(m)'
  BY <1>0, <1>1, <1>3, HostKeeps
<1>6. HostSaved(l)'
  <2>1. CASE (\E u \in Uid : DrawUid(l, u)) \/ MakeParent(l) \/ MakeChild(l) \/ RefuseDir(l)
    <3>1. \/ link'[l].at \notin {"save", "fill", "linked"}
          \/ \E pfo \in BOOLEAN : link'[l].left = Saves(pfo) /\ link'[l].at = "save"
      <4> DEFINE Goal == \/ link'[l].at \notin {"save", "fill", "linked"}
                         \/ \E pfo \in BOOLEAN : link'[l].left = Saves(pfo) /\ link'[l].at = "save"
      <4>1. ASSUME NEW n, NEW e, Retry(l, n, e) PROVE Goal
        BY <4>1, <1>0 DEF Typed, Retry
      <4>2. ASSUME NEW u, StartSaving(l, u) PROVE Goal
        BY <4>2, <1>0 DEF Typed, StartSaving
      <4>3. ASSUME NEW u, MakeDir(l, u) PROVE Goal
        <5> HIDE DEF Goal
        <5> QED BY <4>1, <4>2, <4>3 DEF MakeDir
      <4>4. link'[l].at \in {"parent", "child"} => Goal
        OBVIOUS
      <4>5. \/ link'[l].at \in {"parent", "child"}
            \/ Retry(l, 0, 0) \/ Retry(l, 0, 1)
            \/ \E u : MakeDir(l, u)
        BY <2>1, <1>0 DEF Typed, DrawUid, MakeParent, MakeChild, RefuseDir
      <4> HIDE DEF Goal
      <4>6. Goal
        BY <4>1, <4>3, <4>4, <4>5
      <4> QED BY <4>6 DEF Goal
    <3> QED BY <3>1, SavesHost DEF HostSaved, HostAhead
  <2>2. CASE (Save(l) \/ FillHost(l)) /\ Saved(l)
    <3> DEFINE s == link[l].left
    <3>0. link[l].at \in {"save", "fill"} /\ v \in Uid
      BY <2>2, <1>0, <1>7 DEF Save, FillHost, Past
    <3>1. s \in Seq(Stage) /\ s # <<>> /\ (HasHost(v) \/ HostAhead(l))
      BY <3>0, <1>7 DEF HostSaved
    <3>2. link'[l] = IF Tail(s) = <<>> THEN [at |-> "linked", uid |-> v]
                     ELSE [at |-> "save", ll |-> link[l].ll, uid |-> v, left |-> Tail(s)]
      BY <2>2, <1>0, <1>7 DEF Saved, Typed
    <3>3. Tail(s) \in Seq(Stage)
      BY <3>1
    <3>4. HasHost(v) => HasHost(v)'
      BY <3>0, <1>3 DEF HasHost, Path, Ir
    <3>5. CASE HasHost(v)'
      <4>1. CASE Tail(s) = <<>>
        <5>1. link'[l] = [at |-> "linked", uid |-> v]
          BY <3>2, <4>1
        <5>2. link'[l].at = "linked" /\ link'[l].uid = v
          BY <5>1
        <5>3. HasHost(link[l].uid)'
          BY <3>5, <5>2 DEF HasHost
        <5> QED BY <5>2, <5>3 DEF HostSaved
      <4>2. CASE Tail(s) # <<>>
        <5>1. link'[l].at = "save" /\ link'[l].left = Tail(s) /\ link'[l].uid = v
          <6>1. link'[l] = [at |-> "save", ll |-> link[l].ll, uid |-> v, left |-> Tail(s)]
            BY <3>2, <4>2
          <6>2. link'[l].at = "save" /\ link'[l].left = Tail(s)
            BY <6>1
          <6> HIDE DEF s
          <6>3. link'[l].uid = v
            BY <6>1
          <6> QED BY <6>2, <6>3
        <5>2. HasHost(link[l].uid)'
          BY <3>5, <5>1 DEF HasHost
        <5> QED BY <3>3, <4>2, <5>1, <5>2 DEF HostSaved
      <4> QED BY <4>1, <4>2
    <3>6. CASE Head(s) = "host"
      <4>1. q = <<"host", Ext(link[l].ll)>> /\ q \in Path /\ Ext(link[l].ll) \in {".ll", ".bc"}
        BY <3>6 DEF SavePath, PathOf, Path, Ir, Ext
      <4>2. file'[v][q] = l
        BY <2>2, <3>0, <4>1, <1>0, <1>7 DEF Saved, Typed
      <4>3. HasHost(v)'
        BY <4>1, <4>2, <1>2 DEF HasHost
      <4> QED BY <4>3, <3>5
    <3>7. CASE Head(s) # "host" /\ HostAhead(l)
      <4>1. Tail(s) # <<>> /\ \E j \in 1..Len(Tail(s)) : Tail(s)[j] = "host"
        BY <3>1, <3>7, TailKeepsHost DEF HostAhead
      <4>2. link'[l] = [at |-> "save", ll |-> link[l].ll, uid |-> v, left |-> Tail(s)]
        BY <3>2, <4>1
      <4>3. link'[l].at = "save" /\ link'[l].left = Tail(s)
        BY <4>2
      <4> QED BY <3>3, <4>1, <4>3 DEF HostSaved, HostAhead
    <3> QED BY <3>1, <3>4, <3>5, <3>6, <3>7
  <2>3. CASE Save(l) /\ ~Saved(l)
    <3>1. CASE link' = [link EXCEPT ![l] = [at |-> "failed", uid |-> v]]
      BY <3>1, <1>0 DEF Typed, HostSaved
    <3>2. CASE link' = [link EXCEPT ![l] = [at |-> "fill", ll |-> link[l].ll, uid |-> v, left |-> link[l].left]]
      <4>1. link'[l].left = link[l].left /\ link'[l].uid = v /\ link'[l].at = "fill"
        BY <3>2, <1>0 DEF Typed
      <4>2. link[l].at = "save" /\ v \in Uid
        BY <2>3, <1>0, <1>7 DEF Save, Past
      <4>3. HasHost(v) => HasHost(v)'
        BY <4>2, <1>3 DEF HasHost, Path, Ir
      <4>4. HasHost(v)' => HasHost(link[l].uid)'
        BY <4>1 DEF HasHost
      <4> QED BY <4>1, <4>2, <4>3, <4>4, <1>7 DEF HostSaved, HostAhead
    <3> QED BY <2>3, <3>1, <3>2, <1>7 DEF Save
  <2> QED BY <2>1, <2>2, <2>3 DEF FillHost
<1> QED BY <1>4, <1>5, <1>6

LEMMA ToolBuild ==
  ASSUME BuildInv, ToolsetInv,
         \/ \E t \in Tool, u \in Uid, in \in {"allin1", "outlined"}, ll \in BOOLEAN : OpenOutput(t, u, in, ll)
         \/ ReadAndWrite
  PROVE  BuildInv'
<1> USE DEF BuildInv
<1>0. Typed /\ (\A m \in Link : Past(m) => link[m].uid \in Uid)
  BY DEF ToolsetInv, Typed, OwnDirs
<1>1. UNCHANGED <<qso, build, link>> /\ spoilt \subseteq spoilt'
  BY DEF OpenOutput, ReadAndWrite, Exits
<1>3. \A u \in Uid, p \in Path : file[u][p] # Absent => file'[u][p] # Absent
  <2>1. ASSUME NEW w, NEW o, NEW c, file' = [file EXCEPT ![w][o] = c], c # Absent
        PROVE  \A u \in Uid, p \in Path : file[u][p] # Absent => file'[u][p] # Absent
    BY <1>0, <2>1 DEF Typed
  <2>2. ASSUME NEW t \in Tool, NEW u \in Uid, NEW in \in {"allin1", "outlined"}, NEW ll \in BOOLEAN,
               OpenOutput(t, u, in, ll)
        PROVE  file' = [file EXCEPT ![u][PathOf(Output(t), ll)] = Truncated] /\ Truncated # Absent
    BY <2>2 DEF OpenOutput, Truncated, Absent
  <2> DEFINE ir == Parsed(file[run.uid][InPath], InPath[2])
  <2>3. ReadAndWrite => \/ file' = file
                        \/ file' = [file EXCEPT ![run.uid][OutPath] = ir] /\ ir # Absent
    BY DEF ReadAndWrite
  <2> HIDE DEF ir
  <2>4. CASE ReadAndWrite
    <3>1. CASE file' = file
      BY <3>1
    <3>2. CASE file' = [file EXCEPT ![run.uid][OutPath] = ir] /\ ir # Absent
      BY <3>2, <2>1
    <3> QED BY <2>3, <2>4, <3>1, <3>2
  <2>5. CASE \E t \in Tool, u \in Uid, in \in {"allin1", "outlined"}, ll \in BOOLEAN : OpenOutput(t, u, in, ll)
    <3>1. PICK t \in Tool, u \in Uid, in \in {"allin1", "outlined"}, ll \in BOOLEAN : OpenOutput(t, u, in, ll)
      BY <2>5
    <3> DEFINE o == PathOf(Output(t), ll)
    <3>2. file' = [file EXCEPT ![u][o] = Truncated] /\ Truncated # Absent
      BY <3>1, <2>2
    <3> HIDE DEF o
    <3> QED BY <3>2, <2>1
  <2> QED BY <2>4, <2>5
<1>4. BuildGoes' /\ BuildComplete'
  BY <1>1, <1>3, BesideBuild
<1>5. \A m \in Link : HostSaved(m)'
  BY <1>0, <1>1, <1>3, HostKeeps
<1> QED BY <1>4, <1>5

(* hqlibs goes on past directories without a host half, and stops where clang
   fails.                                                                  *)
LEMMA HqlibsBuild ==
  ASSUME BuildInv, ToolsetInv, HollowInv,
         StartBuild \/ (\E u \in Uid : BuildOne(u)) \/ EndBuild \/ UNCHANGED vars
  PROVE  BuildInv'
<1> USE DEF BuildInv
<1>0. Typed /\ (\A m \in Link : Past(m) => link[m].uid \in Uid /\ link[m].uid \in dirs)
  BY DEF ToolsetInv, Typed, OwnDirs
<1>1. UNCHANGED <<file, link>> /\ spoilt \subseteq spoilt'
  BY DEF StartBuild, BuildOne, EndBuild, vars
<1>2. (\A l \in Link : HostSaved(l)') /\ (\A u : HasHost(u)' <=> HasHost(u))
  BY <1>1 DEF HostSaved, HasHost, HostAhead
<1>3. CASE UNCHANGED vars
  <2>1. BuildGoes' /\ BuildComplete'
    BY <1>2, <1>3 DEF vars, BuildGoes, BuildComplete, Provided, HasHost
  <2> QED BY <1>2, <2>1
<1>4. CASE StartBuild
  <2>1. build' = [at |-> "loop", todo |-> dirs, due |-> Linked] /\ qso' = qso
    BY <1>4 DEF StartBuild
  <2>2. \A u \in Linked : u \in Uid /\ u \in dirs /\ HasHost(u)
    BY <1>0 DEF Linked, Past, HostSaved
  <2>3. BuildGoes' /\ BuildComplete'
    BY <1>2, <2>1, <2>2 DEF BuildGoes, BuildComplete
  <2> QED BY <1>2, <2>3
<1>5. CASE EndBuild
  <2>1. build' = [at |-> "done", code |-> 0, due |-> build.due] /\ qso' = qso /\ spoilt' = spoilt
    BY <1>5 DEF EndBuild
  <2>2. \A u \in build.due : Provided(u)
    BY <1>5 DEF EndBuild, BuildGoes
  <2>3. build'.at = "done" /\ build'.code = 0 /\ build'.due = build.due
    BY <2>1
  <2>4. \A u \in build.due : qso'[u] # Absent /\ (u \notin spoilt' => qso'[u] \in Link)
    BY <2>1, <2>2 DEF Provided
  <2>5. BuildComplete'
    BY <2>3, <2>4 DEF BuildComplete
  <2>6. BuildGoes'
    BY <2>3 DEF BuildGoes
  <2> QED BY <1>2, <2>5, <2>6
<1>6. ASSUME NEW u \in Uid, BuildOne(u)
      PROVE  BuildInv'
  <2> DEFINE p == <<"host", HostExt(u)>>
             c == Parsed(file[u][p], HostExt(u))
  <2>0. build.at = "loop" /\ u \in build.todo
    BY <1>6 DEF BuildOne
  <2>1. p \in Path
    BY DEF HostExt, Path, Ir
  <2>2. file[u][p] = Truncated => u \in spoilt'
    <3>1. Filling(u, p) => Linking(u)
      BY DEF Filling, Linking
    <3>2. Making(u, p) => run.at # "none" /\ run.uid = u
      BY DEF Making
    <3>3. Linking(u) \/ (run.at # "none" /\ run.uid = u) => u \in spoilt'
      BY <1>6 DEF BuildOne
    <3> HIDE DEF p
    <3> QED BY <1>1, <2>1, <3>1, <3>2, <3>3 DEF HollowInv, EmptyExplained
  <2>3. file[u][p] = Hollow => u \in spoilt
    BY <2>1 DEF HollowInv, HollowExplained
  <2>4. HasHost(u) <=> file[u][p] # Absent
    BY DEF HasHost, HostExt
  <2>5. /\ c \in Content /\ (c # file[u][p] => file[u][p] = Truncated)
        /\ (c = Absent <=> file[u][p] = Absent)
    BY <2>1, <1>0 DEF Typed, Parsed, Content, Hollow, Absent, Truncated
  <2>6. \/ c = Absent /\ qso' = qso /\ Built(u)
        \/ c # Absent /\ build' = [at |-> "done", code |-> 1, stop |-> u, due |-> build.due]
        \/ c \notin {Absent, Truncated} /\ qso' = [qso EXCEPT ![u] = c] /\ Built(u)
    BY <1>6 DEF BuildOne, Compile
  <2> HIDE DEF c, p
  <2>7. CASE c # Absent /\ build' = [at |-> "done", code |-> 1, stop |-> u, due |-> build.due]
    <3>1. build'.at = "done" /\ build'.code = 1 /\ build'.stop = u
      BY <2>7
    <3>2. HasHost(u)
      BY <2>4, <2>5, <2>7
    <3>3. HasHost(build.stop)'
      BY <1>1, <3>1, <3>2 DEF HasHost
    <3> QED BY <1>2, <3>1, <3>3 DEF BuildGoes, BuildComplete
  <2>8. CASE /\ Built(u)
             /\ \/ c = Absent /\ qso' = qso
                \/ c \notin {Absent, Truncated} /\ qso' = [qso EXCEPT ![u] = c]
    <3>0. build'.at = "loop" /\ build'.todo = build.todo \ {u} /\ build'.due = build.due
      BY <2>8 DEF Built
    <3>1. BuildComplete'
      BY <3>0 DEF BuildComplete
    <3>2. u \in build.due => Provided(u)'
      BY <2>0, <2>2, <2>3, <2>4, <2>5, <2>8, <1>0, <1>1 DEF BuildGoes, Provided, Typed, Content
    <3>3. \A w \in Uid : w # u => qso'[w] = qso[w]
      BY <2>8, <1>0 DEF Typed
    <3>4. \A w \in Uid : w # u /\ Provided(w) => Provided(w)'
      BY <1>1, <3>3 DEF Provided
    <3>5. BuildGoes'
      BY <1>2, <2>0, <3>0, <3>2, <3>4 DEF BuildGoes
    <3> QED BY <1>2, <3>1, <3>5
  <2> QED BY <2>6, <2>7, <2>8
<1> QED BY <1>3, <1>4, <1>5, <1>6

(* hqlibs reports success only when all programs that were linked when it
   started have a library, and a failure only where there is a host half that
   clang failed on.                                                        *)
THEOREM BuildCompleteAlways == Spec => []BuildComplete
<1>1. Init => BuildInv
  <2> SUFFICES ASSUME Init PROVE BuildInv
    OBVIOUS
  <2>1. build.at = "none" /\ \A l \in Link : link[l].at = "draw"
    BY DEF Init
  <2> QED BY <2>1 DEF BuildInv, BuildGoes, BuildComplete, HostSaved
<1>2. ToolsetInv /\ HollowInv /\ BuildInv /\ [Next]_vars => BuildInv'
  <2> SUFFICES ASSUME ToolsetInv, HollowInv, BuildInv, [Next]_vars PROVE BuildInv'
    OBVIOUS
  <2>0. FillsHost
    BY DEF HollowInv
  <2>1. ASSUME NEW l \in Link,
               (\E u \in Uid : DrawUid(l, u)) \/ MakeParent(l) \/ MakeChild(l) \/ RefuseDir(l) \/ Save(l) \/ FillHost(l)
        PROVE  BuildInv'
    BY <2>0, <2>1, LinkBuild
  <2>2. CASE \/ \E t \in Tool, u \in Uid, in \in {"allin1", "outlined"}, ll \in BOOLEAN : OpenOutput(t, u, in, ll)
             \/ ReadAndWrite
    BY <2>2, ToolBuild
  <2>3. CASE StartBuild \/ (\E u \in Uid : BuildOne(u)) \/ EndBuild \/ Ended \/ UNCHANGED vars
    BY <2>3, HqlibsBuild DEF Ended
  <2> QED BY <2>1, <2>2, <2>3 DEF Next
<1>3. BuildInv => BuildComplete
  BY DEF BuildInv
<1> QED BY <1>1, <1>2, <1>3, ToolsetInvariant, HollowInvariant, PTL DEF Spec

-----------------------------------------------------------------------------
(* Types.  A link has lost no more tries to taken uids than it has made, and
   while it saves, something is left to save.                              *)
LinkGoes(s) ==
  /\ s.at \in {"draw", "parent", "child"} => s.taken + s.refused <= s.tries
  /\ s.at \in {"save", "fill"} => s.left # <<>>
LinksTyped == \A l \in Link : link[l] \in LinkState /\ LinkGoes(link[l])
StateInv ==
  /\ guestDir \in BOOLEAN /\ LinksTyped /\ run \in RunState /\ build \in BuildState
  /\ runs \in 0..MaxRuns /\ builds \in 0..MaxBuilds /\ spoilt \subseteq Uid

LEMMA LinkParts ==
  ASSUME NEW s \in LinkState
  PROVE  /\ s.at \in {"draw", "parent", "child"} =>
              s.tries \in 0..(Tries - 1) /\ s.taken \in 0..Tries /\ s.refused \in 0..Tries
         /\ s.at \in {"parent", "child"} => s.uid \in Uid
         /\ s.at \in {"save", "fill"} => s.ll \in BOOLEAN /\ s.uid \in Uid /\ s.left \in Seq(Stage)
         /\ s.at = "linked" => s.uid \in Uid
<1>1. CASE s \in [at : {"draw"}, tries : 0..(Tries - 1), taken : 0..Tries, refused : 0..Tries]
  BY <1>1
<1>2. CASE s \in [at : {"parent", "child"}, tries : 0..(Tries - 1), taken : 0..Tries, refused : 0..Tries,
                 uid : Uid]
  BY <1>2
<1>3. CASE s \in [at : {"save", "fill"}, ll : BOOLEAN, uid : Uid, left : Seq(Stage)]
  BY <1>3
<1>4. CASE s \in [at : {"linked", "failed"}, uid : Uid]
  BY <1>4
<1>5. CASE s \in [at : {"noDir"}, taken : 0..Tries, refused : 0..Tries]
  BY <1>5
<1> QED BY <1>1, <1>2, <1>3, <1>4, <1>5 DEF LinkState, Stage

(* One link goes on.                                                       *)
LEMMA LinkMoves ==
  ASSUME StateInv, Typed, NEW l \in Link, NEW r \in LinkState, LinkGoes(r),
         link' = [link EXCEPT ![l] = r], guestDir' \in BOOLEAN, UNCHANGED Others
  PROVE  StateInv'
<1>1. \A m \in Link : link'[m] = IF m = l THEN r ELSE link[m]
  BY DEF Typed
<1>2. LinksTyped'
  BY <1>1 DEF StateInv, LinksTyped, LinkGoes
<1> QED BY <1>2 DEF StateInv, Others

LEMMA RetryTyped ==
  ASSUME StateInv, Typed, NEW l \in Link, link[l].at \in {"draw", "parent", "child"},
         NEW t, NEW e, (t = 0 /\ e = 0) \/ (t = 1 /\ e = 0) \/ (t = 0 /\ e = 1),
         Retry(l, t, e), guestDir' \in BOOLEAN, UNCHANGED Others
  PROVE  StateInv'
<1>1. PICK n, k, j : n = link[l].tries + 1 /\ k = link[l].taken + t /\ j = link[l].refused + e
  OBVIOUS
<1>2. n \in 1..Tries /\ k \in 0..Tries /\ j \in 0..Tries /\ k + j <= n
  <2>1. PICK a, b, c : a = link[l].tries /\ b = link[l].taken /\ c = link[l].refused
    OBVIOUS
  <2>2. a \in 0..2 /\ b \in 0..3 /\ c \in 0..3
    BY <2>1, LinkParts DEF StateInv, LinksTyped, Tries
  <2>3. b + c <= a
    BY <2>1 DEF StateInv, LinksTyped, LinkGoes
  <2>4. /\ n = a + 1 /\ k = b + t /\ j = c + e
        /\ t \in {0, 1} /\ e \in {0, 1} /\ t + e <= 1
    BY <1>1, <2>1
  <2>5. n \in 1..3 /\ k \in 0..3 /\ j \in 0..3 /\ k + j <= n
    BY <2>2, <2>3, <2>4
  <2> QED BY <2>5 DEF Tries
<1>3. CASE n = Tries
  <2>1. PICK r : r = [at |-> "noDir", taken |-> k, refused |-> j]
    OBVIOUS
  <2>2. link' = [link EXCEPT ![l] = r]
    BY <1>1, <1>3, <2>1 DEF Retry
  <2>3. r \in LinkState /\ LinkGoes(r)
    BY <1>2, <2>1 DEF LinkState, LinkGoes
  <2> QED BY <2>2, <2>3, LinkMoves
<1>4. CASE n # Tries
  <2>1. PICK r : r = [at |-> "draw", tries |-> n, taken |-> k, refused |-> j]
    OBVIOUS
  <2>2. link' = [link EXCEPT ![l] = r]
    BY <1>1, <1>4, <2>1 DEF Retry
  <2>3. n \in 0..(Tries - 1)
    BY <1>2, <1>4 DEF Tries
  <2>4. r \in LinkState /\ LinkGoes(r)
    BY <1>2, <2>1, <2>3 DEF LinkState, LinkGoes
  <2> QED BY <2>2, <2>4, LinkMoves
<1> QED BY <1>3, <1>4

LEMMA MakeDirTyped ==
  ASSUME StateInv, Typed, NEW l \in Link, link[l].at \in {"draw", "child"}, NEW u \in Uid,
         MakeDir(l, u), UNCHANGED <<guestDir, Others>>
  PROVE  StateInv'
<1>1. guestDir' \in BOOLEAN
  BY DEF StateInv
<1>2. CASE Retry(l, 1, 0)
  <2>1. link[l].at \in {"draw", "parent", "child"} /\ UNCHANGED Others
    OBVIOUS
  <2> QED BY <1>1, <1>2, <2>1, RetryTyped, Zenon
<1>3. CASE StartSaving(l, u)
  <2>1. PICK ll, pfo \in BOOLEAN :
          link' = [link EXCEPT ![l] = [at |-> "save", ll |-> ll, uid |-> u, left |-> Saves(pfo)]]
    BY <1>3 DEF StartSaving
  <2>2. Saves(pfo) \in Seq(Stage) /\ Saves(pfo) # <<>>
    BY SavesHost
  <2>3. PICK r : r = [at |-> "save", ll |-> ll, uid |-> u, left |-> Saves(pfo)]
    OBVIOUS
  <2>4. r \in LinkState
    BY <2>2, <2>3 DEF LinkState, Stage
  <2>5. LinkGoes(r)
    BY <2>2, <2>3 DEF LinkGoes
  <2> QED BY <1>1, <2>1, <2>3, <2>4, <2>5, LinkMoves
<1> QED BY <1>2, <1>3 DEF MakeDir

LEMMA DirTyped ==
  ASSUME StateInv, Typed, NEW l \in Link,
         (\E u \in Uid : DrawUid(l, u)) \/ MakeParent(l) \/ MakeChild(l) \/ RefuseDir(l)
  PROVE  StateInv'
<1>1. link[l] \in LinkState /\ LinkGoes(link[l]) /\ guestDir \in BOOLEAN
  BY DEF StateInv, LinksTyped
<1>2. ASSUME NEW u \in Uid, DrawUid(l, u) PROVE StateInv'
  <2>1. CASE guestDir /\ MakeDir(l, u)
    BY <1>2, <2>1, MakeDirTyped DEF DrawUid
  <2>2. CASE ~guestDir
    <3>1. PICK r : r = [at |-> "parent", tries |-> link[l].tries, taken |-> link[l].taken,
                        refused |-> link[l].refused, uid |-> u]
      OBVIOUS
    <3>2. link' = [link EXCEPT ![l] = r] /\ guestDir' \in BOOLEAN /\ UNCHANGED Others
      BY <1>1, <1>2, <2>2, <3>1 DEF DrawUid
    <3>3. r \in LinkState
      BY <1>1, <1>2, <3>1, LinkParts DEF LinkState, DrawUid
    <3>4. LinkGoes(r)
      BY <1>1, <1>2, <3>1 DEF LinkGoes, DrawUid
    <3> QED BY <3>2, <3>3, <3>4, LinkMoves
  <2> QED BY <1>2, <2>1, <2>2 DEF DrawUid
<1>3. CASE MakeParent(l)
  <2>1. link[l].at = "parent" /\ guestDir' \in BOOLEAN /\ UNCHANGED Others
    BY <1>3 DEF MakeParent
  <2>2. CASE Retry(l, 0, 0)
    <3>1. link[l].at \in {"draw", "parent", "child"}
      BY <2>1
    <3> QED BY <2>1, <2>2, <3>1, RetryTyped, Zenon
  <2>3. CASE ~guestDir
    <3>1. PICK r : r = [at |-> "child", tries |-> link[l].tries, taken |-> link[l].taken,
                        refused |-> link[l].refused, uid |-> link[l].uid]
      OBVIOUS
    <3>2. link' = [link EXCEPT ![l] = r]
      BY <1>3, <2>3, <3>1 DEF MakeParent
    <3>3. r \in LinkState
      BY <1>1, <2>1, <3>1, LinkParts DEF LinkState
    <3>4. LinkGoes(r)
      BY <1>1, <2>1, <3>1 DEF LinkGoes
    <3> QED BY <2>1, <3>2, <3>3, <3>4, LinkMoves
  <2> QED BY <1>3, <2>2, <2>3 DEF MakeParent
<1>4. CASE MakeChild(l)
  BY <1>1, <1>4, LinkParts, MakeDirTyped DEF MakeChild
<1>5. CASE RefuseDir(l)
  <2>1. /\ link[l].at \in {"draw", "parent", "child"} /\ Retry(l, 0, 1)
        /\ guestDir' \in BOOLEAN /\ UNCHANGED Others
    BY <1>1, <1>5 DEF RefuseDir
  <2> QED BY <2>1, RetryTyped, Zenon
<1> QED BY <1>2, <1>3, <1>4, <1>5

LEMMA SaveTyped ==
  ASSUME StateInv, Typed, NEW l \in Link, Save(l) \/ FillHost(l)
  PROVE  StateInv'
<1>1. /\ link[l].at \in {"save", "fill"} /\ link[l] \in LinkState /\ link[l].left # <<>>
      /\ guestDir' \in BOOLEAN /\ UNCHANGED Others
  BY DEF StateInv, LinksTyped, LinkGoes, Save, FillHost
<1>2. PICK ll, u, left : ll = link[l].ll /\ u = link[l].uid /\ left = link[l].left
  OBVIOUS
<1>3. ll \in BOOLEAN /\ u \in Uid /\ left \in Seq(Stage) /\ left # <<>> /\ Tail(left) \in Seq(Stage)
  <2>1. ll \in BOOLEAN /\ u \in Uid /\ left \in Seq(Stage)
    BY <1>1, <1>2, LinkParts
  <2>2. left # <<>>
    BY <1>1, <1>2
  <2> QED BY <2>1, <2>2
<1>4. PICK over, fails, fills, goes :
        /\ over = [at |-> "linked", uid |-> u] /\ fails = [at |-> "failed", uid |-> u]
        /\ fills = [at |-> "fill", ll |-> ll, uid |-> u, left |-> left]
        /\ goes = [at |-> "save", ll |-> ll, uid |-> u, left |-> Tail(left)]
  OBVIOUS
<1>5. over \in LinkState /\ fails \in LinkState
  BY <1>3, <1>4 DEF LinkState
<1>6. fills \in LinkState /\ goes \in LinkState
  BY <1>3, <1>4 DEF LinkState, Stage
<1>7. LinkGoes(over) /\ LinkGoes(fails) /\ LinkGoes(fills) /\ (Tail(left) # <<>> => LinkGoes(goes))
  BY <1>3, <1>4 DEF LinkGoes
<1>8. \/ link' = [link EXCEPT ![l] = over] \/ link' = [link EXCEPT ![l] = fails]
      \/ link' = [link EXCEPT ![l] = fills]
      \/ Tail(left) # <<>> /\ link' = [link EXCEPT ![l] = goes]
  BY <1>2, <1>4 DEF Save, FillHost, Saved
<1>9. CASE link' = [link EXCEPT ![l] = over]
  BY <1>1, <1>5, <1>7, <1>9, LinkMoves
<1>10. CASE link' = [link EXCEPT ![l] = fails]
  BY <1>1, <1>5, <1>7, <1>10, LinkMoves
<1>11. CASE link' = [link EXCEPT ![l] = fills]
  BY <1>1, <1>6, <1>7, <1>11, LinkMoves
<1>12. CASE Tail(left) # <<>> /\ link' = [link EXCEPT ![l] = goes]
  BY <1>1, <1>6, <1>7, <1>12, LinkMoves
<1> QED BY <1>8, <1>9, <1>10, <1>11, <1>12

LEMMA ToolTyped ==
  ASSUME StateInv
  PROVE  /\ \A t \in Tool, u \in Uid, in \in {"allin1", "outlined"}, ll \in BOOLEAN :
              OpenOutput(t, u, in, ll) => StateInv'
         /\ ReadAndWrite => StateInv'
<1>1. ASSUME NEW t \in Tool, NEW u \in Uid, NEW in \in {"allin1", "outlined"}, NEW ll \in BOOLEAN,
             OpenOutput(t, u, in, ll)
      PROVE  StateInv'
  <2>1. UNCHANGED <<guestDir, link, build, builds>> /\ spoilt' \subseteq Uid
    BY <1>1 DEF OpenOutput, StateInv
  <2>2. run' \in RunState
    BY <1>1 DEF OpenOutput, RunState
  <2>3. runs' \in 0..MaxRuns
    BY <1>1, ToolsetAssumption DEF OpenOutput, StateInv
  <2> QED BY <2>1, <2>2, <2>3 DEF StateInv, LinksTyped, LinkGoes
<1>2. ASSUME ReadAndWrite PROVE StateInv'
  <2>1. run.uid \in Uid
    BY <1>2 DEF ReadAndWrite, StateInv, RunState
  <2>2. run' = [at |-> "none"] /\ spoilt' \in {spoilt, spoilt \cup {run.uid}}
        /\ UNCHANGED <<guestDir, link, runs, build, builds>>
    BY <1>2 DEF ReadAndWrite, Exits
  <2>3. run' \in RunState /\ spoilt' \subseteq Uid
    BY <2>1, <2>2 DEF StateInv, RunState
  <2> QED BY <2>2, <2>3 DEF StateInv, LinksTyped, LinkGoes
<1> QED BY <1>1, <1>2

LEMMA BuildParts ==
  ASSUME NEW b \in BuildState
  PROVE  b.at = "loop" => b.todo \subseteq Uid /\ b.due \subseteq Uid
  BY DEF BuildState

LEMMA HqlibsTyped ==
  ASSUME StateInv, Typed, StartBuild \/ (\E u \in Uid : BuildOne(u)) \/ EndBuild
  PROVE  StateInv'
<1>1. UNCHANGED <<guestDir, link, run, runs>> /\ spoilt' \subseteq Uid
  BY DEF StartBuild, BuildOne, EndBuild, StateInv
<1>2. builds' \in 0..MaxBuilds
  <2>1. builds' = builds \/ (builds < MaxBuilds /\ builds' = builds + 1)
    BY DEF StartBuild, BuildOne, EndBuild
  <2>2. builds \in 0..MaxBuilds /\ MaxBuilds \in Nat
    BY ToolsetAssumption DEF StateInv
  <2> QED BY <2>1, <2>2
<1>3. build' \in BuildState
  <2>1. CASE StartBuild
    <3>1. Linked \subseteq Uid /\ dirs \subseteq Uid
      BY LinkParts DEF Linked, StateInv, LinksTyped, Typed
    <3>2. build' = [at |-> "loop", todo |-> dirs, due |-> Linked]
      BY <2>1 DEF StartBuild
    <3> QED BY <3>1, <3>2 DEF BuildState
  <2>2. ASSUME build.at = "loop",
               \/ \E u \in Uid : build' = [at |-> "loop", todo |-> build.todo \ {u}, due |-> build.due]
               \/ \E u \in Uid : build' = [at |-> "done", code |-> 1, stop |-> u, due |-> build.due]
               \/ build' = [at |-> "done", code |-> 0, due |-> build.due]
        PROVE  build' \in BuildState
    <3>1. build.todo \subseteq Uid /\ build.due \subseteq Uid
      BY <2>2, BuildParts DEF StateInv
    <3>2. CASE \E u \in Uid : build' = [at |-> "loop", todo |-> build.todo \ {u}, due |-> build.due]
      <4>1. PICK t : build' = [at |-> "loop", todo |-> t, due |-> build.due] /\ t \subseteq Uid
        BY <3>1, <3>2
      <4> QED BY <3>1, <4>1 DEF BuildState
    <3>3. CASE \E u \in Uid : build' = [at |-> "done", code |-> 1, stop |-> u, due |-> build.due]
      BY <3>1, <3>3 DEF BuildState
    <3>4. CASE build' = [at |-> "done", code |-> 0, due |-> build.due]
      BY <3>1, <3>4 DEF BuildState
    <3> QED BY <2>2, <3>2, <3>3, <3>4
  <2>3. CASE \E u \in Uid : BuildOne(u)
    BY <2>2, <2>3 DEF BuildOne, Compile, Built
  <2>4. CASE EndBuild
    BY <2>2, <2>4 DEF EndBuild
  <2> QED BY <2>1, <2>3, <2>4
<1> QED BY <1>1, <1>2, <1>3 DEF StateInv, LinksTyped, LinkGoes

(* The processes of links, tools and builds are only ever in states that the
   code has: a link never loses more uids than it drew, and it saves only
   while a stage is left.                                                  *)
THEOREM ToolsetTypeOKAlways == Spec => []TypeOK
<1>1. Init => StateInv
  <2> SUFFICES ASSUME Init PROVE StateInv
    OBVIOUS
  <2>1. \A l \in Link : link[l] = [at |-> "draw", tries |-> 0, taken |-> 0, refused |-> 0]
    BY DEF Init
  <2>2. [at |-> "draw", tries |-> 0, taken |-> 0, refused |-> 0] \in LinkState
    <3>1. 0 \in 0..(Tries - 1) /\ 0 \in 0..Tries
      BY DEF Tries
    <3> QED BY <3>1 DEF LinkState
  <2>3. LinkGoes([at |-> "draw", tries |-> 0, taken |-> 0, refused |-> 0])
    BY DEF LinkGoes
  <2>4. LinksTyped
    BY <2>1, <2>2, <2>3 DEF LinksTyped
  <2>5. runs \in 0..MaxRuns /\ builds \in 0..MaxBuilds
    <3>1. runs = 0 /\ builds = 0
      BY DEF Init
    <3> QED BY <3>1, ToolsetAssumption
  <2>6. run \in RunState /\ build \in BuildState
    BY DEF Init, RunState, BuildState
  <2> QED BY <2>4, <2>5, <2>6 DEF Init, StateInv
<1>2. ToolsetInv /\ StateInv /\ [Next]_vars => StateInv'
  <2> SUFFICES ASSUME ToolsetInv, StateInv, [Next]_vars PROVE StateInv'
    OBVIOUS
  <2>1. Typed
    BY DEF ToolsetInv
  <2>2. CASE UNCHANGED vars
    BY <2>2 DEF vars, StateInv, LinksTyped, LinkGoes
  <2>3. CASE Next
    BY <2>1, <2>2, <2>3, DirTyped, SaveTyped, ToolTyped, HqlibsTyped DEF Next, Ended
  <2> QED BY <2>2, <2>3
<1>3. ToolsetInv /\ StateInv => TypeOK
  BY DEF ToolsetInv, Typed, StateInv, LinksTyped, TypeOK
<1> QED BY <1>1, <1>2, <1>3, ToolsetInvariant, PTL DEF Spec

=============================================================================
