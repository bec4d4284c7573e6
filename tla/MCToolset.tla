----------------------------- MODULE MCToolset -----------------------------
(* Instances of Toolset for model checking.                                *)
EXTENDS Toolset, TLC

(* Uids are only compared, and links start alike.                          *)
Symmetry == Permutations(Uid) \cup Permutations(Link)

(* Tools meet only in a directory they share: a second run is looked at when
   links are over and have left one directory.  A first run is looked at
   anywhere and any time.                                                  *)
SecondRunAlone == run.at = "opened" /\ runs > 1 => LinksOver /\ Cardinality(dirs) = 1

=============================================================================
