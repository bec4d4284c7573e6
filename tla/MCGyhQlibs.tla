----------------------------- MODULE MCGyhQlibs -----------------------------
(* Instances of GyhQlibs for TLC: i1 and i2 are copies of one module, with the
   same uid; i3 is another, with GRT, whose guest half is newer than its
   library.                                                                *)
EXTENDS GyhQlibs, TLC

CONSTANTS i1, i2, i3

MCUid    == [i \in Image |-> IF i = i3 THEN 11 ELSE 10]
MCFuncs  == [i \in Image |-> IF i = i3 THEN 4 ELSE 1]
MCHFuncs == [u \in UidSet |-> IF u = 10 THEN 1 ELSE 2]

Copies == Permutations({i1, i2})

=============================================================================
