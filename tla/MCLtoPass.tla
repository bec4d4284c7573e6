----------------------------- MODULE MCLtoPass -----------------------------
(***************************************************************************)
(* A module of two functions, f calling g.  The marks, the body and the    *)
(* lists of g vary; f is an ordinary function, or one left to the guest.   *)
(***************************************************************************)
EXTENDS LtoPass

MCFunc    == {"f", "g"}
MCCallees == [h \in MCFunc |-> IF h = "f" THEN {"g"} ELSE {}]

Plain == [ins |-> "fine", big |-> TRUE, prefixed |-> FALSE]
Fs(f, g) == [h \in MCFunc |-> IF h = "f" THEN f ELSE g]

(* The sets of options that the tools use, with and without PFO, then two that
   the configuration does not rule out.                                    *)
Use(p, g, f, c) == [pfo |-> p, grt |-> g, fcp |-> f, fcpcm |-> c]
Options == {Use(TRUE, FALSE, FALSE, FALSE), Use(TRUE, TRUE, FALSE, FALSE), Use(TRUE, TRUE, TRUE, FALSE),
            Use(TRUE, TRUE, TRUE, TRUE), Use(FALSE, TRUE, TRUE, TRUE)}
OddOptions == {Use(TRUE, FALSE, TRUE, FALSE), Use(TRUE, TRUE, FALSE, TRUE)}

Bodies   == {Fs(Plain, b) : b \in Body}
Left     == [Unset EXCEPT !.takeOut = "no"]
OneMark  == {[Unset EXCEPT ![s] = b] : s \in DOMAIN Unset, b \in Bw}
NoMarks  == Fs(Unset, Unset)
NoCallee == Fs("unset", "unset")

(* All annotations of g, in all kinds of bodies.                           *)
Annotated ==
  [body: Bodies, anno: {Fs(mf, mg) : mf \in {Unset, Left}, mg \in Marks}, config: {NoMarks},
   named: {{}}, callees: {NoCallee}, fcpCmChop: {{}}, chopOthers: BOOLEAN, use: Options]
(* Annotations that the configuration overrides.                           *)
Configured ==
  [body: {Fs(Plain, Plain)}, anno: {Fs(Unset, m) : m \in OneMark},
   config: {Fs(Unset, m) : m \in OneMark}, named: {{"g"}}, callees: {NoCallee},
   fcpCmChop: {{}}, chopOthers: {FALSE}, use: Options]
(* g in the lists of callees and of FCP-CM.                                *)
Listed ==
  [body: Bodies, anno: {Fs(mf, mg) : mf \in {Unset, Left}, mg \in OneMark}, config: {NoMarks},
   named: {{}}, callees: {Fs("unset", b) : b \in Bw}, fcpCmChop: SUBSET {"g"},
   chopOthers: BOOLEAN, use: Options \cup OddOptions]
(* g an external function that the configuration says the host has.        *)
External ==
  [body: {Fs(Plain, [Plain EXCEPT !.ins = "declared"])}, anno: {NoMarks}, config: {NoMarks},
   named: {{}}, callees: {Fs("unset", "yes")}, fcpCmChop: {{}}, chopOthers: BOOLEAN, use: Options]
MCConfs == Annotated \cup Configured \cup Listed
=============================================================================
