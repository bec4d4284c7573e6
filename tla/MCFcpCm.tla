------------------------------ MODULE MCFcpCm ------------------------------
(***************************************************************************)
(* Two modules: a of three functions and b of two.                         *)
(***************************************************************************)
EXTENDS FcpCm

MCTable == [m \in {"a", "b"} |-> IF m = "a" THEN <<"a0", "a1", "a2">> ELSE <<"b0", "b1">>]
Names   == {"a0", "a1", "a2", "b0", "b1"}

(* A prefix of two words and a body of at least one.                       *)
Apart(x, y) == x - y >= 3 \/ y - x >= 3
(* The functions of a anywhere in four pages of four words, in any order; b
   in pages of its own, one prefix across a page boundary.                 *)
Place(x, y, z) ==
  [f \in Names |-> CASE f = "a0" -> x [] f = "a1" -> y [] f = "a2" -> z [] f = "b0" -> 25 [] f = "b1" -> 22]
MCLayouts == {Place(t[1], t[2], t[3]) :
                t \in {u \in (2..15) \X (2..15) \X (2..15) :
                         Apart(u[1], u[2]) /\ Apart(u[1], u[3]) /\ Apart(u[2], u[3])}}
OneLayout == {Place(2, 9, 5)}

Own  == [f \in Names |-> f]
(* Both modules define a2, and b comes first for the dynamic linker.       *)
Interposed == [Own EXCEPT !["a2"] = "b1"]

Placed  == [addr: MCLayouts, bind: {Own}, left: {{}}, bare: {{}}]
Special == [addr: OneLayout, bind: {Own, Interposed}, left: SUBSET {"a0", "b0", "b1"},
            bare: SUBSET {"a1", "b1"}]
Plain   == [addr: OneLayout, bind: {Own}, left: {{}}, bare: {{}}]
MCPrograms == Placed \cup Special
=============================================================================
