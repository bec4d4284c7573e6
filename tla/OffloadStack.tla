---------------------------- MODULE OffloadStack ----------------------------
(***************************************************************************)
(* What coMulator promises a guest program: offloading is invisible in the *)
(* control flow.  Host functions, guest callbacks and signal handlers nest *)
(* like the calls of one C program; a function that returns continues its  *)
(* caller, and a longjmp abandons the activations it crosses.              *)
(***************************************************************************)
EXTENDS Integers

CONSTANTS
  Qlib,   \* the modules host functions belong to
  Place   \* the places of the stack, numbers that grow inwards

VARIABLES
  acts,   \* acts[p]: the activation at place p, for the places that have one
  alive   \* the process has not ended

vars == <<acts, alive>>

Guest   == <<"guest">>
Handler == <<"handler">>
HostFn(q) == <<"host", q>>

InGuest == {Guest, Handler}
InHost  == {HostFn(q) : q \in Qlib}

(* The innermost activation is that at p, and is one of A.                 *)
Innermost(p, A) == acts[p] \in A /\ \A x \in DOMAIN acts : x <= p
Runs(A) == \E p \in DOMAIN acts : Innermost(p, A)

Push(a) ==
  \E p \in Place :
    /\ \A x \in DOMAIN acts : x < p
    /\ acts' = [x \in DOMAIN acts \cup {p} |-> IF x = p THEN a ELSE acts[x]]

Pop(A) ==
  \E p \in DOMAIN acts :
    /\ Innermost(p, A) /\ DOMAIN acts # {p}
    /\ acts' = [x \in DOMAIN acts \ {p} |-> acts[x]]

Init == alive = TRUE /\ \E p \in Place : acts = [x \in {p} |-> Guest]

(* The guest calls an offloaded function of module q.                      *)
Call(q) == Runs(InGuest) /\ Push(HostFn(q))

(* The host function calls a guest function, which returns to it, or it
   returns to the guest itself.                                            *)
Callback       == Runs(InHost) /\ Push(Guest)
CallbackReturn == Pop({Guest})
Return         == Pop(InHost)

(* A signal interrupts guest code only.                                    *)
Signal    == Runs(InGuest) /\ Push(Handler)
Sigreturn == Pop({Handler})

Longjmp ==
  /\ Runs(InGuest)
  /\ \E p \in DOMAIN acts :
       acts[p] \in InGuest /\ acts' = [x \in {y \in DOMAIN acts : y <= p} |-> acts[x]]

End == alive' = FALSE /\ UNCHANGED acts

Next ==
  /\ alive = TRUE
  /\ \/ /\ UNCHANGED alive
        /\ \/ \E q \in Qlib : Call(q)
           \/ Callback \/ CallbackReturn \/ Return
           \/ Signal \/ Sigreturn
           \/ Longjmp
     \/ End

Spec == Init /\ [][Next]_vars
=============================================================================
