------------------------------- MODULE FcpCm -------------------------------
(***************************************************************************)
(* FCP-CM, calls from the host half of one module to the host half of      *)
(* another without a callback.  ChopOff puts two words before a guest      *)
(* function, a magic number and its number in the table; the constructor   *)
(* (gyh_do_ctor_fcp_cm) replaces the number by the address of the host     *)
(* function, and the magic by its xor with that address.  Host code with a *)
(* pointer to a guest function compares the two words (TakeOut::do_fcp_cm) *)
(* and, if they fit, calls the address it finds there.                     *)
(*                                                                         *)
(* The words are those of the functions' prefixes only.  Addresses count   *)
(* words.  A magic word is given by what the magic number is xor'ed with.  *)
(* Destruct is the request of __gyh_dtor__, which x86_64 does not make.    *)
(***************************************************************************)
EXTENDS Integers, Sequences

CONSTANTS
  Module,     \* guest modules
  Table,      \* Table[m]: the functions of Symtbl::mFunctbl, by their numbers
  PageSize,   \* words
  Programs    \* the ways in which the modules may be compiled and linked

Fn == UNION {{Table[m][n] : n \in DOMAIN Table[m]} : m \in Module}

Home(f)   == CHOOSE m \in Module : \E n \in DOMAIN Table[m] : Table[m][n] = f
Number(f) == CHOOSE n \in DOMAIN Table[Home(f)] : Table[Home(f)][n] = f

PageOf(a) == a \div PageSize

ASSUME FcpCmAssumption ==
  /\ Table \in [Module -> Seq(Fn)]
  /\ \A m, o \in Module : \A k \in DOMAIN Table[m] : \A l \in DOMAIN Table[o] :
       Table[m][k] = Table[o][l] => m = o /\ k = l
  /\ PageSize \in Nat \ {0}
  /\ Programs \subseteq [addr: [Fn -> Nat], bind: [Fn -> Fn], left: SUBSET Fn, bare: SUBSET Fn]
  /\ \A p \in Programs : \A f \in Fn : p.addr[f] >= 2

(* The dynamic linker binds a name to one definition, and so the definition to
   itself.  Modules are mapped to pages of their own.                      *)
ASSUME LinkAssumption ==
  \A p \in Programs :
    /\ \A f \in Fn : p.bind[p.bind[f]] = p.bind[f]
    /\ \A f, g \in Fn : Home(f) # Home(g) =>
         PageOf(p.addr[g]) < PageOf(p.addr[f] - 2) \/ PageOf(p.addr[f]) < PageOf(p.addr[g])

VARIABLES
  prog,       \* the program
  state,      \* state[m]: of module m
  text,       \* text[f]: the two words before f
  writable,   \* writable[m]: pages of its text made writable
  i,          \* the index of the constructor's loop
  pageBegin, pageEnd,   \* its range of pages
  unprotected,\* every mprotect succeeded
  last,       \* the call made last
  end         \* how the process ended

addr == prog.addr   \* where the functions are
Bind == prog.bind   \* Bind[f]: the definition that the dynamic linker binds f to
Left == prog.left   \* functions of take-out's black list: null in __gyh_functbl_*
Bare == prog.bare   \* functions without the prefix of FCP-CM

ctorVars == <<i, pageBegin, pageEnd>>
vars == <<prog, state, text, writable, ctorVars, unprotected, last, end>>

(* What a word can hold: a number or the address of f's host function.     *)
Num(n)  == <<"number", n>>
Host(f) == <<"host", f>>
NULL    == Num(0)
Other   == <<"other", 0>>

(* calc_benefits: the prefix as it is linked.  The first number is 0.      *)
RawPrefix(f) ==
  IF f \in Bare THEN [magic |-> Other, id |-> Other]
  ELSE [magic |-> Num(0), id |-> Num(Number(f) - 1)]

NoCall == [f |-> "none", to |-> NULL, by |-> "none"]

Init ==
  /\ prog \in Programs
  /\ state = [m \in Module |-> "loaded"]
  /\ text = [f \in Fn |-> RawPrefix(f)]
  /\ writable = [m \in Module |-> {}]
  /\ i = 0 /\ pageBegin = 0 /\ pageEnd = 0
  /\ unprotected = TRUE /\ last = NoCall /\ end = "no"

-----------------------------------------------------------------------------
(* gyh_do_ctor_fcp_cm, the library being open: the loop that patches the
   prefixes, one iteration a step.  No other request is served meanwhile.  *)
Patching == {m \in Module : state[m] = "patching"}

Construct(m) ==
  /\ end = "no" /\ Patching = {} /\ state[m] = "loaded"
  /\ state' = [state EXCEPT ![m] = "patching"]
  /\ i' = 0 /\ pageBegin' = 0 /\ pageEnd' = 0
  /\ last' = NoCall
  /\ UNCHANGED <<prog, text, writable, unprotected, end>>

Mut_Down(a) == a - PageSize
Down(a) == PageOf(a) * PageSize
Pages(from, to) == {PageOf(a) : a \in from..(to - 1)}

(* The range in hand does not cover the prefix.                            *)
Mut_BeginOnly(g)   == addr[g] - 2 < pageBegin
Outside(g)         == addr[g] - 2 < pageBegin \/ addr[g] >= pageEnd

Mut_SwappedWrites(f, g) == [text EXCEPT ![g] = [magic |-> @.id, id |-> Host(f)]]
Patched(f, g) ==
  LET id == IF f \in Left THEN NULL ELSE Host(f)
  IN  [text EXCEPT ![g] = [magic |-> id, id |-> id]]

Mut_WrongWord(g) == text[g].id # Num(0)
BadMagic(g) == text[g].magic # Num(0)

Die(how) == end' = how /\ UNCHANGED <<text, i, state>>

Patch(m) ==
  /\ end = "no" /\ state[m] = "patching" /\ i < Len(Table[m])
  /\ LET f == Table[m][i + 1]
         g == Bind[f]
     IN  IF BadMagic(g)
         THEN Die("badMagic") /\ UNCHANGED <<writable, pageBegin, pageEnd, unprotected>>
         ELSE /\ IF Outside(g)
                 THEN /\ pageBegin' = Down(addr[g] - 2)
                      /\ pageEnd' = Down(addr[g] + PageSize)
                      /\ \/ /\ writable' = [writable EXCEPT ![Home(g)] = @ \cup Pages(pageBegin', pageEnd')]
                            /\ UNCHANGED unprotected
                         \/ unprotected' = FALSE /\ UNCHANGED writable
                 ELSE UNCHANGED <<writable, pageBegin, pageEnd, unprotected>>
              /\ IF {PageOf(addr[g] - 1), PageOf(addr[g] - 2)} \subseteq writable'[Home(g)]
                 THEN text' = Patched(f, g) /\ i' = i + 1 /\ UNCHANGED <<state, end>>
                 ELSE Die("fault")
  /\ UNCHANGED <<prog, last>>

Constructed(m) ==
  /\ end = "no" /\ state[m] = "patching" /\ i = Len(Table[m])
  /\ state' = [state EXCEPT ![m] = "ready"]
  /\ UNCHANGED <<prog, text, writable, ctorVars, unprotected, last, end>>

(* gyh_dtor closes the library and leaves the prefixes as they are.        *)
Destruct(m) ==
  /\ end = "no" /\ Patching = {} /\ state[m] = "ready"
  /\ state' = [state EXCEPT ![m] = "closed"]
  /\ last' = NoCall
  /\ UNCHANGED <<prog, text, writable, ctorVars, unprotected, end>>

(* The guest unloads a module, and loads it again: its text is mapped anew.
   (A definition that others are bound to stays.)                          *)
Mine(m) == {f \in Fn : Home(f) = m}
FreshText(m) == [f \in Fn |-> IF f \in Mine(m) THEN RawPrefix(f) ELSE text[f]]
Reload(m) ==
  /\ end = "no" /\ Patching = {} /\ state[m] = "closed"
  /\ \A f \in Fn : Bind[f] \in Mine(m) => f \in Mine(m)
  /\ state' = [state EXCEPT ![m] = "loaded"]
  /\ text' = FreshText(m)
  /\ writable' = [writable EXCEPT ![m] = {}]
  /\ last' = NoCall
  /\ UNCHANGED <<prog, ctorVars, unprotected, end>>

(* do_fcp_cm: host code of m calls the guest function at addr[g].          *)
Fits(g) == text[g].magic = text[g].id /\ text[g].magic # Other

HostCalls(m, g) ==
  /\ end = "no" /\ Patching = {} /\ state[m] = "ready" /\ g \in {Bind[f] : f \in Fn}
  /\ last' = IF Fits(g) THEN [f |-> g, to |-> text[g].id, by |-> "fast"]
             ELSE [f |-> g, to |-> NULL, by |-> "callback"]
  /\ UNCHANGED <<prog, state, text, writable, ctorVars, unprotected, end>>

Ended == end # "no" /\ UNCHANGED vars

Next ==
  \/ \E m \in Module : Construct(m) \/ Patch(m) \/ Constructed(m) \/ Destruct(m) \/ Reload(m)
  \/ \E m \in Module, g \in Fn : HostCalls(m, g)
  \/ Ended

Spec == Init /\ [][Next]_vars

-----------------------------------------------------------------------------
(* The variables have their types; a prefix holds what was linked, or what
   some constructor wrote.                                                 *)
Word   == ({"number"} \X Nat) \cup ({"host"} \X Fn) \cup {Other}
TypeOK ==
  /\ addr \in [Fn -> Nat] /\ Bind \in [Fn -> Fn] /\ Left \subseteq Fn /\ Bare \subseteq Fn
  /\ state \in [Module -> {"loaded", "patching", "ready", "closed"}]
  /\ text \in [Fn -> [magic: Word, id: Word]]
  /\ writable \in [Module -> SUBSET Nat]
  /\ i \in Nat /\ pageBegin \in Nat /\ pageEnd \in Nat
  /\ \A m \in Patching : i <= Len(Table[m])
  /\ unprotected \in BOOLEAN
  /\ last \in {NoCall} \cup [f: Fn, to: Word, by: {"fast", "callback"}]
  /\ end \in {"no", "badMagic", "fault"}

(* Wherever the functions lie in their pages and in whichever order the table
   has them, the constructor writes to pages that it made writable before,
   unless mprotect, whose result it does not look at, failed.              *)
PatchNeverFaults == end = "fault" => ~unprotected

BoundTo(g) == {f \in Fn : Bind[f] = g}

(* Host code that calls a function of a constructed module takes the fast
   path, to the function's own host half in a library that is open, unless
   take-out left the function to the guest: through constructions,
   destructions and reloads of the modules in any order.                   *)
FastCallsOwn ==
  last # NoCall /\ state[Home(last.f)] = "ready" /\ BoundTo(last.f) \cap Left = {} =>
    /\ last.by = "fast"
    /\ \E f \in BoundTo(last.f) : last.to = Host(f) /\ state[Home(f)] = "ready"

(* The constructor stops at a magic number only because of a function that
   ChopOff put none before, or of a definition that two modules are bound to,
   which the first of their constructors has patched already.              *)
AbortExplained ==
  end = "badMagic" => \/ {Bind[f] : f \in Fn} \cap Bare # {}
                      \/ \E f, h \in Fn : f # h /\ Bind[f] = Bind[h]

(* do_fcp_cm: if the check succeeds, the target function is called directly,
   and otherwise through a callback.  A function whose module was not
   constructed yet has no host function to call.                           *)
UnpatchedCallsBack ==
  last # NoCall /\ (\A f \in BoundTo(last.f) : state[Home(f)] = "loaded") => last.by = "callback"

=============================================================================
