---------------------------- MODULE FcpCmProofs ----------------------------
(***************************************************************************)
(* The constructor of FCP-CM patches what it may write to, and host code   *)
(* that finds a patched prefix calls the right function: for any modules,  *)
(* tables, layouts, bindings and page sizes.                               *)
(***************************************************************************)
EXTENDS FcpCm, TLAPS

(* The range of pages in hand is empty, or that of one function.           *)
RangeOf(g) ==
  /\ pageBegin = Down(addr[g] - 2) /\ pageEnd = Down(addr[g] + PageSize)
  /\ Pages(pageBegin, pageEnd) \subseteq writable[Home(g)]
RangeFits ==
  unprotected /\ Patching # {} => (pageBegin = 0 /\ pageEnd = 0) \/ \E g \in Fn : RangeOf(g)

OnePatches == \A m, o \in Patching : m = o

(* The constructor of f's module has reached f; it is still to reach f.    *)
Reached(f) == state[Home(f)] = "ready" \/ (state[Home(f)] = "patching" /\ Number(f) <= i)
Ahead(f)   == state[Home(f)] = "loaded" \/ (state[Home(f)] = "patching" /\ i < Number(f))

(* What a constructor wrote stays until its module is loaded again: a second
   constructor stops at the word.                                          *)
HostPrefix(f) == [magic |-> Host(f), id |-> Host(f)]
PatchesKept   == \A f \in Fn : Reached(f) /\ f \notin Left => text[Bind[f]] = HostPrefix(f)

(* What is still to be patched is as it was linked, unless it is shared.   *)
Shared(f)  == \E h \in Fn : h # f /\ Bind[h] = Bind[f]
RawAhead   == \A f \in Fn : Ahead(f) => text[Bind[f]] = RawPrefix(Bind[f]) \/ Shared(f)

(* The last call was made with the prefixes as they are.                   *)
CallTo(g) == IF Fits(g) THEN [f |-> g, to |-> text[g].id, by |-> "fast"]
             ELSE [f |-> g, to |-> NULL, by |-> "callback"]
LastFits  == last # NoCall => Patching = {} /\ \E f \in Fn : last = CallTo(Bind[f])

PatchInv ==
  /\ prog \in Programs /\ TypeOK
  /\ OnePatches /\ RangeFits /\ PatchesKept /\ RawAhead /\ LastFits
  /\ PatchNeverFaults /\ AbortExplained

-----------------------------------------------------------------------------
(* The tables: every function has a place in one of them, and only one.    *)
LEMMA TableTypes ==
  ASSUME NEW m \in Module
  PROVE  Table[m] \in Seq(Fn) /\ Len(Table[m]) \in Nat /\ DOMAIN Table[m] = 1..Len(Table[m])
<1>1. Table[m] \in Seq(Fn)
  BY FcpCmAssumption
<1> QED BY <1>1

LEMMA TableInjective ==
  ASSUME NEW m \in Module, NEW o \in Module, NEW k \in DOMAIN Table[m], NEW l \in DOMAIN Table[o],
         Table[m][k] = Table[o][l]
  PROVE  m = o /\ k = l
  BY FcpCmAssumption

LEMMA HomeNumber ==
  ASSUME NEW f \in Fn
  PROVE  /\ Home(f) \in Module /\ Number(f) \in 1..Len(Table[Home(f)])
         /\ Table[Home(f)][Number(f)] = f
<1>1. \E m \in Module : \E n \in DOMAIN Table[m] : Table[m][n] = f
  BY DEF Fn
<1>2. Home(f) \in Module /\ \E n \in DOMAIN Table[Home(f)] : Table[Home(f)][n] = f
  BY <1>1 DEF Home
<1>3. Number(f) \in DOMAIN Table[Home(f)] /\ Table[Home(f)][Number(f)] = f
  BY <1>2 DEF Number
<1> QED BY <1>2, <1>3, TableTypes

LEMMA TableEntry ==
  ASSUME NEW m \in Module, NEW n \in 1..Len(Table[m])
  PROVE  Table[m][n] \in Fn /\ Home(Table[m][n]) = m /\ Number(Table[m][n]) = n
<1>1. n \in DOMAIN Table[m]
  BY TableTypes
<1>2. Table[m][n] \in Fn
  BY <1>1 DEF Fn
<1>3. /\ Home(Table[m][n]) \in Module
      /\ Number(Table[m][n]) \in DOMAIN Table[Home(Table[m][n])]
      /\ Table[Home(Table[m][n])][Number(Table[m][n])] = Table[m][n]
  BY <1>2, HomeNumber, TableTypes
<1> QED BY <1>1, <1>2, <1>3, TableInjective

(* What a program is made of.                                              *)
LEMMA ProgTypes ==
  ASSUME prog \in Programs
  PROVE  /\ addr \in [Fn -> Nat] /\ Bind \in [Fn -> Fn] /\ Left \subseteq Fn /\ Bare \subseteq Fn
         /\ \A f \in Fn : addr[f] >= 2
  BY FcpCmAssumption DEF addr, Bind, Left, Bare

LEMMA ProgLinked ==
  ASSUME prog \in Programs, NEW f \in Fn
  PROVE  /\ Bind[Bind[f]] = Bind[f]
         /\ \A g \in Fn : Home(f) # Home(g) =>
              PageOf(addr[g]) < PageOf(addr[f] - 2) \/ PageOf(addr[f]) < PageOf(addr[g])
  BY LinkAssumption DEF addr, Bind

(* Pages: an address lies in its page, and pages follow each other.        *)
LEMMA PageSizeType == PageSize \in Nat /\ PageSize > 0
<1>1. PageSize \in Nat \ {0}
  BY FcpCmAssumption
<1> QED BY <1>1

LEMMA PageBounds ==
  ASSUME NEW a \in Nat
  PROVE  PageOf(a) \in Nat /\ Down(a) \in Nat /\ Down(a) <= a /\ a < Down(a) + PageSize
<1> DEFINE P == PageSize
<1>1. P \in Nat /\ P > 0
  BY PageSizeType
<1> HIDE DEF P
<1>2. a \div P \in Nat /\ (a \div P) * P \in Nat /\ (a \div P) * P <= a /\ a < (a \div P) * P + P
  BY <1>1
<1> QED BY <1>2 DEF PageOf, Down, P

LEMMA PageOrder ==
  ASSUME NEW x \in Nat, NEW y \in Nat, x * PageSize < y * PageSize + PageSize
  PROVE  x <= y
<1> DEFINE P == PageSize
<1>1. P \in Nat /\ P > 0
  BY PageSizeType
<1> HIDE DEF P
<1>2. x * P < (y + 1) * P
  BY <1>1 DEF P
<1>3. ASSUME x >= y + 1 PROVE FALSE
  <2>1. x * P >= (y + 1) * P
    BY <1>1, <1>3
  <2> QED BY <1>1, <1>2, <2>1
<1> QED BY <1>3

LEMMA PageAfter ==
  ASSUME NEW a \in Nat, NEW b \in Nat, Down(a) <= b
  PROVE  PageOf(a) <= PageOf(b)
<1>1. PageOf(a) * PageSize < PageOf(b) * PageSize + PageSize /\ PageOf(a) \in Nat /\ PageOf(b) \in Nat
  BY PageBounds, PageSizeType DEF Down
<1> QED BY <1>1, PageOrder

LEMMA NextPage ==
  ASSUME NEW a \in Nat
  PROVE  Down(a + PageSize) = Down(a) + PageSize
<1> DEFINE P == PageSize
<1>1. P \in Nat /\ P > 0
  BY PageSizeType
<1> HIDE DEF P
<1>2. (a + P) \div P = a \div P + 1
  BY <1>1
<1>3. (a \div P + 1) * P = (a \div P) * P + P
  <2>1. a \div P \in Nat
    BY <1>1
  <2> QED BY <1>1, <2>1
<1> QED BY <1>2, <1>3 DEF PageOf, Down, P

-----------------------------------------------------------------------------
LEMMA WordTypes ==
  /\ \A n \in Nat : Num(n) \in Word
  /\ \A f \in Fn : Host(f) \in Word
  /\ Other \in Word /\ NULL \in Word
  BY DEF Num, Host, Other, NULL, Word

LEMMA RawPrefixType == \A f \in Fn : RawPrefix(f) \in [magic: Word, id: Word]
<1> SUFFICES ASSUME NEW f \in Fn PROVE RawPrefix(f) \in [magic: Word, id: Word]
  OBVIOUS
<1>1. Number(f) - 1 \in Nat
  BY HomeNumber, TableTypes
<1> QED BY <1>1, WordTypes DEF RawPrefix

LEMMA PatchInit == Init => PatchInv
<1> SUFFICES ASSUME Init PROVE PatchInv
  OBVIOUS
<1>1. prog \in Programs /\ Patching = {} /\ end = "no" /\ last = NoCall
  BY DEF Init, Patching
<1>2. addr \in [Fn -> Nat] /\ Bind \in [Fn -> Fn] /\ Left \subseteq Fn /\ Bare \subseteq Fn
  BY <1>1, ProgTypes
<1>3. text \in [Fn -> [magic: Word, id: Word]]
  BY RawPrefixType DEF Init
<1>4. /\ state \in [Module -> {"loaded", "patching", "ready", "closed"}]
      /\ writable \in [Module -> SUBSET Nat]
      /\ unprotected \in BOOLEAN /\ i \in Nat /\ pageBegin \in Nat /\ pageEnd \in Nat
  BY DEF Init
<1>5. TypeOK
  BY <1>1, <1>2, <1>3, <1>4 DEF TypeOK
<1>6. PatchesKept
  BY HomeNumber DEF PatchesKept, Reached, Init
<1>7. RawAhead
  BY <1>2 DEF RawAhead, Init
<1> QED BY <1>1, <1>5, <1>6, <1>7
        DEF PatchInv, OnePatches, RangeFits, LastFits, PatchNeverFaults, AbortExplained

(* A step that writes no prefix, and takes no function back.               *)
LEMMA TextKept ==
  ASSUME PatchInv, UNCHANGED <<prog, text>>,
         \A f \in Fn : (Reached(f)' => Reached(f)) /\ (Ahead(f)' => Ahead(f))
  PROVE  PatchesKept' /\ RawAhead'
<1>1. PatchesKept'
  BY DEF PatchInv, PatchesKept, HostPrefix, Left, Bind
<1>2. RawAhead'
  BY DEF PatchInv, RawAhead, RawPrefix, Shared, Bind, Bare
<1> QED BY <1>1, <1>2

(* The types of what a program fixes.                                      *)
LEMMA ProgKept ==
  ASSUME PatchInv, UNCHANGED prog
  PROVE  /\ prog' \in Programs
         /\ (addr \in [Fn -> Nat] /\ Bind \in [Fn -> Fn] /\ Left \subseteq Fn /\ Bare \subseteq Fn)'
  BY DEF PatchInv, TypeOK, addr, Bind, Left, Bare

LEMMA ConstructKeeps ==
  ASSUME PatchInv, NEW m \in Module, Construct(m)
  PROVE  PatchInv'
<1>1. /\ end = "no" /\ Patching = {} /\ state[m] = "loaded"
      /\ state' = [state EXCEPT ![m] = "patching"]
      /\ i' = 0 /\ pageBegin' = 0 /\ pageEnd' = 0 /\ last' = NoCall
      /\ UNCHANGED <<prog, text, writable, unprotected, end>>
  BY DEF Construct
<1>2. /\ state' \in [Module -> {"loaded", "patching", "ready", "closed"}]
      /\ \A o \in Module : state'[o] = IF o = m THEN "patching" ELSE state[o]
  BY <1>1 DEF PatchInv, TypeOK
<1>3. Patching' = {m}
  BY <1>1, <1>2 DEF Patching
<1>4. TypeOK'
  <2>1. \A o \in Patching' : i' <= Len(Table[o])
    BY <1>1, <1>3, TableTypes
  <2> QED BY <1>1, <1>2, <2>1, ProgKept DEF PatchInv, TypeOK
<1>5. PatchesKept' /\ RawAhead'
  <2>1. ASSUME NEW f \in Fn
        PROVE  (Reached(f)' => Reached(f)) /\ (Ahead(f)' => Ahead(f))
    <3>1. Home(f) \in Module /\ Number(f) \in Nat /\ Number(f) > 0
      BY HomeNumber, TableTypes
    <3> QED BY <1>1, <1>2, <3>1 DEF Reached, Ahead, Patching
  <2> QED BY <1>1, <2>1, TextKept
<1> QED BY <1>1, <1>3, <1>4, <1>5, ProgKept
        DEF PatchInv, OnePatches, RangeFits, LastFits, PatchNeverFaults, AbortExplained

(* Constructed, Destruct: the state of one module changes.                 *)
LEMMA StateKeeps ==
  ASSUME PatchInv, NEW m \in Module, NEW st \in {"ready", "closed"},
         st = "ready" => state[m] = "patching" /\ i = Len(Table[m]),
         st = "closed" => Patching = {} /\ last' = NoCall,
         last' \in {last, NoCall},
         state' = [state EXCEPT ![m] = st],
         UNCHANGED <<prog, text, writable, ctorVars, unprotected, end>>
  PROVE  PatchInv'
<1>1. UNCHANGED <<prog, text, writable, i, pageBegin, pageEnd, unprotected, end>>
  BY DEF ctorVars
<1>2. /\ state' \in [Module -> {"loaded", "patching", "ready", "closed"}]
      /\ \A o \in Module : state'[o] = IF o = m THEN st ELSE state[o]
  BY DEF PatchInv, TypeOK
<1>3. Patching' \subseteq Patching
  BY <1>2 DEF Patching
<1>4. last' = NoCall
  BY DEF PatchInv, LastFits, Patching
<1>5. TypeOK'
  BY <1>1, <1>2, <1>3, <1>4, ProgKept DEF PatchInv, TypeOK
<1>6. PatchesKept' /\ RawAhead'
  <2>1. ASSUME NEW f \in Fn
        PROVE  (Reached(f)' => Reached(f)) /\ (Ahead(f)' => Ahead(f))
    <3>1. Home(f) \in Module /\ Number(f) \in 1..Len(Table[Home(f)]) /\ Len(Table[Home(f)]) \in Nat
      BY HomeNumber, TableTypes
    <3> QED BY <1>1, <1>2, <3>1 DEF Reached, Ahead
  <2> QED BY <1>1, <2>1, TextKept
<1>7. OnePatches'
  BY <1>3 DEF PatchInv, OnePatches
<1>8. RangeFits'
  BY <1>1, <1>3 DEF PatchInv, RangeFits, RangeOf, Pages, Down, PageOf, addr
<1>9. PatchNeverFaults' /\ AbortExplained'
  BY <1>1 DEF PatchInv, PatchNeverFaults, AbortExplained, Bind, Bare
<1> QED BY <1>4, <1>5, <1>6, <1>7, <1>8, <1>9, ProgKept, <1>1 DEF PatchInv, LastFits

(* A reload restores the prefixes of its module.  A function of the module
   that is bound elsewhere shares the definition with another one.         *)
LEMMA ReloadKeeps ==
  ASSUME PatchInv, NEW m \in Module, Reload(m)
  PROVE  PatchInv'
<1>1. /\ end = "no" /\ Patching = {} /\ state[m] = "closed" /\ last' = NoCall
      /\ \A f \in Fn : Bind[f] \in Mine(m) => f \in Mine(m)
      /\ state' = [state EXCEPT ![m] = "loaded"] /\ text' = FreshText(m)
      /\ writable' = [writable EXCEPT ![m] = {}]
      /\ UNCHANGED <<prog, i, pageBegin, pageEnd, unprotected, end>>
  BY DEF Reload, ctorVars
<1>2. /\ state' \in [Module -> {"loaded", "patching", "ready", "closed"}]
      /\ writable' \in [Module -> SUBSET Nat]
      /\ \A o \in Module : state'[o] = IF o = m THEN "loaded" ELSE state[o]
  BY <1>1 DEF PatchInv, TypeOK
<1>3. Patching' = {}
  BY <1>1, <1>2 DEF Patching
<1>4. /\ text' \in [Fn -> [magic: Word, id: Word]]
      /\ \A f \in Fn : text'[f] = IF Home(f) = m THEN RawPrefix(f) ELSE text[f]
  BY <1>1, RawPrefixType DEF FreshText, Mine, PatchInv, TypeOK
<1>5. TypeOK'
  BY <1>1, <1>2, <1>3, <1>4, ProgKept DEF PatchInv, TypeOK
<1>6. Bind' = Bind /\ Left' = Left /\ Bare' = Bare /\ Bind \in [Fn -> Fn]
  BY <1>1, ProgTypes DEF PatchInv, Bind, Left, Bare
<1>7. PatchesKept'
  <2> SUFFICES ASSUME NEW f \in Fn, Reached(f)', f \notin Left
               PROVE  text'[Bind[f]] = HostPrefix(f)
    BY <1>6 DEF PatchesKept, HostPrefix
  <2>1. Home(f) # m /\ Reached(f)
    BY <1>1, <1>2, HomeNumber DEF Reached
  <2>2. Home(Bind[f]) # m /\ Bind[f] \in Fn
    BY <1>1, <1>6, <2>1 DEF Mine
  <2> QED BY <1>4, <2>1, <2>2 DEF PatchInv, PatchesKept
<1>8. RawAhead'
  <2> SUFFICES ASSUME NEW f \in Fn, Ahead(f)'
               PROVE  text'[Bind[f]] = RawPrefix(Bind[f]) \/ Shared(f)
    BY <1>6 DEF RawAhead, RawPrefix, Shared
  <2>1. CASE Home(Bind[f]) = m
    BY <1>4, <1>6, <2>1
  <2>2. CASE Home(Bind[f]) # m /\ Home(f) = m
    BY <1>6, <2>2, ProgLinked DEF PatchInv, Shared
  <2>3. CASE Home(Bind[f]) # m /\ Home(f) # m
    <3>1. Ahead(f)
      BY <1>1, <1>2, <2>3, HomeNumber DEF Ahead
    <3> QED BY <1>4, <1>6, <2>3, <3>1 DEF PatchInv, RawAhead
  <2> QED BY <2>1, <2>2, <2>3
<1> QED BY <1>1, <1>3, <1>5, <1>7, <1>8, ProgKept
        DEF PatchInv, OnePatches, RangeFits, LastFits, PatchNeverFaults, AbortExplained

LEMMA HostCallsKeeps ==
  ASSUME PatchInv, NEW m \in Module, NEW g \in Fn, HostCalls(m, g)
  PROVE  PatchInv'
<1>1. /\ Patching = {} /\ g \in {Bind[f] : f \in Fn} /\ last' = CallTo(g) /\ end = "no"
      /\ UNCHANGED <<prog, state, text, writable, i, pageBegin, pageEnd, unprotected, end>>
  BY DEF HostCalls, CallTo, ctorVars
<1>2. Patching' = {}
  BY <1>1 DEF Patching
<1>3. last' \in [f: Fn, to: Word, by: {"fast", "callback"}]
  BY <1>1, WordTypes DEF CallTo, PatchInv, TypeOK
<1>4. TypeOK'
  BY <1>1, <1>2, <1>3, ProgKept DEF PatchInv, TypeOK
<1>5. LastFits'
  <2>1. PICK f \in Fn : g = Bind[f]
    BY <1>1
  <2>2. last' = CallTo(Bind[f])'
    BY <1>1, <2>1 DEF CallTo, Fits, Bind
  <2> QED BY <1>2, <2>2 DEF LastFits
<1>6. PatchesKept' /\ RawAhead'
  <2>1. \A f \in Fn : (Reached(f)' => Reached(f)) /\ (Ahead(f)' => Ahead(f))
    BY <1>1 DEF Reached, Ahead
  <2> QED BY <1>1, <2>1, TextKept
<1> QED BY <1>1, <1>2, <1>4, <1>5, <1>6, ProgKept
        DEF PatchInv, OnePatches, RangeFits, PatchNeverFaults, AbortExplained

-----------------------------------------------------------------------------
(* The range that the constructor computes for g covers the prefix of g.   *)
LEMMA RangeCovers ==
  ASSUME PatchInv, NEW g \in Fn, NEW from \in Nat, NEW to \in Nat,
         from <= addr[g] - 2, addr[g] < to
  PROVE  {PageOf(addr[g] - 1), PageOf(addr[g] - 2)} \subseteq Pages(from, to)
<1>1. addr[g] \in Nat /\ addr[g] >= 2
  BY ProgTypes DEF PatchInv
<1>2. addr[g] - 1 \in from..(to - 1) /\ addr[g] - 2 \in from..(to - 1)
  BY <1>1
<1> QED BY <1>2 DEF Pages

LEMMA OwnRange ==
  ASSUME PatchInv, NEW g \in Fn
  PROVE  /\ Down(addr[g] - 2) \in Nat /\ Down(addr[g] + PageSize) \in Nat
         /\ Down(addr[g] - 2) <= addr[g] - 2 /\ addr[g] < Down(addr[g] + PageSize)
<1>1. addr[g] \in Nat /\ addr[g] - 2 \in Nat
  BY ProgTypes DEF PatchInv
<1>2. /\ Down(addr[g] - 2) \in Nat /\ Down(addr[g] - 2) <= addr[g] - 2
      /\ Down(addr[g]) \in Nat /\ addr[g] < Down(addr[g]) + PageSize
  BY <1>1, PageBounds
<1>3. Down(addr[g] + PageSize) = Down(addr[g]) + PageSize
  BY <1>1, NextPage
<1> QED BY <1>2, <1>3, PageSizeType

(* A function in the range of another one is of the same module.           *)
LEMMA SameModule ==
  ASSUME PatchInv, NEW g \in Fn, NEW h \in Fn,
         Down(addr[h] - 2) <= addr[g] - 2, addr[g] < Down(addr[h] + PageSize)
  PROVE  Home(g) = Home(h)
<1>1. addr[g] \in Nat /\ addr[g] >= 2 /\ addr[h] \in Nat /\ addr[h] - 2 \in Nat
  BY ProgTypes DEF PatchInv
<1>2. PageOf(addr[h] - 2) <= PageOf(addr[g])
  <2>1. Down(addr[h] - 2) <= addr[g]
    BY <1>1, PageBounds
  <2> QED BY <1>1, <2>1, PageAfter
<1>3. PageOf(addr[g]) <= PageOf(addr[h])
  <2>1. Down(addr[g]) <= addr[g] /\ Down(addr[g]) \in Nat /\ Down(addr[h]) \in Nat
    BY <1>1, PageBounds
  <2>2. Down(addr[h] + PageSize) = Down(addr[h]) + PageSize
    BY <1>1, NextPage
  <2>3. PageOf(addr[g]) * PageSize < PageOf(addr[h]) * PageSize + PageSize
    BY <1>1, <2>1, <2>2, PageSizeType DEF Down
  <2>4. PageOf(addr[g]) \in Nat /\ PageOf(addr[h]) \in Nat
    BY <1>1, PageBounds
  <2> QED BY <2>3, <2>4, PageOrder
<1>4. PageOf(addr[h] - 2) \in Nat /\ PageOf(addr[g]) \in Nat /\ PageOf(addr[h]) \in Nat
  BY <1>1, PageBounds
<1> QED BY <1>2, <1>3, <1>4, ProgLinked DEF PatchInv

PrefixPages(g) == {PageOf(addr[g] - 1), PageOf(addr[g] - 2)}

(* After the test of the range, and mprotect if it is called, the prefix of g
   is in pages that are writable, unless mprotect failed.                  *)
LEMMA RangeStep ==
  ASSUME PatchInv, NEW m \in Patching, NEW g \in Fn, UNCHANGED <<prog, state>>,
         IF Outside(g)
         THEN /\ pageBegin' = Down(addr[g] - 2)
              /\ pageEnd' = Down(addr[g] + PageSize)
              /\ \/ /\ writable' = [writable EXCEPT ![Home(g)] = @ \cup Pages(pageBegin', pageEnd')]
                    /\ UNCHANGED unprotected
                 \/ unprotected' = FALSE /\ UNCHANGED writable
         ELSE UNCHANGED <<writable, pageBegin, pageEnd, unprotected>>
  PROVE  /\ writable' \in [Module -> SUBSET Nat] /\ unprotected' \in BOOLEAN
         /\ pageBegin' \in Nat /\ pageEnd' \in Nat
         /\ unprotected' => unprotected /\ PrefixPages(g) \subseteq writable'[Home(g)]
         /\ RangeFits'
<1>1. addr' = addr /\ Patching' = Patching
  BY DEF addr, Patching
<1>2. /\ writable \in [Module -> SUBSET Nat] /\ unprotected \in BOOLEAN /\ Home(g) \in Module
      /\ pageBegin \in Nat /\ pageEnd \in Nat /\ addr[g] \in Nat /\ addr[g] >= 2
  BY HomeNumber, ProgTypes DEF PatchInv, TypeOK
<1>3. CASE Outside(g)
  <2>1. pageBegin' \in Nat /\ pageEnd' \in Nat /\ pageBegin' <= addr[g] - 2 /\ addr[g] < pageEnd'
    BY <1>3, OwnRange
  <2>2. PrefixPages(g) \subseteq Pages(pageBegin', pageEnd')
    BY <2>1, RangeCovers DEF PrefixPages
  <2>3. Pages(pageBegin', pageEnd') \subseteq Nat
    <3> SUFFICES ASSUME NEW a \in pageBegin'..(pageEnd' - 1) PROVE PageOf(a) \in Nat
      BY DEF Pages
    <3>1. a \in Nat
      BY <2>1
    <3> QED BY <3>1, PageBounds
  <2>4. CASE /\ writable' = [writable EXCEPT ![Home(g)] = @ \cup Pages(pageBegin', pageEnd')]
             /\ UNCHANGED unprotected
    <3>1. /\ writable' \in [Module -> SUBSET Nat]
          /\ writable'[Home(g)] = writable[Home(g)] \cup Pages(pageBegin', pageEnd')
      BY <1>2, <2>3, <2>4
    <3>2. RangeOf(g)'
      BY <1>1, <1>3, <3>1 DEF RangeOf, Down, PageOf, Pages
    <3> QED BY <1>2, <2>1, <2>2, <2>4, <3>1, <3>2 DEF RangeFits
  <2>5. CASE unprotected' = FALSE /\ UNCHANGED writable
    BY <1>2, <2>1, <2>5 DEF RangeFits
  <2> QED BY <1>3, <2>4, <2>5
<1>4. CASE ~Outside(g)
  <2>1. UNCHANGED <<writable, pageBegin, pageEnd, unprotected>>
    BY <1>4
  <2>2. pageBegin <= addr[g] - 2 /\ addr[g] < pageEnd
    BY <1>2, <1>4 DEF Outside
  <2>3. RangeFits'
    BY <1>1, <2>1 DEF PatchInv, RangeFits, RangeOf, Down, PageOf, Pages
  <2>4. ASSUME unprotected PROVE PrefixPages(g) \subseteq writable[Home(g)]
    <3>1. PICK h \in Fn : RangeOf(h)
      BY <1>2, <2>2, <2>4 DEF PatchInv, RangeFits
    <3>2. Home(g) = Home(h)
      BY <2>2, <3>1, SameModule DEF RangeOf
    <3>3. PrefixPages(g) \subseteq Pages(pageBegin, pageEnd)
      BY <1>2, <2>2, RangeCovers DEF PrefixPages
    <3> QED BY <3>1, <3>2, <3>3 DEF RangeOf
  <2> QED BY <1>2, <2>1, <2>3, <2>4
<1> QED BY <1>3, <1>4

(* What the constructor writes over g is what f asks for, and spoils nothing
   that another function needs.                                            *)
LEMMA WriteStep ==
  ASSUME PatchInv, NEW m \in Module, state[m] = "patching", i < Len(Table[m]),
         NEW f \in Fn, f = Table[m][i + 1], NEW g \in Fn, g = Bind[f],
         ~BadMagic(g), text' = Patched(f, g), i' = i + 1, UNCHANGED <<prog, state>>
  PROVE  text' \in [Fn -> [magic: Word, id: Word]] /\ PatchesKept' /\ RawAhead'
<1>1. i \in Nat /\ text \in [Fn -> [magic: Word, id: Word]]
  BY DEF PatchInv, TypeOK
<1>2. Home(f) = m /\ Number(f) = i + 1
  <2>1. i + 1 \in 1..Len(Table[m])
    BY <1>1, TableTypes
  <2> QED BY <2>1, TableEntry
<1>3. Bind' = Bind /\ Left' = Left /\ Bare' = Bare
  BY DEF Bind, Left, Bare
<1>4. PICK w \in Word : w = IF f \in Left THEN NULL ELSE Host(f)
  BY WordTypes
<1>5. /\ text' \in [Fn -> [magic: Word, id: Word]]
      /\ text'[g] = [magic |-> w, id |-> w]
      /\ \A h \in Fn : h # g => text'[h] = text[h]
  BY <1>1, <1>4 DEF Patched
<1>6. \A h \in Fn : Home(h) = m /\ Number(h) = i + 1 => h = f
  BY <1>2, HomeNumber
<1>7. \A h \in Fn : Number(h) \in Nat /\ Home(h) \in Module
  BY HomeNumber, TableTypes
<1>8. \A h \in Fn : state[Home(h)] = "patching" => Home(h) = m
  BY <1>7 DEF PatchInv, OnePatches, Patching
<1>9. PatchesKept'
  <2> SUFFICES ASSUME NEW h \in Fn, Reached(h)', h \notin Left
               PROVE  text'[Bind[h]] = HostPrefix(h)
    BY <1>3 DEF PatchesKept, HostPrefix
  <2>1. Reached(h) \/ h = f
    BY <1>1, <1>6, <1>7, <1>8 DEF Reached
  <2>2. CASE h = f
    BY <1>4, <1>5, <2>2 DEF HostPrefix
  <2>3. CASE Reached(h)
    <3>1. text[Bind[h]] = HostPrefix(h) /\ Bind[h] \in Fn
      BY <2>3, ProgTypes DEF PatchInv, PatchesKept
    <3>2. Bind[h] # g
      <4>1. text[Bind[h]].magic = Host(h)
        BY <3>1 DEF HostPrefix
      <4>2. Host(h) # Num(0)
        BY DEF Host, Num
      <4> QED BY <4>1, <4>2 DEF BadMagic
    <3> QED BY <1>5, <3>1, <3>2
  <2> QED BY <2>1, <2>2, <2>3
<1>10. RawAhead'
  <2> SUFFICES ASSUME NEW h \in Fn, Ahead(h)'
               PROVE  text'[Bind[h]] = RawPrefix(Bind[h]) \/ Shared(h)
    BY <1>3 DEF RawAhead, RawPrefix, Shared
  <2>1. Ahead(h) /\ h # f
    BY <1>1, <1>2, <1>7 DEF Ahead
  <2>2. CASE Bind[h] = g
    BY <2>1, <2>2 DEF Shared
  <2>3. CASE Bind[h] # g
    BY <1>5, <2>1, <2>3, ProgTypes DEF PatchInv, RawAhead
  <2> QED BY <2>2, <2>3
<1> QED BY <1>5, <1>9, <1>10

LEMMA PatchKeeps ==
  ASSUME PatchInv, NEW m \in Module, Patch(m)
  PROVE  PatchInv'
<1>1. /\ end = "no" /\ state[m] = "patching" /\ i < Len(Table[m]) /\ UNCHANGED <<prog, last, state>>
      /\ m \in Patching /\ i \in Nat /\ last = NoCall
  <2>1. end = "no" /\ state[m] = "patching" /\ i < Len(Table[m]) /\ UNCHANGED <<prog, last, state>>
    BY DEF Patch, Die
  <2> QED BY <2>1 DEF Patching, PatchInv, TypeOK, LastFits
<1>2. PICK f \in Fn : f = Table[m][i + 1]
  <2>1. i + 1 \in 1..Len(Table[m])
    BY <1>1, TableTypes
  <2> QED BY <2>1, TableEntry
<1>3. PICK g \in Fn : g = Bind[f]
  BY ProgTypes DEF PatchInv
<1>4. Patching' = Patching /\ OnePatches' /\ LastFits'
  BY <1>1 DEF Patching, PatchInv, OnePatches, LastFits
<1>5. Bind' = Bind /\ Bare' = Bare /\ Left' = Left /\ addr' = addr
  BY <1>1 DEF Bind, Bare, Left, addr
<1>6. \A h \in Fn : i' = i => (Reached(h)' => Reached(h)) /\ (Ahead(h)' => Ahead(h))
  BY <1>1 DEF Reached, Ahead
<1>7. CASE BadMagic(g)
  <2>1. end' = "badMagic" /\ UNCHANGED <<text, i, state, writable, pageBegin, pageEnd, unprotected>>
    BY <1>2, <1>3, <1>7 DEF Patch, Die
  <2>2. TypeOK'
    BY <1>1, <1>4, <2>1, ProgKept DEF PatchInv, TypeOK
  <2>3. AbortExplained'
    <3>1. Ahead(f)
      <4>1. i + 1 \in 1..Len(Table[m])
        BY <1>1, TableTypes
      <4>2. Home(f) = m /\ Number(f) = i + 1
        BY <1>2, <4>1, TableEntry
      <4> QED BY <1>1, <4>2 DEF Ahead
    <3>2. CASE text[g] = RawPrefix(g)
      <4>1. g \in Bare
        BY <1>7, <3>2 DEF BadMagic, RawPrefix
      <4> QED BY <1>3, <1>5, <4>1 DEF AbortExplained
    <3>3. CASE Shared(f)
      BY <1>5, <3>3 DEF AbortExplained, Shared
    <3> QED BY <1>3, <3>1, <3>2, <3>3 DEF PatchInv, RawAhead
  <2>4. RangeFits'
    BY <1>4, <1>5, <2>1 DEF PatchInv, RangeFits, RangeOf, Pages, Down, PageOf
  <2>5. PatchesKept' /\ RawAhead'
    BY <1>1, <1>6, <2>1, TextKept
  <2> QED BY <1>1, <1>4, <2>1, <2>2, <2>3, <2>4, <2>5, ProgKept DEF PatchInv, PatchNeverFaults
<1>8. CASE ~BadMagic(g)
  <2>1. /\ IF Outside(g)
            THEN /\ pageBegin' = Down(addr[g] - 2)
                 /\ pageEnd' = Down(addr[g] + PageSize)
                 /\ \/ /\ writable' = [writable EXCEPT ![Home(g)] = @ \cup Pages(pageBegin', pageEnd')]
                       /\ UNCHANGED unprotected
                    \/ unprotected' = FALSE /\ UNCHANGED writable
            ELSE UNCHANGED <<writable, pageBegin, pageEnd, unprotected>>
        /\ IF PrefixPages(g) \subseteq writable'[Home(g)]
           THEN text' = Patched(f, g) /\ i' = i + 1 /\ UNCHANGED <<state, end>>
           ELSE Die("fault")
    BY <1>2, <1>3, <1>8 DEF Patch, PrefixPages
  <2>2. /\ writable' \in [Module -> SUBSET Nat] /\ unprotected' \in BOOLEAN
        /\ pageBegin' \in Nat /\ pageEnd' \in Nat
        /\ unprotected' => unprotected /\ PrefixPages(g) \subseteq writable'[Home(g)]
        /\ RangeFits'
    BY <1>1, <2>1, RangeStep
  <2>3. CASE PrefixPages(g) \subseteq writable'[Home(g)]
    <3>1. text' = Patched(f, g) /\ i' = i + 1 /\ end' = "no"
      BY <1>1, <2>1, <2>3
    <3>2. text' \in [Fn -> [magic: Word, id: Word]] /\ PatchesKept' /\ RawAhead'
      BY <1>1, <1>2, <1>3, <1>8, <3>1, WriteStep
    <3>3. i' \in Nat /\ \A o \in Patching : i' <= Len(Table[o])
      BY <1>1, <3>1, TableTypes DEF PatchInv, OnePatches
    <3>4. TypeOK'
      BY <1>1, <1>4, <2>2, <3>1, <3>2, <3>3, ProgKept DEF PatchInv, TypeOK
    <3> QED BY <1>1, <1>4, <2>2, <3>1, <3>2, <3>4, ProgKept
            DEF PatchInv, PatchNeverFaults, AbortExplained
  <2>4. CASE ~(PrefixPages(g) \subseteq writable'[Home(g)])
    <3>1. end' = "fault" /\ UNCHANGED <<text, i, state>>
      BY <2>1, <2>4 DEF Die
    <3>2. PatchesKept' /\ RawAhead'
      BY <1>1, <1>6, <3>1, TextKept
    <3>3. TypeOK'
      BY <1>1, <1>4, <2>2, <3>1, ProgKept DEF PatchInv, TypeOK
    <3> QED BY <1>1, <1>4, <2>2, <2>4, <3>1, <3>2, <3>3, ProgKept
            DEF PatchInv, PatchNeverFaults, AbortExplained
  <2> QED BY <2>3, <2>4
<1> QED BY <1>7, <1>8

LEMMA PatchStutter ==
  ASSUME PatchInv, UNCHANGED vars
  PROVE  PatchInv'
<1>1. UNCHANGED <<prog, state, text, writable, i, pageBegin, pageEnd, unprotected, last, end>>
  BY DEF vars, ctorVars
<1>2. Patching' = Patching /\ addr' = addr /\ Bind' = Bind /\ Left' = Left /\ Bare' = Bare
  BY <1>1 DEF Patching, addr, Bind, Left, Bare
<1>3. TypeOK'
  BY <1>1, <1>2, ProgKept DEF PatchInv, TypeOK
<1>4. PatchesKept' /\ RawAhead'
  <2>1. \A h \in Fn : (Reached(h)' => Reached(h)) /\ (Ahead(h)' => Ahead(h))
    BY <1>1 DEF Reached, Ahead
  <2> QED BY <1>1, <2>1, TextKept
<1>5. RangeFits' /\ OnePatches'
  BY <1>1, <1>2 DEF PatchInv, RangeFits, RangeOf, Pages, Down, PageOf, OnePatches
<1>6. LastFits'
  BY <1>1, <1>2 DEF PatchInv, LastFits, CallTo, Fits
<1> QED BY <1>1, <1>2, <1>3, <1>4, <1>5, <1>6
        DEF PatchInv, PatchNeverFaults, AbortExplained

-----------------------------------------------------------------------------
(* The pages, the prefixes and the calls of FCP-CM fit together, in every
   order of constructions, destructions, reloads and calls.                *)
THEOREM PatchInvariant == Spec => []PatchInv
<1>1. PatchInv /\ [Next]_vars => PatchInv'
  <2> SUFFICES ASSUME PatchInv, [Next]_vars PROVE PatchInv'
    OBVIOUS
  <2>1. ASSUME NEW m \in Module, Constructed(m) PROVE PatchInv'
    BY <2>1, StateKeeps DEF Constructed
  <2>2. ASSUME NEW m \in Module, Destruct(m) PROVE PatchInv'
    BY <2>2, StateKeeps DEF Destruct
  <2> QED
    BY <2>1, <2>2, ConstructKeeps, PatchKeeps, ReloadKeeps, HostCallsKeeps, PatchStutter
    DEF Next, Ended
<1> QED BY <1>1, PatchInit, PTL DEF Spec

(* The variables of FCP-CM keep their types; in particular a prefix holds what
   was linked or what a constructor wrote.                                 *)
THEOREM FcpCmTypeOKAlways == Spec => []TypeOK
<1>1. PatchInv => TypeOK
  BY DEF PatchInv
<1> QED BY <1>1, PatchInvariant, PTL

(* gyh_do_ctor_fcp_cm writes only to pages that it made writable, wherever the
   functions lie and however their order differs from that of the table.   *)
THEOREM PatchNeverFaultsAlways == Spec => []PatchNeverFaults
<1>1. PatchInv => PatchNeverFaults
  BY DEF PatchInv
<1> QED BY <1>1, PatchInvariant, PTL

(* A constructor that stops at a magic number met a function without one, or a
   definition that two functions are bound to.                             *)
THEOREM FcpCmAbortExplainedAlways == Spec => []AbortExplained
<1>1. PatchInv => AbortExplained
  BY DEF PatchInv
<1> QED BY <1>1, PatchInvariant, PTL

(* The test of do_fcp_cm succeeds for every function of a constructed module
   that was taken out, and leads to the host half of that very function.   *)
THEOREM FastCallsOwnAlways == Spec => []FastCallsOwn
<1>1. PatchInv => FastCallsOwn
  <2> SUFFICES ASSUME PatchInv, last # NoCall, state[Home(last.f)] = "ready",
                      BoundTo(last.f) \cap Left = {}
               PROVE  /\ last.by = "fast"
                      /\ \E f \in BoundTo(last.f) : last.to = Host(f) /\ state[Home(f)] = "ready"
    BY DEF FastCallsOwn
  <2>1. PICK h \in Fn : last = CallTo(Bind[h])
    BY DEF PatchInv, LastFits
  <2>2. PICK g \in Fn : g = Bind[h] /\ last = CallTo(g)
    BY <2>1, ProgTypes DEF PatchInv
  <2>3. last.f = g
    BY <2>2 DEF CallTo
  <2>4. Bind[g] = g /\ g \in BoundTo(g) /\ g \notin Left
    BY <2>2, <2>3, ProgLinked DEF PatchInv, BoundTo
  <2>5. text[g] = HostPrefix(g)
    BY <2>3, <2>4 DEF PatchInv, PatchesKept, Reached
  <2>6. Fits(g) /\ text[g].id = Host(g)
    BY <2>5 DEF Fits, HostPrefix, Host, Other
  <2>7. last.by = "fast" /\ last.to = Host(g)
    BY <2>2, <2>6 DEF CallTo
  <2> QED BY <2>3, <2>4, <2>7
<1> QED BY <1>1, PatchInvariant, PTL

=============================================================================
