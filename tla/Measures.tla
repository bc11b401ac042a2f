------------------------------- MODULE Measures -------------------------------
(***************************************************************************)
(* Measures of what a call has still to do: tuples of numbers, the first   *)
(* of which weighs most.                                                   *)
(***************************************************************************)
EXTENDS WellFoundedInduction, TLAPS

Measures(n) == [1 .. n -> Nat]

Lower(m, n) == \E i \in DOMAIN n : m[i] < n[i] /\ \A j \in 1 .. i - 1 : m[j] = n[j]

(***************************************************************************)
(* No measure gets lower for ever: what lowers one at each of its steps    *)
(* ends (the loops of ReadPages, Erase, CmdUpload, SendCmd and others).    *)
(***************************************************************************)
THEOREM MeasuresEnd ==
  ASSUME NEW n \in Nat, NEW f \in [Nat -> Measures(n)]
  PROVE  \E k \in Nat : ~Lower(f[k + 1], f[k])
PROOF
<1> DEFINE Less == LexProductOrdering(OpToRel(<, Nat), Nat, n)
<1>1. IsWellFoundedOn(Less, [1 .. n -> Nat])
  BY NatLessThanWellFounded, WFLexProductOrdering
<1>2. ASSUME NEW x \in Measures(n), NEW y \in Measures(n), Lower(x, y)
      PROVE  <<x, y>> \in Less
  <2>1. PICK i \in 1 .. n : x[i] < y[i] /\ \A j \in 1 .. i - 1 : x[j] = y[j]
    BY <1>2 DEF Measures, Lower
  <2>2. x[i] \in Nat /\ y[i] \in Nat
    BY DEF Measures
  <2>3. <<x[i], y[i]>> \in OpToRel(<, Nat)
    BY <2>1, <2>2 DEF OpToRel
  <2> QED
    BY <2>1, <2>3 DEF LexProductOrdering, Measures
<1>3. SUFFICES ASSUME \A k \in Nat : Lower(f[k + 1], f[k]) PROVE FALSE
  OBVIOUS
<1>4. ASSUME NEW k \in Nat PROVE <<f[k + 1], f[k]>> \in Less
  <2>1. f[k + 1] \in Measures(n) /\ f[k] \in Measures(n)
    OBVIOUS
  <2> HIDE DEF Less
  <2> QED
    BY <1>2, <1>3, <2>1
<1> HIDE DEF Less
<1> QED
  BY <1>1, <1>4 DEF IsWellFoundedOn, Measures
==============================================================================
