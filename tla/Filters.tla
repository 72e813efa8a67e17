------------------------------- MODULE Filters -------------------------------
(***************************************************************************)
(* A list cut down to some of its places, as Array.filter does it: one     *)
(* look at each element, in order; and the sum of some figures, as         *)
(* Array.reduce takes it.  SelectSeq and the folds take an operator, which *)
(* no lemma can speak of; here the places that are kept are a set, and the *)
(* figures a function.                                                     *)
(***************************************************************************)
EXTENDS Integers, Sequences

Places(s, K) ==
  LET F[n \in 0..Len(s)] == IF n = 0 THEN <<>> ELSE IF n \in K THEN Append(F[n - 1], s[n]) ELSE F[n - 1]
  IN F[Len(s)]

Total(f) ==
  LET S[T \in SUBSET DOMAIN f] == IF T = {} THEN 0 ELSE LET x == CHOOSE x \in T : TRUE IN f[x] + S[T \ {x}]
  IN S[DOMAIN f]
==============================================================================
