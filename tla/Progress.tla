------------------------------ MODULE Progress ------------------------------
(***************************************************************************)
(* Measures: three natural numbers, the first the most significant.  What  *)
(* takes such a measure down can happen only finitely often, as DriverProofs *)
(* shows once for all (LessIsWellFounded).                                  *)
(***************************************************************************)
EXTENDS Integers

Triples == Nat \X Nat \X Nat

Less(m, n) ==
  \/ m[1] < n[1]
  \/ m[1] = n[1] /\ m[2] < n[2]
  \/ m[1] = n[1] /\ m[2] = n[2] /\ m[3] < n[3]

OneIf(b) == IF b THEN 1 ELSE 0
=============================================================================
