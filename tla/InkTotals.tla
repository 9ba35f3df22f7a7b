----------------------------- MODULE InkTotals -----------------------------
(***************************************************************************)
(* What a book of INK adds up to: the sum of a function into the naturals. *)
(* An entry f[x] stands for its units <<x, 1>>, ..., <<x, f[x]>>, and the  *)
(* sum is the number of units: the form in which a proof can add, change   *)
(* and take away an entry without an induction over the book.              *)
(***************************************************************************)
EXTENDS Integers, FiniteSets

Units(f) == UNION {{x} \X (1..f[x]) : x \in DOMAIN f}

Total(f) == Cardinality(Units(f))
=============================================================================
