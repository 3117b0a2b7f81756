------------------------------- MODULE Totals -------------------------------
(***************************************************************************)
(* Sums of whole amounts over a finite set.  A total counts the units the  *)
(* amounts consist of, so that its laws follow from those of Cardinality.  *)
(***************************************************************************)
EXTENDS Naturals, FiniteSets

\* One unit per item x of R and number up to amount[x].
Units(amount, R) == UNION {{x} \X (1 .. amount[x]) : x \in R}

\* The sum of amount[x] over the items x of R.
Total(amount, R) == Cardinality(Units(amount, R))
=============================================================================
