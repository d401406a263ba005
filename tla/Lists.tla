-------------------------------- MODULE Lists --------------------------------
(***************************************************************************)
(* Lists of the program.  SequencesExt has these operators too, but it also  *)
(* brings in Bags, which makes each step of a proof about a module that      *)
(* extends it many times slower.  Range, Injection and Min are those of the  *)
(* community modules.                                                      *)
(***************************************************************************)
EXTENDS Integers, Sequences, FiniteSetsExt

\* The lists of at most n elements of S.
ListsUpTo(S, n) == UNION {[1..m -> S] : m \in 0..n}

\* The orders in which the elements of S can be listed.
Orders(S) == Injection(1..Cardinality(S), S)

\* for i, x := range s { if Test(x) { return i } }: the first such position
\* from 1 on, or 0.
FirstIndex(s, Test(_)) ==
  LET found == {i \in 1..Len(s) : Test(s[i])}
  IN IF found = {} THEN 0 ELSE Min(found)

=============================================================================
