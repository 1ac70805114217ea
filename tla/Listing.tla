------------------------------- MODULE Listing --------------------------------
(***************************************************************************)
(* The rows of a query in its order, and what a filter leaves of a list.   *)
(* They give what SetToSortSeq and SelectSeq of the libraries give for an  *)
(* order without ties, element by element and not by a search or a         *)
(* recursion, so that something can be proved about a page.                *)
(***************************************************************************)
EXTENDS Integers, FiniteSets

\* The elements of S, each once: the one at place i has i - 1 others before it.
Ordered(S, Before(_, _)) ==
  [i \in 1 .. Cardinality(S) |->
     CHOOSE x \in S : Cardinality({y \in S : Before(y, x)}) = i - 1]

\* What of list passes the test, in the order of list.
Filtered(list, Test(_)) ==
  LET places == {i \in DOMAIN list : Test(list[i])}
  IN [k \in 1 .. Cardinality(places) |->
        list[CHOOSE i \in places : Cardinality({j \in places : j < i}) = k - 1]]

===============================================================================
