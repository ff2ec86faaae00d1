------------------------------- MODULE Lists -------------------------------
(***************************************************************************)
(* ns_list.h, as far as the modules need it.  The positions an operation   *)
(* looks for are given as a set, of which it takes the first.              *)
(***************************************************************************)
EXTENDS Integers, Sequences, FiniteSets, Functions

\* The first of a set of positions, 0 if there is none.
First(I) == IF I = {} THEN 0 ELSE CHOOSE i \in I : \A j \in I : i <= j

\* ns_list_add_before: e goes before the first position of I, else to the end.
AddBefore(list, I, e) ==
  LET p == First(I)
  IN  IF p = 0 THEN Append(list, e)
      ELSE [i \in 1 .. Len(list) + 1 |->
              IF i < p THEN list[i] ELSE IF i = p THEN e ELSE list[i - 1]]

\* ns_list_remove: the list without its element e.
Unlink(list, e) ==
  LET p == First({i \in DOMAIN list : list[i] = e})
  IN  IF p = 0 THEN list
      ELSE [i \in 1 .. Len(list) - 1 |-> IF i < p THEN list[i] ELSE list[i + 1]]

\* Whether e is in front of f.
Before(list, e, f) == \E i, j \in DOMAIN list : i < j /\ list[i] = e /\ list[j] = f

\* ns_list_add_to_start
AddToStart(list, e) == <<e>> \o list

\* Some list of the elements of the finite set S.
ListOf(S) == CHOOSE f \in [1 .. Cardinality(S) -> S] : IsInjective(f)
=============================================================================
