----------------------------- MODULE ItemStore -----------------------------
(***************************************************************************)
(* What the encrypted storage promises its callers, a power cut at any     *)
(* moment included. Every item has a current value and a factory value.    *)
(* A store of an item that is absent ends with the new value, with none,   *)
(* or with a damaged item that cannot be read; a delete removes the item;  *)
(* a factory reset replaces all current values by the factory values in    *)
(* one step.                                                               *)
(***************************************************************************)
EXTENDS Naturals

CONSTANTS
    Items,      \* the names of the items
    Values      \* the values an item can be stored with

VARIABLES
    item,       \* the current value of each item
    origin      \* the factory value of each item

vars == <<item, origin>>

\* An item is absent, damaged, or holds a value.
Absent     == [is |-> "absent", gen |-> 0]
Damaged    == [is |-> "torn", gen |-> 0]
Whole(g)   == [is |-> "whole", gen |-> g]
Content    == {Absent, Damaged} \cup {Whole(g) : g \in Values}

Init == /\ item = [i \in Items |-> Absent]
        /\ origin = [i \in Items |-> Absent]

\* A store is seen to begin, and may stay where it is if the power is cut.
Begin(i) == /\ item[i] = Absent
            /\ item' = [item EXCEPT ![i] = Damaged]
            /\ UNCHANGED origin

\* A store ends. The item is not replaced: it was absent when the store began.
Finish(i, g) == /\ item[i] = Damaged
                /\ item' = [item EXCEPT ![i] = Whole(g)]
                /\ UNCHANGED origin

\* A delete, or a store that is given up.
Remove(i) == /\ item[i] # Absent
             /\ item' = [item EXCEPT ![i] = Absent]
             /\ UNCHANGED origin

\* A factory item is stored: its old factory value goes, then the new comes.
SetOrigin(i, c) == /\ item[i] = Absent
                   /\ origin' = [origin EXCEPT ![i] = c]
                   /\ UNCHANGED item

\* The storage is deleted: the factory values go when no item is left.
RemoveOrigin(i) == /\ \A j \in Items : item[j] = Absent
                   /\ origin' = [origin EXCEPT ![i] = Absent]
                   /\ UNCHANGED item

FactoryReset == /\ item' = origin
                /\ UNCHANGED origin

Next == \/ \E i \in Items : \/ Begin(i)
                            \/ Remove(i)
                            \/ RemoveOrigin(i)
                            \/ \E g \in Values : Finish(i, g)
                            \/ \E c \in Content : SetOrigin(i, c)
        \/ FactoryReset

Spec == Init /\ [][Next]_vars
=============================================================================
