----------------------------- MODULE MemoryPool -----------------------------
(* What the users of the heap rely on.  A block is the pair of the address   *)
(* of its first word and its length in words of data; it takes Overhead      *)
(* words more, so that block <<s, n>> stands on s .. s + n + Overhead - 1.   *)
EXTENDS Integers

CONSTANTS Overhead,   \* words that a block takes besides its data
          Smallest,   \* stretches that hold fewer words of data may stay unused
          Sizes,      \* the numbers of words that may be asked for
          PoolSizes   \* the numbers of words a pool may have

VARIABLES size,   \* the number of words of the pool
          used,   \* the blocks handed out and not given back
          told    \* what was asked for last, and what came back

Nothing == <<0, 0>>

Words(b) == b[1] .. b[1] + b[2] + Overhead - 1

Free(W) == \A b \in used : W \cap Words(b) = {}

Init == /\ size \in PoolSizes
        /\ used = {}
        /\ told = <<0, Nothing>>

\* A request gets words nobody has, as many as asked for.
Grant(n) ==
  \E s \in 0 .. size - 1, m \in 1 .. size :
    /\ n <= m
    /\ Words(<<s, m>>) \subseteq 0 .. size - 1
    /\ Free(Words(<<s, m>>))
    /\ used' = used \cup {<<s, m>>}
    /\ told' = <<n, <<s, m>>>>
    /\ UNCHANGED size

\* A request is refused only when no stretch of free words can hold it,
\* whatever was given back in which order.
Refuse(n) ==
  /\ \A s \in 0 .. size - 1, m \in 1 .. size :
       n <= m /\ Smallest <= m /\ Words(<<s, m>>) \subseteq 0 .. size - 1 => ~ Free(Words(<<s, m>>))
  /\ told' = <<n, Nothing>>
  /\ UNCHANGED <<size, used>>

\* A request for nothing gets nothing.
RefuseEmpty == told' = <<0, Nothing>> /\ UNCHANGED <<size, used>>

GiveBack(b) == used' = used \ {b} /\ told' = <<0, Nothing>> /\ UNCHANGED size

Next == \/ RefuseEmpty
        \/ \E n \in Sizes : Grant(n) \/ Refuse(n)
        \/ \E b \in used : GiveBack(b)

Spec == Init /\ [][Next]_<<size, used, told>>
=============================================================================
