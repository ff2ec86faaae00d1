--------------------------- MODULE CallbackQueue ---------------------------
(***************************************************************************)
(* What the update client relies on when it posts callbacks: a storage     *)
(* that waits is not posted again, and the posts are run one at a time,    *)
(* each once, with what it was posted with, in their order.                *)
(***************************************************************************)
EXTENDS Naturals, Sequences

CONSTANT Nodes      \* the storages

VARIABLES
  queue,            \* the posts that wait: the storage and the number of each
  posted,           \* number of posts so far
  ran               \* the posts that were run

vars == <<queue, posted, ran>>

Init == queue = <<>> /\ posted = 0 /\ ran = <<>>

Post(n) ==
  /\ \A i \in 1..Len(queue) : queue[i].node # n
  /\ posted' = posted + 1
  /\ queue' = Append(queue, [node |-> n, post |-> posted'])
  /\ UNCHANGED ran

Run ==
  /\ queue # <<>>
  /\ ran' = Append(ran, Head(queue).post)
  /\ queue' = Tail(queue)
  /\ UNCHANGED posted

Next == Run \/ \E n \in Nodes : Post(n)

Spec == Init /\ [][Next]_vars
=============================================================================
