------------------------- MODULE UCSchedulerProofs -------------------------
(***************************************************************************)
(* Proofs about UCScheduler for every number of threads, storages and      *)
(* posts and every mode, as long as events can be sent: the types, that    *)
(* a storage is queued once, that no wake-up is lost and none is doubled,  *)
(* and that the queue implements CallbackQueue.                            *)
(*                                                                         *)
(* The argument about wake-ups: the counter, with the posters that have    *)
(* not counted yet, is the length of the queue with the element in hand    *)
(* (CounterInv).  A positive counter always has an event, a poster about   *)
(* to send one, or a consumer at work (WakeInv), and exactly one of them   *)
(* when the elements are consumed one at a time.                           *)
(***************************************************************************)
EXTENDS UCScheduler, ListLemmas

\* The storages of the queue, without regard to their order.
Queued == Range(arm_uc_queue)

\* A storage about to be pushed, or popped and not yet released, is locked
\* and in no other place.
LockInv ==
  /\ \A t \in Threads : pc[t] = "push" => lock[node[t]] /\ node[t] \notin Queued
  /\ \A t, u \in Threads : pc[t] = "push" /\ pc[u] = "push" /\ node[t] = node[u] => t = u
  /\ consumer = "release" =>
       /\ lock[element] /\ element \notin Queued
       /\ \A t \in Threads : pc[t] = "push" => node[t] # element

InHand == IF consumer \in {"release", "call", "running"} THEN 1 ELSE 0

CounterInv == arm_uc_queue_counter + Cardinality(Uncounted) = Len(arm_uc_queue) + InHand

\* The events under way, the posters about to send one, the consumer at work.
Wakers == wakeups + Cardinality(Notifying) + (IF consumer = "idle" THEN 0 ELSE 1)

WakeInv ==
  /\ arm_uc_queue_counter > 0 => Wakers >= 1
  /\ ~ Drain => Wakers = IF arm_uc_queue_counter > 0 THEN 1 ELSE 0

\* The post of the i-th storage that waits.
Number(i) == posted - Len(Waiting) + i

Filling(t, i) == pc[t] = "fill" /\ node[t] = Waiting[i] /\ post[t] = Number(i)

Held ==
  \A i \in 1..Len(Waiting) :
    fields[Waiting[i]] = Number(i) \/ \E t \in Threads : Filling(t, i)

Awaited ==
  \A t \in Threads : pc[t] = "fill" => \E i \in 1..Len(Waiting) : Filling(t, i)

NotPosted ==
  consumer \in {"release", "call"} =>
    /\ element \notin Queued
    /\ \A t \in Threads : pc[t] # "idle" => node[t] # element

\* With careful posters a storage that waits holds its own post, or its poster
\* is about to write it, and nothing else is about to be written; a storage
\* that is about to be called is not posted again.
FieldsInv == Careful => Held /\ Awaited /\ NotPosted

\* What the theorems assume: eventOS_event_send finds an event storage.
EventsCanBeSent == ~ SendMayFail

LEMMA CountThreads ==
  ASSUME NEW S \in SUBSET Threads
  PROVE  /\ IsFiniteSet(S) /\ Cardinality(S) \in Nat
         /\ Cardinality(S) > 0 => S # {}
         /\ \A t \in Threads : Cardinality(S \cup {t}) = IF t \in S THEN Cardinality(S) ELSE Cardinality(S) + 1
         /\ \A t \in Threads : Cardinality(S \ {t}) = IF t \in S THEN Cardinality(S) - 1 ELSE Cardinality(S)
<1>1. IsFiniteSet(S)
  BY FS_Subset, SchedulerAssumption
<1>2. Cardinality(S) \in Nat
  BY <1>1, FS_CardinalityType
<1>3. Cardinality(S) > 0 => S # {}
  BY FS_EmptySet
<1> QED
  BY <1>1, <1>2, <1>3, FS_AddElement, FS_RemoveElement

LEMMA InitTypes == Init => TypeOK
BY SchedulerAssumption DEF Init, TypeOK, PosterStates, ConsumerStates

LEMMA StepTypes ==
  ASSUME TypeOK, [Next]_vars
  PROVE  TypeOK'
<1> USE DEF TypeOK, PosterStates, ConsumerStates
<1>1. ASSUME NEW t \in Threads, NEW n \in Nodes, PostBegin(t, n) PROVE TypeOK'
  BY <1>1 DEF PostBegin, consumerVars
<1>2. ASSUME NEW t \in Threads, PostLock(t) PROVE TypeOK'
  BY <1>2, Zenon DEF PostLock, consumerVars
<1>3. ASSUME NEW t \in Threads, PostPush(t) PROVE TypeOK'
  BY <1>3 DEF PostPush, consumerVars
<1>4. ASSUME NEW t \in Threads, PostFill(t) PROVE TypeOK'
  BY <1>4 DEF PostFill, consumerVars
<1>5. ASSUME NEW t \in Threads, PostCount(t) PROVE TypeOK'
  BY <1>5 DEF PostCount, consumerVars
<1>6. ASSUME NEW t \in Threads, PostNotify(t) PROVE TypeOK'
  BY <1>6 DEF PostNotify, consumerVars, schedule_event
<1>7. CASE EventHandler
  BY <1>7 DEF EventHandler, posterVars
<1>8. CASE Pop
  <2>1. arm_uc_queue # <<>> => /\ Head(arm_uc_queue) \in Nodes
                               /\ Tail(arm_uc_queue) \in Seq(Nodes)
    BY HeadTailProperties
  <2> QED
    BY <1>8, <2>1, Zenon DEF Pop, posterVars
<1>9. CASE Release
  BY <1>9 DEF Release, posterVars
<1>10. CASE Call
  BY <1>10 DEF Call, posterVars
<1>11. CASE Return
  BY <1>11 DEF Return, posterVars
<1>12. CASE Reschedule
  BY <1>12 DEF Reschedule, posterVars, schedule_event
<1>13. CASE UNCHANGED vars
  BY <1>13 DEF vars, posterVars, consumerVars
<1> QED
  BY <1>1, <1>2, <1>3, <1>4, <1>5, <1>6, <1>7, <1>8, <1>9, <1>10, <1>11, <1>12, <1>13
  DEF Next, PosterStep, ConsumerStep

-----------------------------------------------------------------------------
(* A storage is in the queue once. *)

LEMMA QueuedOnceOnSets ==
  QueuedOnce <=> IsInjective(arm_uc_queue) /\ \A n \in Queued : lock[n]
BY DEF QueuedOnce, IsInjective, Queued, Range

LEMMA AppendElements ==
  ASSUME NEW S, NEW q \in Seq(S), NEW e \in S
  PROVE  /\ Range(Append(q, e)) = Range(q) \cup {e}
         /\ IsInjective(q) /\ e \notin Range(q) => IsInjective(Append(q, e))
<1> DEFINE r == Append(q, e)
<1>1. /\ Len(q) \in Nat /\ DOMAIN q = 1 .. Len(q)
      /\ DOMAIN r = 1 .. Len(q) + 1 /\ r[Len(q) + 1] = e
      /\ \A i \in 1 .. Len(q) : r[i] = q[i]
  OBVIOUS
<1> HIDE DEF r
<1>2. Range(r) = Range(q) \cup {e}
  BY <1>1 DEF Range
<1>3. IsInjective(q) /\ e \notin Range(q) => IsInjective(r)
  BY <1>1 DEF Range, IsInjective
<1> QED
  BY <1>2, <1>3 DEF r

LEMMA AppendPositions ==
  ASSUME NEW S, NEW q \in Seq(S), NEW e \in S
  PROVE  /\ Len(Append(q, e)) = Len(q) + 1 /\ Append(q, e)[Len(q) + 1] = e
         /\ \A i \in 1..Len(q) : Append(q, e)[i] = q[i]
OBVIOUS

LEMMA InitQueue == Init => QueuedOnce /\ LockInv
BY DEF Init, QueuedOnce, LockInv, Queued, Range

LEMMA StepQueue ==
  ASSUME TypeOK, QueuedOnce, LockInv, [Next]_vars
  PROVE  QueuedOnce' /\ LockInv'
<1> USE DEF TypeOK, LockInv
<1>0. /\ IsInjective(arm_uc_queue) /\ \A n \in Queued : lock[n]
      /\ QueuedOnce' <=> IsInjective(arm_uc_queue') /\ \A n \in Queued' : lock'[n]
      /\ arm_uc_queue' = arm_uc_queue => Queued' = Queued
  <2>1. QueuedOnce' <=> IsInjective(arm_uc_queue') /\ \A n \in Queued' : lock'[n]
    BY DEF QueuedOnce, IsInjective, Queued, Range
  <2> QED
    BY QueuedOnceOnSets, <2>1 DEF Queued
<1>1. ASSUME NEW t \in Threads, NEW n \in Nodes, PostBegin(t, n) PROVE QueuedOnce' /\ LockInv'
  BY <1>0, <1>1 DEF PostBegin, consumerVars
<1>2. ASSUME NEW t \in Threads, PostLock(t) PROVE QueuedOnce' /\ LockInv'
  <2>0. UNCHANGED <<Queued, node, consumer, element>> /\ IsInjective(arm_uc_queue')
    BY <1>0, <1>2 DEF PostLock, consumerVars
  <2>1. CASE lock[node[t]]
    BY <1>0, <1>2, <2>0, <2>1 DEF PostLock
  <2>2. CASE ~ lock[node[t]]
    <3>1. node[t] \notin Queued /\ \A u \in Threads : pc[u] = "push" => node[u] # node[t]
      BY <1>0, <2>2
    <3>2. /\ lock' = [lock EXCEPT ![node[t]] = TRUE] /\ pc' = [pc EXCEPT ![t] = "push"]
          /\ node[t] \in Nodes
      BY <1>2, <2>2 DEF PostLock
    <3> QED
      BY <1>0, <2>0, <2>2, <3>1, <3>2
  <2> QED
    BY <2>1, <2>2
<1>3. ASSUME NEW t \in Threads, PostPush(t) PROVE QueuedOnce' /\ LockInv'
  <2>1. /\ Queued' = Queued \cup {node[t]} /\ IsInjective(arm_uc_queue')
    BY <1>0, <1>3, AppendElements DEF PostPush, Queued
  <2> QED
    BY <1>0, <1>3, <2>1 DEF PostPush, consumerVars
<1>4. ASSUME NEW t \in Threads, PostFill(t) PROVE QueuedOnce' /\ LockInv'
  BY <1>0, <1>4 DEF PostFill, consumerVars
<1>5. ASSUME NEW t \in Threads, PostCount(t) PROVE QueuedOnce' /\ LockInv'
  BY <1>0, <1>5 DEF PostCount, consumerVars
<1>6. ASSUME NEW t \in Threads, PostNotify(t) PROVE QueuedOnce' /\ LockInv'
  BY <1>0, <1>6 DEF PostNotify, consumerVars
<1>7. CASE EventHandler
  BY <1>0, <1>7 DEF EventHandler, posterVars
<1>8. CASE Pop
  <2>1. CASE arm_uc_queue = <<>>
    BY <1>0, <1>8, <2>1 DEF Pop, posterVars
  <2>2. CASE arm_uc_queue # <<>>
    <3>1. /\ Head(arm_uc_queue) \in Queued /\ Queued' = Queued \ {Head(arm_uc_queue)}
          /\ IsInjective(arm_uc_queue')
      <4>1. arm_uc_queue' = Tail(arm_uc_queue) /\ arm_uc_queue \in Seq(Nodes)
        BY <1>8, <2>2 DEF Pop
      <4>2. /\ Head(arm_uc_queue) \in Range(arm_uc_queue)
            /\ Range(Tail(arm_uc_queue)) = Range(arm_uc_queue) \ {Head(arm_uc_queue)}
            /\ IsInjective(Tail(arm_uc_queue))
        BY <1>0, <2>2, <4>1, TailElements, Zenon
      <4> QED
        BY <4>1, <4>2, Zenon DEF Queued
    <3>2. UNCHANGED <<lock, pc, node>> /\ element' = Head(arm_uc_queue)
      BY <1>8, <2>2 DEF Pop, posterVars
    <3> QED
      BY <1>0, <3>1, <3>2
  <2> QED
    BY <2>1, <2>2
<1>9. CASE Release
  BY <1>0, <1>9 DEF Release, posterVars
<1>10. CASE Call
  BY <1>0, <1>10 DEF Call, posterVars
<1>11. CASE Return
  BY <1>0, <1>11 DEF Return, posterVars
<1>12. CASE Reschedule
  BY <1>0, <1>12 DEF Reschedule, posterVars
<1>13. CASE UNCHANGED vars
  BY <1>0, <1>13 DEF vars, posterVars, consumerVars
<1> QED
  BY <1>1, <1>2, <1>3, <1>4, <1>5, <1>6, <1>7, <1>8, <1>9, <1>10, <1>11, <1>12, <1>13
  DEF Next, PosterStep, ConsumerStep
-----------------------------------------------------------------------------
(* The counter. *)

LEMMA InitCounter == Init => CounterInv
BY FS_EmptySet, Zenon DEF Init, CounterInv, InHand, Uncounted

LEMMA StepCounter ==
  ASSUME TypeOK, CounterInv, [Next]_vars
  PROVE  CounterInv'
<1> USE DEF CounterInv, InHand
<1> DEFINE n == Cardinality(Uncounted)
<1>0. /\ Uncounted \in SUBSET Threads /\ n \in Nat
      /\ Uncounted' = Uncounted => n' = n
      /\ Len(arm_uc_queue) \in Nat /\ arm_uc_queue_counter \in Int
  <2>1. Uncounted \in SUBSET Threads
    BY DEF Uncounted
  <2>2. Len(arm_uc_queue) \in Nat /\ arm_uc_queue_counter \in Int
    BY DEF TypeOK
  <2> QED
    BY <2>1, <2>2, CountThreads
<1> HIDE DEF n
<1>1. ASSUME NEW t \in Threads, NEW x \in Nodes, PostBegin(t, x) PROVE CounterInv'
  <2>1. Uncounted' = Uncounted
    BY <1>1 DEF PostBegin, Uncounted, TypeOK
  <2> QED
    BY <1>0, <1>1, <2>1 DEF PostBegin, consumerVars, n
<1>2. ASSUME NEW t \in Threads, PostLock(t) PROVE CounterInv'
  <2>1. Uncounted' = Uncounted
    BY <1>2 DEF PostLock, Uncounted, TypeOK
  <2> QED
    BY <1>0, <1>2, <2>1 DEF PostLock, consumerVars, n
<1>3. ASSUME NEW t \in Threads, PostPush(t) PROVE CounterInv'
  <2>1. Uncounted' = Uncounted \cup {t} /\ t \notin Uncounted
    BY <1>3 DEF PostPush, Uncounted, TypeOK
  <2>2. n' = n + 1
    BY <1>0, <2>1, CountThreads DEF n
  <2>3. Len(arm_uc_queue') = Len(arm_uc_queue) + 1
    BY <1>3 DEF PostPush, TypeOK
  <2> QED
    <3>1. UNCHANGED <<arm_uc_queue_counter, consumer>>
      BY <1>3 DEF PostPush, consumerVars
    <3> QED
      BY <1>0, <2>2, <2>3, <3>1 DEF n
<1>4. ASSUME NEW t \in Threads, PostFill(t) PROVE CounterInv'
  <2>1. Uncounted' = Uncounted
    BY <1>4 DEF PostFill, Uncounted, TypeOK
  <2> QED
    BY <1>0, <1>4, <2>1 DEF PostFill, consumerVars, n
<1>5. ASSUME NEW t \in Threads, PostCount(t) PROVE CounterInv'
  <2>1. Uncounted' = Uncounted \ {t} /\ t \in Uncounted
    BY <1>5 DEF PostCount, Uncounted, TypeOK
  <2>2. n' = n - 1
    BY <1>0, <2>1, CountThreads DEF n
  <2> QED
    BY <1>0, <1>5, <2>2 DEF PostCount, consumerVars, n
<1>6. ASSUME NEW t \in Threads, PostNotify(t) PROVE CounterInv'
  <2>1. Uncounted' = Uncounted
    BY <1>6 DEF PostNotify, Uncounted, TypeOK
  <2> QED
    BY <1>0, <1>6, <2>1 DEF PostNotify, consumerVars, n
<1>7. ASSUME UNCHANGED pc PROVE n' = n
  BY <1>7, <1>0 DEF Uncounted
<1>8. CASE EventHandler
  BY <1>0, <1>7, <1>8 DEF EventHandler, posterVars, n
<1>9. CASE Pop
  <2>1. arm_uc_queue # <<>> => Len(Tail(arm_uc_queue)) = Len(arm_uc_queue) - 1
    BY HeadTailProperties DEF TypeOK
  <2> QED
    BY <1>0, <1>7, <1>9, <2>1 DEF Pop, posterVars, n
<1>10. CASE Release
  BY <1>0, <1>7, <1>10 DEF Release, posterVars, n
<1>11. CASE Call
  BY <1>0, <1>7, <1>11 DEF Call, posterVars, n
<1>12. CASE Return
  BY <1>0, <1>7, <1>12 DEF Return, posterVars, n
<1>13. CASE Reschedule
  BY <1>0, <1>7, <1>13 DEF Reschedule, posterVars, n
<1>14. CASE UNCHANGED vars
  BY <1>0, <1>7, <1>14 DEF vars, posterVars, consumerVars, n
<1> QED
  BY <1>1, <1>2, <1>3, <1>4, <1>5, <1>6, <1>8, <1>9, <1>10, <1>11, <1>12, <1>13, <1>14
  DEF Next, PosterStep, ConsumerStep

-----------------------------------------------------------------------------
(* The wake-ups. *)

LEMMA InitWake == Init => WakeInv
BY FS_EmptySet DEF Init, WakeInv, Wakers, Notifying

LEMMA StepWake ==
  ASSUME EventsCanBeSent, TypeOK, CounterInv, WakeInv, [Next]_vars
  PROVE  WakeInv'
<1> USE DEF WakeInv, Wakers
<1> DEFINE n == Cardinality(Notifying)
<1>0. /\ Notifying \in SUBSET Threads /\ n \in Nat
      /\ Notifying' = Notifying => n' = n
      /\ wakeups \in Nat /\ arm_uc_queue_counter \in Int
      /\ Len(arm_uc_queue) \in Nat /\ Cardinality(Uncounted) \in Nat
  <2>1. Notifying \in SUBSET Threads /\ Uncounted \in SUBSET Threads
    BY DEF Notifying, Uncounted
  <2>2. Len(arm_uc_queue) \in Nat /\ wakeups \in Nat /\ arm_uc_queue_counter \in Int
    BY DEF TypeOK
  <2> QED
    BY <2>1, <2>2, CountThreads
<1> HIDE DEF n
<1>1. ASSUME NEW t \in Threads, NEW x \in Nodes, PostBegin(t, x) PROVE WakeInv'
  <2>1. Notifying' = Notifying
    BY <1>1 DEF PostBegin, Notifying, TypeOK
  <2> QED
    BY <1>0, <1>1, <2>1 DEF PostBegin, consumerVars, n, Drain
<1>2. ASSUME NEW t \in Threads, PostLock(t) PROVE WakeInv'
  <2>1. Notifying' = Notifying
    BY <1>2 DEF PostLock, Notifying, TypeOK
  <2> QED
    BY <1>0, <1>2, <2>1 DEF PostLock, consumerVars, n, Drain
<1>3. ASSUME NEW t \in Threads, PostPush(t) PROVE WakeInv'
  <2>1. Notifying' = Notifying
    BY <1>3 DEF PostPush, Notifying, TypeOK
  <2> QED
    BY <1>0, <1>3, <2>1 DEF PostPush, consumerVars, n, Drain
<1>4. ASSUME NEW t \in Threads, PostFill(t) PROVE WakeInv'
  <2>1. Notifying' = Notifying
    BY <1>4 DEF PostFill, Notifying, TypeOK
  <2> QED
    BY <1>0, <1>4, <2>1 DEF PostFill, consumerVars, n, Drain
<1>5. ASSUME NEW t \in Threads, PostCount(t) PROVE WakeInv'
  <2>1. CASE arm_uc_queue_counter' = 1
    <3>1. Notifying' = Notifying \cup {t} /\ t \notin Notifying
      BY <1>5, <2>1 DEF PostCount, Notifying, TypeOK
    <3>2. n' = n + 1
      BY <1>0, <3>1, CountThreads DEF n
    <3> QED
      BY <1>0, <1>5, <2>1, <3>2 DEF PostCount, consumerVars, n, Drain
  <2>2. CASE arm_uc_queue_counter' # 1
    <3>1. Notifying' = Notifying
      BY <1>5, <2>2 DEF PostCount, Notifying, TypeOK
    <3> QED
      BY <1>0, <1>5, <2>2, <3>1 DEF PostCount, consumerVars, n, Drain
  <2> QED
    BY <2>1, <2>2
<1>6. ASSUME NEW t \in Threads, PostNotify(t) PROVE WakeInv'
  <2>1. Notifying' = Notifying \ {t} /\ t \in Notifying
    BY <1>6 DEF PostNotify, Notifying, TypeOK
  <2>2. n' = n - 1
    BY <1>0, <2>1, CountThreads DEF n
  <2>3. wakeups' = wakeups + 1
    BY <1>6 DEF PostNotify, schedule_event, EventsCanBeSent
  <2> QED
    BY <1>0, <1>6, <2>2, <2>3 DEF PostNotify, consumerVars, n, Drain
<1>7. ASSUME UNCHANGED pc PROVE n' = n
  BY <1>7, <1>0 DEF Notifying
<1>8. CASE EventHandler
  BY <1>0, <1>7, <1>8 DEF EventHandler, posterVars, n, Drain
<1>9. CASE Pop
  <2>1. arm_uc_queue = <<>> => arm_uc_queue_counter <= 0
    BY <1>0, <1>9 DEF Pop, CounterInv, InHand
  <2> QED
    BY <1>0, <1>7, <1>9, <2>1 DEF Pop, posterVars, n, Drain
<1>10. CASE Release
  BY <1>0, <1>7, <1>10 DEF Release, posterVars, n, Drain
<1>11. CASE Call
  BY <1>0, <1>7, <1>11 DEF Call, posterVars, n, Drain
<1>12. CASE Return
  BY <1>0, <1>7, <1>12 DEF Return, posterVars, n, Drain
<1>13. CASE Reschedule
  BY <1>0, <1>7, <1>13 DEF Reschedule, posterVars, n, Drain, schedule_event, EventsCanBeSent
<1>14. CASE UNCHANGED vars
  BY <1>0, <1>7, <1>14 DEF vars, posterVars, consumerVars, n, Drain
<1> QED
  BY <1>1, <1>2, <1>3, <1>4, <1>5, <1>6, <1>8, <1>9, <1>10, <1>11, <1>12, <1>13, <1>14
  DEF Next, PosterStep, ConsumerStep
-----------------------------------------------------------------------------
(* The queue keeps what CallbackQueue promises. *)

LEMMA NumberedAppend ==
  ASSUME NEW w \in Seq(Nodes), NEW p \in Nat, NEW e \in Nodes
  PROVE  Numbered(Append(w, e), p + 1) = Append(Numbered(w, p), [node |-> e, post |-> p + 1])
<1> DEFINE S == [node : Nodes, post : Int]
           a == Numbered(Append(w, e), p + 1)
           b == Append(Numbered(w, p), [node |-> e, post |-> p + 1])
<1>1. Len(w) \in Nat /\ Append(w, e) \in Seq(Nodes) /\ Len(Append(w, e)) = Len(w) + 1
      /\ Append(w, e)[Len(w) + 1] = e /\ \A i \in 1..Len(w) : Append(w, e)[i] = w[i] /\ w[i] \in Nodes
  OBVIOUS
<1>2. Numbered(w, p) \in Seq(S) /\ Len(Numbered(w, p)) = Len(w)
  BY <1>1 DEF Numbered
<1>3. a \in Seq(S) /\ Len(a) = Len(w) + 1
  BY <1>1 DEF Numbered
<1>4. b \in Seq(S) /\ Len(b) = Len(w) + 1
  BY <1>1, <1>2
<1>5. \A i \in 1..Len(w) + 1 : a[i] = b[i]
  <2>1. ASSUME NEW i \in 1..Len(w) PROVE a[i] = b[i]
    <3>1. b[i] = Numbered(w, p)[i]
      BY <1>2
    <3> QED
      BY <1>1, <3>1 DEF Numbered
  <2>2. a[Len(w) + 1] = b[Len(w) + 1]
    <3>1. b[Len(w) + 1] = [node |-> e, post |-> p + 1]
      BY <1>2
    <3> QED
      BY <1>1, <3>1 DEF Numbered
  <2> HIDE DEF a, b
  <2> QED
    BY <1>1, <2>1, <2>2
<1> HIDE DEF a, b, S
<1>6. a = b
  BY <1>3, <1>4, <1>5, SeqEqual
<1> QED
  BY <1>6 DEF a, b

LEMMA NumberedTail ==
  ASSUME NEW w \in Seq(Nodes), w # <<>>, NEW p \in Nat
  PROVE  /\ Numbered(Tail(w), p) = Tail(Numbered(w, p))
         /\ Numbered(w, p) # <<>>
         /\ Head(Numbered(w, p)).post = p - Len(w) + 1
<1> DEFINE S == [node : Nodes, post : Int]
           a == Numbered(Tail(w), p)
           c == Numbered(w, p)
           b == Tail(c)
<1>1. /\ Len(w) \in Nat /\ Len(w) # 0 /\ Tail(w) \in Seq(Nodes) /\ Len(Tail(w)) = Len(w) - 1
      /\ \A i \in 1..Len(w) - 1 : Tail(w)[i] = w[i + 1]
      /\ \A i \in 1..Len(w) : w[i] \in Nodes
  BY HeadTailProperties, EmptySeq
<1>2. c \in Seq(S) /\ Len(c) = Len(w) /\ c[1] = [node |-> w[1], post |-> p - Len(w) + 1]
      /\ c # <<>>
  BY <1>1 DEF Numbered
<1>3. a \in Seq(S) /\ Len(a) = Len(w) - 1
  BY <1>1 DEF Numbered
<1>4. /\ b \in Seq(S) /\ Len(b) = Len(w) - 1
      /\ \A i \in 1..Len(w) - 1 : b[i] = c[i + 1]
  <2> HIDE DEF c, S
  <2> QED
    BY <1>2, HeadTailProperties
<1>5. \A i \in 1..Len(w) - 1 : a[i] = b[i]
  <2>1. ASSUME NEW i \in 1..Len(w) - 1 PROVE a[i] = b[i]
    <3>1. b[i] = c[i + 1]
      BY <1>4
    <3>2. c[i + 1] = [node |-> w[i + 1], post |-> p - Len(w) + (i + 1)]
      BY <1>1 DEF Numbered
    <3>3. a[i] = [node |-> w[i + 1], post |-> p - (Len(w) - 1) + i]
      BY <1>1 DEF Numbered
    <3>4. p - (Len(w) - 1) + i = p - Len(w) + (i + 1)
      BY <1>1
    <3> HIDE DEF a, b, c
    <3> QED
      BY <3>1, <3>2, <3>3, <3>4
  <2> HIDE DEF a, b
  <2> QED
    BY <2>1
<1>6. Head(c) = c[1]
  BY <1>2
<1> HIDE DEF a, b, S
<1>7. a = b
  BY <1>3, <1>4, <1>5, SeqEqual
<1> QED
  BY <1>2, <1>6, <1>7 DEF a, b

\* The storages that wait: the one in hand before its call, then the queue.
LEMMA WaitingElements ==
  ASSUME TypeOK
  PROVE  /\ Waiting \in Seq(Nodes)
         /\ consumer \in {"release", "call"} =>
              /\ Len(Waiting) = Len(arm_uc_queue) + 1 /\ Waiting[1] = element
              /\ \A i \in 1..Len(arm_uc_queue) : Waiting[i + 1] = arm_uc_queue[i]
         /\ consumer \notin {"release", "call"} => Waiting = arm_uc_queue
<1>1. arm_uc_queue \in Seq(Nodes)
  BY DEF TypeOK
<1>2. CASE consumer \in {"release", "call"}
  <2>1. <<element>> \in Seq(Nodes) /\ Len(<<element>>) = 1 /\ <<element>>[1] = element
    BY <1>2 DEF TypeOK
  <2>2. Waiting = <<element>> \o arm_uc_queue
    BY <1>2 DEF Waiting
  <2>3. /\ Waiting \in Seq(Nodes) /\ Len(Waiting) = 1 + Len(arm_uc_queue)
        /\ \A i \in 1..1 + Len(arm_uc_queue) :
             Waiting[i] = IF i <= 1 THEN <<element>>[i] ELSE arm_uc_queue[i - 1]
    BY <1>1, <2>1, <2>2, ConcatProperties
  <2> HIDE DEF Waiting
  <2> QED
    BY <1>1, <1>2, <2>1, <2>3
<1>3. CASE consumer \notin {"release", "call"}
  BY <1>1, <1>3, ConcatEmptySeq DEF Waiting
<1> QED
  BY <1>2, <1>3

\* What a step does to them.
LEMMA StepWaiting ==
  ASSUME TypeOK, TypeOK', [Next]_vars
  PROVE  \/ UNCHANGED Waiting /\ UNCHANGED <<posted, executed>>
         \/ \E t \in Threads : PostPush(t) /\ Waiting' = Append(Waiting, node[t])
         \/ Call /\ Waiting # <<>> /\ Waiting[1] = element /\ Waiting' = Tail(Waiting)
<1> DEFINE H == IF consumer \in {"release", "call"} THEN <<element>> ELSE <<>>
<1>0. arm_uc_queue \in Seq(Nodes) /\ H \in Seq(Nodes)
  BY DEF TypeOK
<1>1. ASSUME NEW t \in Threads, PostPush(t) PROVE Waiting' = Append(Waiting, node[t])
  <2>1. /\ Waiting' = H \o Append(arm_uc_queue, node[t]) /\ node[t] \in Nodes
    BY <1>1 DEF PostPush, consumerVars, Waiting, TypeOK
  <2>2. H \o Append(arm_uc_queue, node[t]) = Append(H \o arm_uc_queue, node[t])
    <3> HIDE DEF H
    <3> QED
      BY <1>0, <2>1
  <2> QED
    BY <2>1, <2>2, Zenon DEF Waiting
<1>2. CASE Call
  <2>1. Waiting = <<element>> \o arm_uc_queue /\ Waiting' = arm_uc_queue
    BY <1>0, <1>2, ConcatEmptySeq DEF Call, Waiting
  <2>2. element \in Nodes
    BY <1>2 DEF Call, TypeOK
  <2>3. Waiting # <<>> /\ Waiting[1] = element /\ arm_uc_queue = Tail(Waiting)
    BY <1>0, <2>1, <2>2
  <2> QED
    BY <1>2, <2>1, <2>3
<1>3. CASE Pop
  <2>1. UNCHANGED <<posted, executed>>
    BY <1>3 DEF Pop
  <2>2. CASE arm_uc_queue = <<>>
    BY <1>3, <2>1, <2>2 DEF Pop, Waiting
  <2>3. CASE arm_uc_queue # <<>>
    <3>1. Waiting = arm_uc_queue /\ Waiting' = <<Head(arm_uc_queue)>> \o Tail(arm_uc_queue)
      BY <1>0, <1>3, <2>3, ConcatEmptySeq, Zenon DEF Pop, Waiting
    <3>2. arm_uc_queue = <<Head(arm_uc_queue)>> \o Tail(arm_uc_queue)
      BY <1>0, <2>3
    <3> QED
      BY <2>1, <3>1, <3>2, Zenon
  <2> QED
    BY <2>2, <2>3
<1>4. CASE EventHandler
  BY <1>4, Zenon DEF EventHandler, Waiting
<1>5. CASE Release
  BY <1>5 DEF Release, Waiting
<1>6. CASE Return
  BY <1>6, Zenon DEF Return, Waiting
<1>7. CASE Reschedule
  BY <1>7, Zenon DEF Reschedule, Waiting
<1>8. ASSUME NEW t \in Threads,
             \/ \E n \in Nodes : PostBegin(t, n)
             \/ PostLock(t) \/ PostFill(t) \/ PostCount(t) \/ PostNotify(t)
      PROVE  UNCHANGED Waiting /\ UNCHANGED <<posted, executed>>
  BY <1>8, Zenon DEF PostBegin, PostLock, PostFill, PostCount, PostNotify, consumerVars, Waiting
<1>9. CASE UNCHANGED vars
  BY <1>9 DEF vars, consumerVars, Waiting
<1> QED
  BY <1>1, <1>2, <1>3, <1>4, <1>5, <1>6, <1>7, <1>8, <1>9 DEF Next, PosterStep, ConsumerStep

LEMMA InitFields == Init => FieldsInv
<1> SUFFICES ASSUME Init PROVE FieldsInv
  OBVIOUS
<1>1. Waiting = <<>> /\ Len(Waiting) = 0
  BY DEF Init, Waiting
<1> QED
  BY <1>1 DEF Init, FieldsInv, Held, Awaited, NotPosted

LEMMA WaitingOnce ==
  ASSUME TypeOK, QueuedOnce, NotPosted
  PROVE  \A i, j \in 1..Len(Waiting) : Waiting[i] = Waiting[j] => i = j
<1>1. /\ Len(arm_uc_queue) \in Nat /\ DOMAIN arm_uc_queue = 1..Len(arm_uc_queue)
      /\ \A i, j \in 1..Len(arm_uc_queue) : arm_uc_queue[i] = arm_uc_queue[j] => i = j
  BY DEF TypeOK, QueuedOnce
<1>2. CASE consumer \in {"release", "call"}
  <2>1. /\ Len(Waiting) = Len(arm_uc_queue) + 1 /\ Waiting[1] = element
        /\ \A i \in 1..Len(arm_uc_queue) : Waiting[i + 1] = arm_uc_queue[i]
    BY <1>2, WaitingElements
  <2>2. \A i \in 1..Len(arm_uc_queue) : arm_uc_queue[i] # element
    BY <1>1, <1>2 DEF NotPosted, Queued, Range
  <2>3. \A i \in 2..Len(Waiting) : i - 1 \in 1..Len(arm_uc_queue) /\ Waiting[i] = arm_uc_queue[i - 1]
    <3>1. ASSUME NEW i \in 2..Len(Waiting)
          PROVE  i - 1 \in 1..Len(arm_uc_queue) /\ Waiting[(i - 1) + 1] = arm_uc_queue[i - 1]
      BY <1>1, <2>1
    <3> QED
      BY <3>1
  <2> HIDE DEF Waiting
  <2>4. ASSUME NEW i \in 1..Len(Waiting), NEW j \in 1..Len(Waiting), Waiting[i] = Waiting[j]
        PROVE  i = j
    BY <1>1, <2>1, <2>2, <2>3, <2>4
  <2> QED
    BY <2>4
<1>3. CASE consumer \notin {"release", "call"}
  BY <1>1, <1>3, WaitingElements, Zenon
<1> QED
  BY <1>2, <1>3

\* With careful posters the consumer moves when no poster is at work.
LEMMA LoopRunsAlone ==
  ASSUME Careful, LoopFree
  PROVE  \A t \in Threads : pc[t] = "idle"
BY SchedulerAssumption DEF Careful, LoopFree, LoopMayRun

LEMMA StepNotPosted ==
  ASSUME TypeOK, TypeOK', QueuedOnce, Careful, NotPosted, [Next]_vars
  PROVE  NotPosted'
<1> USE DEF NotPosted, TypeOK
<1>0. arm_uc_queue' = arm_uc_queue => Queued' = Queued
  BY DEF Queued
<1>1. ASSUME NEW t \in Threads, NEW n \in Nodes, PostBegin(t, n) PROVE NotPosted'
  BY <1>0, <1>1 DEF PostBegin, consumerVars, Careful
<1>2. ASSUME NEW t \in Threads, PostLock(t) PROVE NotPosted'
  BY <1>0, <1>2 DEF PostLock, consumerVars
<1>3. ASSUME NEW t \in Threads, PostPush(t) PROVE NotPosted'
  <2>1. Queued' = Queued \cup {node[t]}
    <3>1. /\ arm_uc_queue' = Append(arm_uc_queue, node[t])
          /\ node[t] \in Nodes /\ arm_uc_queue \in Seq(Nodes)
      BY <1>3 DEF PostPush
    <3>2. Range(Append(arm_uc_queue, node[t])) = Range(arm_uc_queue) \cup {node[t]}
      BY <3>1, AppendElements
    <3> QED
      BY <3>1, <3>2, Zenon DEF Queued
  <2> QED
    BY <1>3, <2>1 DEF PostPush, consumerVars
<1>4. ASSUME NEW t \in Threads, PostFill(t) PROVE NotPosted'
  BY <1>0, <1>4 DEF PostFill, consumerVars
<1>5. ASSUME NEW t \in Threads, PostCount(t) PROVE NotPosted'
  BY <1>0, <1>5 DEF PostCount, consumerVars
<1>6. ASSUME NEW t \in Threads, PostNotify(t) PROVE NotPosted'
  BY <1>0, <1>6 DEF PostNotify, consumerVars
<1>7. CASE Pop
  <2>1. \A t \in Threads : pc[t] = "idle" /\ pc'[t] = "idle"
    BY <1>7, LoopRunsAlone DEF Pop, posterVars
  <2>2. CASE arm_uc_queue = <<>>
    BY <1>7, <2>2 DEF Pop
  <2>3. CASE arm_uc_queue # <<>>
    <3>1. /\ arm_uc_queue' = Tail(arm_uc_queue) /\ element' = Head(arm_uc_queue)
          /\ arm_uc_queue \in Seq(Nodes)
      BY <1>7, <2>3 DEF Pop
    <3>2. Range(Tail(arm_uc_queue)) = Range(arm_uc_queue) \ {Head(arm_uc_queue)}
      BY <2>3, <3>1, TailElements, QueuedOnceOnSets, Zenon
    <3>3. element' \notin Queued'
      BY <3>1, <3>2 DEF Queued
    <3> QED
      BY <2>1, <3>3
  <2> QED
    BY <2>2, <2>3
<1>8. CASE EventHandler
  BY <1>8 DEF EventHandler
<1>9. CASE Release
  BY <1>0, <1>9 DEF Release, posterVars
<1>10. CASE Call
  BY <1>10 DEF Call
<1>11. CASE Return
  BY <1>11 DEF Return
<1>12. CASE Reschedule
  BY <1>12 DEF Reschedule
<1>13. CASE UNCHANGED vars
  BY <1>0, <1>13 DEF vars, posterVars, consumerVars
<1> QED
  BY <1>1, <1>2, <1>3, <1>4, <1>5, <1>6, <1>7, <1>8, <1>9, <1>10, <1>11, <1>12, <1>13
  DEF Next, PosterStep, ConsumerStep

\* A step that keeps the storages that wait and who is filling what.
LEMMA QuietStep ==
  ASSUME Held, Awaited, UNCHANGED <<Waiting, posted, fields, post>>,
         \A t \in Threads : pc'[t] = "fill" <=> pc[t] = "fill",
         \A t \in Threads : pc[t] = "fill" => node'[t] = node[t]
  PROVE  Held' /\ Awaited'
<1>1. \A t \in Threads, i \in 1..Len(Waiting) : Filling(t, i)' <=> Filling(t, i)
  BY DEF Filling, Number
<1>2. \A i \in 1..Len(Waiting) : Number(i)' = Number(i)
  BY DEF Number
<1> QED
  BY <1>1, <1>2 DEF Held, Awaited

LEMMA StepFields ==
  ASSUME TypeOK, TypeOK', QueuedOnce, FieldsInv, [Next]_vars
  PROVE  FieldsInv'
<1>1. Careful' = Careful
  BY Zenon DEF Careful, Preempt, PostersWait, Next, vars, PosterStep, ConsumerStep, PostBegin,
         PostLock, PostPush, PostFill, PostCount, PostNotify, EventHandler, Pop, Release,
         Call, Return, Reschedule
<1> SUFFICES ASSUME Careful PROVE Held' /\ Awaited' /\ NotPosted'
  BY <1>1 DEF FieldsInv
<1>2. Held /\ Awaited /\ NotPosted
  BY DEF FieldsInv
<1>3. NotPosted'
  BY <1>2, StepNotPosted
<1>4. /\ Waiting \in Seq(Nodes) /\ Len(Waiting) \in Nat
      /\ \A i \in 1..Len(Waiting) : Waiting[i] \in Nodes
      /\ \A i, j \in 1..Len(Waiting) : Waiting[i] = Waiting[j] => i = j
  <2>1. Waiting \in Seq(Nodes)
    BY WaitingElements
  <2> HIDE DEF Waiting
  <2> QED
    BY <1>2, <2>1, WaitingOnce
<1> HIDE DEF Waiting
<1>5. /\ fields \in [Nodes -> Nat] /\ pc \in [Threads -> PosterStates]
      /\ node \in [Threads -> Nodes \cup {NoNode}] /\ post \in [Threads -> Nat] /\ posted \in Nat
      /\ \A t \in Threads : pc[t] # "idle" => node[t] \in Nodes
  BY DEF TypeOK
<1>6. ASSUME NEW t \in Threads, PostPush(t), Waiting' = Append(Waiting, node[t])
      PROVE  Held' /\ Awaited'
  <2>1. /\ pc[t] = "push" /\ node[t] \in Nodes /\ UNCHANGED <<fields, node>>
        /\ pc' = [pc EXCEPT ![t] = "fill"] /\ posted' = posted + 1
        /\ post' = [post EXCEPT ![t] = posted + 1]
    BY <1>5, <1>6 DEF PostPush
  <2>2. /\ Len(Waiting') = Len(Waiting) + 1 /\ Waiting'[Len(Waiting) + 1] = node[t]
        /\ \A i \in 1..Len(Waiting) : Waiting'[i] = Waiting[i]
    <3>1. Waiting \in Seq(Nodes) /\ node[t] \in Nodes
      BY <1>4, <2>1
    <3>2. /\ Len(Append(Waiting, node[t])) = Len(Waiting) + 1
          /\ Append(Waiting, node[t])[Len(Waiting) + 1] = node[t]
          /\ \A i \in 1..Len(Waiting) : Append(Waiting, node[t])[i] = Waiting[i]
      BY <3>1, AppendPositions
    <3> QED
      BY <1>6, <3>2, Zenon
  <2>0. PICK k \in Nat : k = Len(Waiting) + 1
    BY <1>4
  <2>3. Number(k)' = posted + 1 /\ \A i \in 1..Len(Waiting) : Number(i)' = Number(i)
    <3> DEFINE l == Len(Waiting)
               m == Len(Waiting')
    <3>0. l \in Nat /\ m = l + 1 /\ k = l + 1 /\ posted \in Nat /\ posted' = posted + 1
      BY <1>4, <1>5, <2>0, <2>1, <2>2, Zenon
    <3>1. posted' - m = posted - l /\ posted - l + k = posted + 1
      <4> HIDE DEF l, m
      <4> QED
        BY <3>0
    <3> QED
      BY <3>1, Zenon DEF Number
  <2>4. Filling(t, k)'
    BY <1>5, <2>0, <2>1, <2>2, <2>3 DEF Filling
  <2>5. ASSUME NEW u \in Threads, NEW i \in 1..Len(Waiting), Filling(u, i) PROVE Filling(u, i)'
    BY <1>5, <2>1, <2>2, <2>3, <2>5 DEF Filling
  <2>6. ASSUME NEW i \in 1..Len(Waiting) PROVE fields'[Waiting'[i]] = Number(i)' \/ \E u \in Threads : Filling(u, i)'
    BY <1>2, <2>1, <2>2, <2>3, <2>5 DEF Held
  <2>7. \A i \in 1..Len(Waiting'): i \in 1..Len(Waiting) \/ i = k
    BY <1>4, <2>0, <2>2
  <2>8. Held'
    BY <2>4, <2>6, <2>7 DEF Held
  <2>9. ASSUME NEW u \in Threads, pc'[u] = "fill" PROVE \E i \in 1..Len(Waiting') : Filling(u, i)'
    <3>1. CASE u = t
      BY <1>4, <2>0, <2>2, <2>4, <3>1
    <3>2. CASE u # t
      <4>1. PICK i \in 1..Len(Waiting) : Filling(u, i)
        BY <1>2, <1>5, <2>1, <2>9, <3>2 DEF Awaited
      <4> QED
        BY <1>4, <2>2, <2>5, <4>1
    <3> QED
      BY <3>1, <3>2
  <2> QED
    BY <2>8, <2>9 DEF Awaited
<1>7. ASSUME NEW t \in Threads, PostFill(t), UNCHANGED Waiting PROVE Held' /\ Awaited'
  <2>1. /\ pc[t] = "fill" /\ fields' = [fields EXCEPT ![node[t]] = post[t]]
        /\ pc' = [pc EXCEPT ![t] = "count"] /\ UNCHANGED <<node, post, posted>>
    BY <1>7 DEF PostFill
  <2>2. PICK k \in 1..Len(Waiting) : Filling(t, k)
    BY <1>2, <2>1 DEF Awaited
  <2>3. node[t] = Waiting[k] /\ post[t] = Number(k) /\ node[t] \in Nodes
    BY <1>5, <2>1, <2>2 DEF Filling
  <2>4. \A i \in 1..Len(Waiting) : Number(i)' = Number(i) /\ Waiting'[i] = Waiting[i]
    BY <1>7, <2>1 DEF Number
  <2>5. ASSUME NEW u \in Threads, NEW i \in 1..Len(Waiting), u # t
        PROVE  Filling(u, i)' <=> Filling(u, i)
    BY <1>5, <1>7, <2>1, <2>4, <2>5 DEF Filling
  <2>6. ASSUME NEW i \in 1..Len(Waiting)
        PROVE  fields'[Waiting[i]] = Number(i) \/ \E u \in Threads : Filling(u, i)'
    <3>1. CASE i = k
      BY <1>5, <2>1, <2>3, <3>1
    <3>2. CASE i # k
      <4>1. Waiting[i] # node[t] /\ fields'[Waiting[i]] = fields[Waiting[i]]
        BY <1>4, <1>5, <2>1, <2>3, <3>2
      <4>2. ~ Filling(t, i)
        BY <4>1 DEF Filling
      <4> QED
        BY <1>2, <2>5, <4>1, <4>2 DEF Held
    <3> QED
      BY <3>1, <3>2
  <2>7. Held'
    BY <1>7, <2>4, <2>6 DEF Held
  <2>8. ASSUME NEW u \in Threads, pc'[u] = "fill" PROVE u # t /\ pc[u] = "fill"
    BY <1>5, <2>1, <2>8
  <2> QED
    BY <1>2, <1>7, <2>5, <2>7, <2>8 DEF Awaited
<1>8. ASSUME Call, Waiting # <<>>, Waiting' = Tail(Waiting) PROVE Held' /\ Awaited'
  <2>1. /\ \A t \in Threads : pc[t] = "idle" /\ pc'[t] = "idle"
        /\ UNCHANGED <<fields, posted>>
    BY <1>8, LoopRunsAlone DEF Call, posterVars
  <2>2. /\ Len(Waiting') = Len(Waiting) - 1
        /\ \A i \in 1..Len(Waiting') : Waiting'[i] = Waiting[i + 1] /\ i + 1 \in 1..Len(Waiting)
    BY <1>4, <1>8, HeadTailProperties
  <2>3. \A i \in 1..Len(Waiting') : Number(i)' = Number(i + 1)
    BY <1>4, <1>5, <2>1, <2>2 DEF Number
  <2>4. \A i \in 1..Len(Waiting) : fields[Waiting[i]] = Number(i)
    BY <1>2, <2>1 DEF Held, Filling
  <2> QED
    BY <2>1, <2>2, <2>3, <2>4 DEF Held, Awaited
<1>9. ASSUME UNCHANGED <<Waiting, posted>>, ~ \E t \in Threads : PostFill(t)
      PROVE  Held' /\ Awaited'
  <2>1. ASSUME NEW t \in Threads, NEW n \in Nodes, PostBegin(t, n) PROVE Held' /\ Awaited'
    BY <1>2, <1>5, <1>9, <2>1, QuietStep DEF PostBegin
  <2>2. ASSUME NEW t \in Threads, PostLock(t) PROVE Held' /\ Awaited'
    BY <1>2, <1>5, <1>9, <2>2, QuietStep DEF PostLock
  <2>3. ASSUME NEW t \in Threads, PostCount(t) PROVE Held' /\ Awaited'
    BY <1>2, <1>5, <1>9, <2>3, QuietStep DEF PostCount
  <2>4. ASSUME NEW t \in Threads, PostNotify(t) PROVE Held' /\ Awaited'
    BY <1>2, <1>5, <1>9, <2>4, QuietStep DEF PostNotify
  <2>5. CASE ConsumerStep \/ UNCHANGED vars
    <3>1. UNCHANGED <<pc, node, post, fields>>
      BY <2>5 DEF ConsumerStep, EventHandler, Pop, Release, Call, Return, Reschedule, vars, posterVars
    <3> QED
      BY <1>2, <1>9, <3>1, QuietStep
  <2>6. ASSUME NEW t \in Threads, PostPush(t) PROVE FALSE
    BY <1>5, <1>9, <2>6 DEF PostPush
  <2> QED
    BY <1>9, <2>1, <2>2, <2>3, <2>4, <2>5, <2>6 DEF Next, PosterStep
<1>10. ASSUME NEW t \in Threads, PostFill(t) PROVE UNCHANGED Waiting
  BY <1>10 DEF PostFill, consumerVars, Waiting
<1> QED
  BY <1>3, <1>6, <1>7, <1>8, <1>9, <1>10, StepWaiting

\* Linking an element in is a post, calling its callback a run; every other
\* step leaves the abstract queue as it is.
LEMMA StepKeepsPromise ==
  ASSUME TypeOK, TypeOK', QueuedOnce, LockInv, FieldsInv, Careful, [Next]_vars
  PROVE  [Promise!Next]_(Promise!vars)
<1>1. Waiting \in Seq(Nodes) /\ posted \in Nat /\ Held /\ NotPosted
  BY WaitingElements DEF TypeOK, FieldsInv
<1>2. CASE UNCHANGED Waiting /\ UNCHANGED <<posted, executed>>
  <2>1. UNCHANGED Numbered(Waiting, posted)
    BY <1>2 DEF Numbered
  <2> QED
    BY <1>2, <2>1 DEF Promise!vars
<1>3. ASSUME NEW t \in Threads, PostPush(t), Waiting' = Append(Waiting, node[t])
      PROVE  Promise!Next
  <2>1. /\ pc[t] = "push" /\ node[t] \in Nodes
        /\ posted' = posted + 1 /\ executed' = executed
    BY <1>3 DEF PostPush, TypeOK, consumerVars
  <2>0. Len(arm_uc_queue) \in Nat /\ DOMAIN arm_uc_queue = 1..Len(arm_uc_queue)
    BY DEF TypeOK
  <2>2. ASSUME NEW i \in 1..Len(Waiting) PROVE Waiting[i] # node[t]
    <3>1. node[t] \notin Queued /\ (consumer \in {"release", "call"} => node[t] # element)
      BY <1>1, <2>1 DEF LockInv, NotPosted
    <3>2. CASE consumer \in {"release", "call"}
      <4>1. /\ Len(Waiting) = Len(arm_uc_queue) + 1 /\ Waiting[1] = element
            /\ \A j \in 1..Len(arm_uc_queue) : Waiting[j + 1] = arm_uc_queue[j]
        BY <3>2, WaitingElements
      <4>2. CASE i = 1
        BY <3>1, <3>2, <4>1, <4>2
      <4>3. CASE i # 1
        <5>1. i - 1 \in 1..Len(arm_uc_queue) /\ Waiting[(i - 1) + 1] = arm_uc_queue[i - 1]
          BY <2>0, <4>1, <4>3
        <5>2. Waiting[i] = arm_uc_queue[i - 1]
          BY <5>1
        <5> QED
          BY <2>0, <3>1, <5>1, <5>2 DEF Queued, Range
      <4> QED
        BY <4>2, <4>3
    <3>3. CASE consumer \notin {"release", "call"}
      <4>1. Waiting = arm_uc_queue
        BY <3>3, WaitingElements
      <4>2. arm_uc_queue[i] \in Queued
        BY <2>0, <4>1 DEF Queued, Range
      <4> HIDE DEF Waiting
      <4> QED
        BY <3>1, <4>1, <4>2
    <3> QED
      BY <3>2, <3>3
  <2>3. Len(Numbered(Waiting, posted)) = Len(Waiting)
        /\ \A i \in 1..Len(Waiting) : Numbered(Waiting, posted)[i].node = Waiting[i]
    BY <1>1 DEF Numbered
  <2>4. Numbered(Waiting, posted)' =
          Append(Numbered(Waiting, posted), [node |-> node[t], post |-> posted'])
    <3>1. Numbered(Waiting, posted)' = Numbered(Append(Waiting, node[t]), posted + 1)
      BY <1>3, <2>1 DEF Numbered
    <3> QED
      BY <1>1, <2>1, <3>1, NumberedAppend
  <2>5. Promise!Post(node[t])
    BY <2>1, <2>2, <2>3, <2>4 DEF Promise!Post
  <2> QED
    BY <2>1, <2>5 DEF Promise!Next
<1>4. ASSUME Call, Waiting # <<>>, Waiting[1] = element, Waiting' = Tail(Waiting)
      PROVE  Promise!Next
  <2>1. /\ \A t \in Threads : pc[t] = "idle"
        /\ executed' = Append(executed, fields[element]) /\ UNCHANGED posted
    BY <1>4, LoopRunsAlone DEF Call
  <2>2. 1 \in 1..Len(Waiting)
    BY <1>1, <1>4, EmptySeq
  <2>3. fields[element] = posted - Len(Waiting) + 1
    BY <1>1, <1>4, <2>1, <2>2 DEF Held, Filling, Number
  <2>4. Numbered(Waiting, posted)' = Tail(Numbered(Waiting, posted))
    <3>1. Numbered(Waiting, posted)' = Numbered(Tail(Waiting), posted)
      BY <1>4, <2>1 DEF Numbered
    <3> QED
      BY <1>1, <1>4, <3>1, NumberedTail, Zenon
  <2>5. Numbered(Waiting, posted) # <<>> /\ Head(Numbered(Waiting, posted)).post = fields[element]
    BY <1>1, <1>4, <2>3, NumberedTail, Zenon
  <2>6. Promise!Run
    BY <2>1, <2>4, <2>5 DEF Promise!Run
  <2> QED
    BY <2>6 DEF Promise!Next
<1> QED
  BY <1>2, <1>3, <1>4, StepWaiting

-----------------------------------------------------------------------------
(* The theorems. *)

\* Every variable of the queue and of its users keeps its type: a poster and
\* the consumer hold a storage whenever they use one.
THEOREM QueueTypes == Spec => []TypeOK
<1>1. TypeOK /\ [Next]_vars => TypeOK'
  BY StepTypes
<1> QED
  BY <1>1, InitTypes, PTL DEF Spec

\* A storage is in the queue at most once, and then locked (aq_push_tail,
\* aq_pop_head): the lock is taken before it is linked in, and given back when
\* it is in the hands of the consumer.
THEOREM StorageIsQueuedOnce == Spec => []QueuedOnce
<1>1. TypeOK /\ QueuedOnce /\ LockInv /\ [Next]_vars => (QueuedOnce /\ LockInv)'
  BY StepQueue
<1> QED
  BY <1>1, QueueTypes, InitQueue, PTL DEF Spec

\* No wake-up is lost between ARM_UC_PostCallback and either consumer.
THEOREM WakeUpIsNotLost ==
  ASSUME EventsCanBeSent
  PROVE  Spec => []NoLostWakeUp
<1>1. TypeOK /\ CounterInv /\ [Next]_vars => CounterInv'
  BY StepCounter
<1>2. TypeOK /\ CounterInv /\ WakeInv /\ [Next]_vars => WakeInv'
  BY StepWake
<1>3. TypeOK /\ CounterInv /\ WakeInv => NoLostWakeUp
  <2> SUFFICES ASSUME TypeOK, CounterInv, WakeInv, consumer = "idle",
                      Len(arm_uc_queue) > Cardinality(Uncounted)
               PROVE  wakeups > 0 \/ \E t \in Threads : pc[t] = "notify"
    BY DEF NoLostWakeUp
  <2>1. /\ Uncounted \in SUBSET Threads /\ Notifying \in SUBSET Threads
        /\ Len(arm_uc_queue) \in Nat /\ arm_uc_queue_counter \in Int /\ wakeups \in Nat
    BY DEF Uncounted, Notifying, TypeOK
  <2>2. Cardinality(Uncounted) \in Nat /\ Cardinality(Notifying) \in Nat
    BY <2>1, CountThreads
  <2>3. arm_uc_queue_counter > 0
    BY <2>1, <2>2 DEF CounterInv, InHand
  <2>4. wakeups > 0 \/ Cardinality(Notifying) > 0
    BY <2>1, <2>2, <2>3 DEF WakeInv, Wakers
  <2>5. Cardinality(Notifying) > 0 => Notifying # {}
    BY <2>1, CountThreads
  <2> QED
    BY <2>4, <2>5 DEF Notifying
<1> QED
  BY <1>1, <1>2, <1>3, QueueTypes, InitCounter, InitWake, PTL DEF Spec

\* ARM_UC_ProcessSingleCallback is scheduled once however many callbacks are
\* posted, and always finds an element.
THEOREM WakeUpIsNotDoubled ==
  ASSUME EventsCanBeSent
  PROVE  Spec => []OneWakeUp
<1>1. TypeOK /\ CounterInv /\ [Next]_vars => CounterInv'
  BY StepCounter
<1>2. TypeOK /\ CounterInv /\ WakeInv /\ [Next]_vars => WakeInv'
  BY StepWake
<1>3. TypeOK /\ CounterInv /\ WakeInv => OneWakeUp
  <2> SUFFICES ASSUME TypeOK, CounterInv, WakeInv, ~ Drain
               PROVE  Wakers <= 1 /\ (consumer = "pop" => arm_uc_queue # <<>>)
    BY DEF OneWakeUp, Wakers
  <2>1. /\ Uncounted \in SUBSET Threads /\ Notifying \in SUBSET Threads
        /\ Len(arm_uc_queue) \in Nat /\ arm_uc_queue_counter \in Int /\ wakeups \in Nat
    BY DEF Uncounted, Notifying, TypeOK
  <2>2. Cardinality(Uncounted) \in Nat /\ Cardinality(Notifying) \in Nat
    BY <2>1, CountThreads
  <2>3. Wakers <= 1
    BY <2>1, <2>2 DEF WakeInv
  <2>4. consumer = "pop" => Len(arm_uc_queue) > 0
    BY <2>1, <2>2 DEF WakeInv, Wakers, CounterInv, InHand
  <2> QED
    BY <2>3, <2>4
<1> QED
  BY <1>1, <1>2, <1>3, QueueTypes, InitCounter, InitWake, PTL DEF Spec

\* The queue implements CallbackQueue when the posters have priority over the
\* loop and post no storage that is about to be called.
THEOREM QueueKeepsThePromise == Spec => KeepsThePromise
<1>1. Init => Promise!Init
  <2> SUFFICES ASSUME Init PROVE Promise!Init
    OBVIOUS
  <2>1. Waiting = <<>>
    BY DEF Init, Waiting
  <2>2. Numbered(Waiting, posted) = <<>>
    BY <2>1 DEF Numbered
  <2> QED
    BY <2>2 DEF Init, Promise!Init
<1>2. TypeOK /\ QueuedOnce /\ LockInv /\ [Next]_vars => (QueuedOnce /\ LockInv)'
  BY StepQueue
<1>3. TypeOK /\ TypeOK' /\ QueuedOnce /\ FieldsInv /\ [Next]_vars => FieldsInv'
  BY StepFields
<1>4. TypeOK /\ TypeOK' /\ QueuedOnce /\ LockInv /\ FieldsInv /\ [Next]_vars
        => [Careful => [Promise!Next]_(Promise!vars)]_vars
  BY StepKeepsPromise
<1> QED
  BY <1>1, <1>2, <1>3, <1>4, QueueTypes, InitQueue, InitFields, PTL DEF Spec, KeepsThePromise
=============================================================================
