---------------------------- MODULE UCScheduler ----------------------------
(***************************************************************************)
(* The callback queue of the update client and the way it wakes the event  *)
(* loop: ARM_UC_PostCallback and the two consumers of                      *)
(* arm_uc_scheduler.c, the lock of an element in atomic-queue.c, and the   *)
(* tasklet of UpdateClient.cpp that runs one callback per event.           *)
(*                                                                         *)
(* A post is known by its number: the n-th successful push of the queue.   *)
(* The two fields of a storage are written and read in one step each: what *)
(* matters below is whose values they are, and a torn pair is one more     *)
(* wrong pair.  The queue itself is lock free and its retry loops end in   *)
(* one compare-and-swap; each of them is one step.                         *)
(***************************************************************************)
EXTENDS Integers, Sequences, FiniteSets

CONSTANTS
  Threads,      \* the threads and interrupts that post
  Loop,         \* the thread of the event loop; it posts too
  Nodes,        \* the arm_uc_callback_t storages
  NoNode,       \* not a storage
  MaxPosts,     \* bound: number of successful posts
  Modes,        \* how the queue is used, one of which is chosen at the start
  SendMayFail   \* TRUE: eventOS_event_send may find no event storage

\* drain: ARM_UC_ProcessQueue is used, and not ARM_UC_ProcessSingleCallback.
\* preempt: the posters have priority over the event loop.
\* wait: no storage is posted between its pop and its call.
Mode == [drain : BOOLEAN, preempt : BOOLEAN, wait : BOOLEAN]

ASSUME SchedulerAssumption ==
  /\ Loop \in Threads /\ IsFiniteSet(Threads)
  /\ NoNode \notin Nodes
  /\ MaxPosts \in Nat
  /\ Modes \subseteq Mode
  /\ SendMayFail \in BOOLEAN

VARIABLES
  arm_uc_queue,         \* the storages in the queue, the oldest first
  lock,                 \* the lock of each storage
  fields,               \* the post whose callback and parameter a storage holds
  arm_uc_queue_counter,
  pc, node, post,       \* of each poster: where it is, what it posts
  consumer, element,    \* of the consumer: where it is, what it has popped
  wakeups,              \* UPDATE_CLIENT_EVENT_PROCESS_QUEUE events under way
  posted,               \* number of posts so far
  mode,                 \* how the queue is used, which stays
  executed              \* the posts whose callback has been called, in order

posterVars == <<pc, node, post>>
consumerVars == <<consumer, element, executed>>
vars == <<arm_uc_queue, lock, fields, arm_uc_queue_counter, posterVars,
          consumerVars, wakeups, posted, mode>>

Drain == mode.drain
Preempt == mode.preempt
PostersWait == mode.wait

PosterStates == {"idle", "lock", "push", "fill", "count", "notify"}
ConsumerStates == {"idle", "pop", "release", "call", "running", "resched"}

-----------------------------------------------------------------------------
Init ==
  /\ arm_uc_queue = <<>>
  /\ lock = [n \in Nodes |-> FALSE]
  /\ fields = [n \in Nodes |-> 0]
  /\ arm_uc_queue_counter = 0
  /\ pc = [t \in Threads |-> "idle"]
  /\ node = [t \in Threads |-> NoNode]
  /\ post = [t \in Threads |-> 0]
  /\ consumer = "idle" /\ element = NoNode
  /\ wakeups = 0 /\ posted = 0 /\ executed = <<>>
  /\ mode \in Modes

\* With posters of higher priority the loop only moves when none is at work.
LoopMayRun == Preempt => \A t \in Threads \ {Loop} : pc[t] = "idle"

MayRun(t) == t = Loop => LoopMayRun

\* UpdateClient::schedule_event; the result of the send is not looked at.
schedule_event ==
  \/ wakeups' = wakeups + 1
  \/ SendMayFail /\ wakeups' = wakeups

-----------------------------------------------------------------------------
(* ARM_UC_PostCallback *)

\* The loop posts from inside a callback or from another tasklet.
PostBegin(t, n) ==
  /\ pc[t] = "idle"
  /\ posted + Cardinality({u \in Threads : pc[u] \in {"lock", "push"}}) < MaxPosts
  /\ MayRun(t)
  /\ t = Loop => consumer \in {"idle", "running"}
  /\ PostersWait => ~ (consumer \in {"release", "call"} /\ element = n)
  /\ pc' = [pc EXCEPT ![t] = "lock"]
  /\ node' = [node EXCEPT ![t] = n]
  /\ UNCHANGED <<arm_uc_queue, lock, fields, arm_uc_queue_counter, post,
                 consumerVars, wakeups, posted, mode>>

\* aq_push_tail: take the lock of the element, or give up on a duplicate.
PostLock(t) ==
  /\ pc[t] = "lock" /\ MayRun(t)
  /\ \/ /\ ~ lock[node[t]]
        /\ lock' = [lock EXCEPT ![node[t]] = TRUE]
        /\ pc' = [pc EXCEPT ![t] = "push"]
     \/ /\ lock[node[t]]
        /\ pc' = [pc EXCEPT ![t] = "idle"]
        /\ lock' = lock
  /\ UNCHANGED <<arm_uc_queue, fields, arm_uc_queue_counter, node, post,
                 consumerVars, wakeups, posted, mode>>

\* Mutant: the new element goes to the head.
PostPushHead(t) ==
  /\ pc[t] = "push" /\ MayRun(t)
  /\ arm_uc_queue' = <<node[t]>> \o arm_uc_queue
  /\ posted' = posted + 1
  /\ post' = [post EXCEPT ![t] = posted']
  /\ pc' = [pc EXCEPT ![t] = "fill"]
  /\ UNCHANGED <<lock, fields, arm_uc_queue_counter, node, consumerVars, wakeups, mode>>

\* aq_push_tail: the compare-and-swap that links the element in.
PostPush(t) ==
  /\ pc[t] = "push" /\ MayRun(t)
  /\ arm_uc_queue' = Append(arm_uc_queue, node[t])
  /\ posted' = posted + 1
  /\ post' = [post EXCEPT ![t] = posted']
  /\ pc' = [pc EXCEPT ![t] = "fill"]
  /\ UNCHANGED <<lock, fields, arm_uc_queue_counter, node, consumerVars, wakeups, mode>>

\* The callback and its parameter are written after the push.
PostFill(t) ==
  /\ pc[t] = "fill" /\ MayRun(t)
  /\ fields' = [fields EXCEPT ![node[t]] = post[t]]
  /\ pc' = [pc EXCEPT ![t] = "count"]
  /\ UNCHANGED <<arm_uc_queue, lock, arm_uc_queue_counter, node, post,
                 consumerVars, wakeups, posted, mode>>

\* Mutant: every post but the first of a batch notifies.
PostCountLate(t) ==
  /\ pc[t] = "count" /\ MayRun(t)
  /\ arm_uc_queue_counter' = arm_uc_queue_counter + 1
  /\ pc' = [pc EXCEPT ![t] = IF arm_uc_queue_counter' > 1 THEN "notify" ELSE "idle"]
  /\ UNCHANGED <<arm_uc_queue, lock, fields, node, post, consumerVars, wakeups, posted, mode>>

\* The counter; only the post that takes it to 1 notifies.
PostCount(t) ==
  /\ pc[t] = "count" /\ MayRun(t)
  /\ arm_uc_queue_counter' = arm_uc_queue_counter + 1
  /\ pc' = [pc EXCEPT ![t] = IF arm_uc_queue_counter' = 1 THEN "notify" ELSE "idle"]
  /\ UNCHANGED <<arm_uc_queue, lock, fields, node, post, consumerVars, wakeups, posted, mode>>

\* UpdateClient::queue_handler
PostNotify(t) ==
  /\ pc[t] = "notify" /\ MayRun(t)
  /\ schedule_event
  /\ pc' = [pc EXCEPT ![t] = "idle"]
  /\ UNCHANGED <<arm_uc_queue, lock, fields, arm_uc_queue_counter, node, post,
                 consumerVars, posted, mode>>

-----------------------------------------------------------------------------
(* The consumer, on the thread of the event loop. *)

LoopFree == LoopMayRun /\ pc[Loop] = "idle"

\* The event loop hands the event to UpdateClient::event_handler.
EventHandler ==
  /\ consumer = "idle" /\ wakeups > 0 /\ LoopFree
  /\ wakeups' = wakeups - 1
  /\ consumer' = "pop"
  /\ UNCHANGED <<arm_uc_queue, lock, fields, arm_uc_queue_counter, posterVars,
                 element, executed, posted, mode>>

\* aq_pop_head; the consumer returns when the queue is empty.
Pop ==
  /\ consumer = "pop" /\ LoopFree
  /\ \/ /\ arm_uc_queue = <<>>
        /\ consumer' = "idle"
        /\ UNCHANGED <<arm_uc_queue, element>>
     \/ /\ arm_uc_queue # <<>>
        /\ element' = Head(arm_uc_queue)
        /\ arm_uc_queue' = Tail(arm_uc_queue)
        /\ consumer' = "release"
  /\ UNCHANGED <<lock, fields, arm_uc_queue_counter, posterVars, executed,
                 wakeups, posted, mode>>

\* aq_pop_head gives the lock back before the fields have been read.
Release ==
  /\ consumer = "release" /\ LoopFree
  /\ lock' = [lock EXCEPT ![element] = FALSE]
  /\ consumer' = "call"
  /\ UNCHANGED <<arm_uc_queue, fields, arm_uc_queue_counter, posterVars,
                 element, executed, wakeups, posted, mode>>

\* element->callback(element->parameter)
Call ==
  /\ consumer = "call" /\ LoopFree
  /\ executed' = Append(executed, fields[element])
  /\ consumer' = "running"
  /\ UNCHANGED <<arm_uc_queue, lock, fields, arm_uc_queue_counter, posterVars,
                 element, wakeups, posted, mode>>

\* Mutant: the consumer stops one element early.
ReturnEarly ==
  /\ consumer = "running" /\ LoopFree
  /\ arm_uc_queue_counter' = arm_uc_queue_counter - 1
  /\ element' = NoNode
  /\ consumer' = IF Drain THEN "pop"
                 ELSE IF arm_uc_queue_counter' > 1 THEN "resched" ELSE "idle"
  /\ UNCHANGED <<arm_uc_queue, lock, fields, posterVars, executed, wakeups, posted, mode>>

\* The callback returns, and the counter goes down.  ARM_UC_ProcessQueue goes
\* on; ARM_UC_ProcessSingleCallback tells whether there is more to do.
Return ==
  /\ consumer = "running" /\ LoopFree
  /\ arm_uc_queue_counter' = arm_uc_queue_counter - 1
  /\ element' = NoNode
  /\ consumer' = IF Drain THEN "pop"
                 ELSE IF arm_uc_queue_counter' > 0 THEN "resched" ELSE "idle"
  /\ UNCHANGED <<arm_uc_queue, lock, fields, posterVars, executed, wakeups, posted, mode>>

\* UpdateClient::event_handler schedules itself again.
Reschedule ==
  /\ consumer = "resched" /\ LoopFree
  /\ schedule_event
  /\ consumer' = "idle"
  /\ UNCHANGED <<arm_uc_queue, lock, fields, arm_uc_queue_counter, posterVars,
                 element, executed, posted, mode>>

-----------------------------------------------------------------------------
PosterStep(t) ==
  \/ PostLock(t) \/ PostPush(t) \/ PostFill(t) \/ PostCount(t) \/ PostNotify(t)

ConsumerStep ==
  \/ EventHandler \/ Pop \/ Release \/ Call \/ Return \/ Reschedule

Next ==
  \/ \E t \in Threads, n \in Nodes : PostBegin(t, n)
  \/ \E t \in Threads : PosterStep(t)
  \/ ConsumerStep

Spec == Init /\ [][Next]_vars

\* A thread that has begun to post goes on.  The event loop may be busy with
\* posts of other tasklets again and again, but dispatches in order: the
\* consumer that could run again and again does in the end.
FairSpec ==
  /\ Spec
  /\ \A t \in Threads : WF_vars(PosterStep(t))
  /\ SF_vars(ConsumerStep)

-----------------------------------------------------------------------------
(* Properties *)

\* Every variable has its type: a poster past its first step has a storage
\* (ARM_UC_PostCallback), and so has the consumer until the callback returns.
TypeOK ==
  /\ arm_uc_queue \in Seq(Nodes)
  /\ lock \in [Nodes -> BOOLEAN]
  /\ fields \in [Nodes -> Nat]
  /\ arm_uc_queue_counter \in Int
  /\ pc \in [Threads -> PosterStates]
  /\ node \in [Threads -> Nodes \cup {NoNode}]
  /\ post \in [Threads -> Nat]
  /\ consumer \in ConsumerStates /\ element \in Nodes \cup {NoNode}
  /\ \A t \in Threads : pc[t] # "idle" => node[t] \in Nodes
  /\ consumer \in {"release", "call", "running"} => element \in Nodes
  /\ wakeups \in Nat /\ posted \in Nat
  /\ mode \in Modes /\ executed \in Seq(Nat)

\* The posters that have pushed their element and not yet counted it.
Uncounted == {t \in Threads : pc[t] \in {"fill", "count"}}

\* The posters about to send an event.
Notifying == {t \in Threads : pc[t] = "notify"}

\* No wake-up is lost: an element that has been posted completely and is in
\* the queue when the consumer rests has an event, or a poster about to send
\* one, on its way.  The counter protocol of ARM_UC_PostCallback and
\* ARM_UC_ProcessSingleCallback is there for this.
NoLostWakeUp ==
  (/\ Len(arm_uc_queue) > Cardinality(Uncounted)
   /\ consumer = "idle")
    => wakeups > 0 \/ \E t \in Threads : pc[t] = "notify"

\* The tasklet is scheduled once however many callbacks are posted: there is
\* never a second event under way, nor one while a callback runs, so every
\* event it gets finds an element (ARM_UC_ProcessSingleCallback).
OneWakeUp ==
  ~ Drain =>
    /\ wakeups + Cardinality(Notifying) + (IF consumer = "idle" THEN 0 ELSE 1) <= 1
    /\ consumer = "pop" => arm_uc_queue # <<>>

\* An element is in the queue at most once, and only with its lock taken
\* (aq_push_tail, aq_pop_head).
QueuedOnce ==
  /\ \A i, j \in DOMAIN arm_uc_queue : arm_uc_queue[i] = arm_uc_queue[j] => i = j
  /\ \A i \in DOMAIN arm_uc_queue : lock[arm_uc_queue[i]]

\* The storages whose callbacks have not been called, the oldest first.
Waiting == (IF consumer \in {"release", "call"} THEN <<element>> ELSE <<>>) \o arm_uc_queue

\* Their posts: the last of them is the last post p.
Numbered(w, p) == [i \in 1..Len(w) |-> [node |-> w[i], post |-> p - Len(w) + i]]

Promise == INSTANCE CallbackQueue
  WITH queue <- Numbered(Waiting, posted), ran <- executed

Careful == Preempt /\ PostersWait

\* The queue implements CallbackQueue where the posters have priority over the
\* loop and post no storage that is about to be called: a post is run once,
\* with its own callback and parameter, in the order of the posts, although
\* its fields are written after the push and read after the lock is released.
KeepsThePromise ==
  Promise!Init /\ [][Careful => [Promise!Next]_(Promise!vars)]_vars

\* The same whatever the posters do: violated by a post between the pop of its
\* storage and the read of its fields.
OnceInOrder ==
  \A i \in DOMAIN executed : executed[i] = i

\* What the comment of ARM_UC_ProcessSingleCallback says: when it returns
\* FALSE the counter is 0 and there are either 1 or 0 elements in the queue.
AtMostOneLeft ==
  [][(consumer = "running" /\ consumer' = "idle") =>
        arm_uc_queue_counter' = 0 /\ Len(arm_uc_queue) <= 1]_vars

\* Every post is run in the end, with either consumer (ARM_UC_ProcessQueue,
\* ARM_UC_ProcessSingleCallback).  Interrupts that never rest could keep the
\* loop out for ever, so this is about threads of one priority.
EveryPostRuns ==
  \A i \in 1 .. MaxPosts : (~ Preempt /\ posted >= i) ~> (Len(executed) >= i)
=============================================================================
