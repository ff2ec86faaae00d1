------------------------ MODULE EventLoopOrderProofs ------------------------
(***************************************************************************)
(* Order and time in EventLoop, for every number of threads, storages and  *)
(* ticks: the queue keeps the order of priorities and of arrival, and no   *)
(* timer is early, forgotten or overslept although the tick counter wraps  *)
(* around.                                                                 *)
(*                                                                         *)
(* The argument: TICKS_BEFORE is no order on all ticks, but it is one on   *)
(* the Horizon ticks that follow some tick.  The pending timers lie in     *)
(* such a window at every moment (InWindow): it starts at the counter, or, *)
(* within the critical section of system_timer_tick_update, where the      *)
(* counter was before.  Within a window timer_sys_add keeps the list       *)
(* sorted, and the first timer that is not due is followed by none that    *)
(* is.  A step either adds one storage to a list or keeps the order of     *)
(* what stays there; which storages are where comes from EventLoopProofs.  *)
(***************************************************************************)
EXTENDS EventLoopProofs

-----------------------------------------------------------------------------
(* Ticks *)

LEMMA TickDifference ==
  \A a, b \in Ticks :
    (a - b) % TickMod = IF a >= b THEN a - b ELSE a - b + TickMod
<1> SUFFICES ASSUME NEW a \in Ticks, NEW b \in Ticks
             PROVE  (a - b) % TickMod = IF a >= b THEN a - b ELSE a - b + TickMod
  OBVIOUS
<1>1. TickMod \in Nat /\ TickMod > 0 /\ a \in 0 .. TickMod - 1 /\ b \in 0 .. TickMod - 1
  BY TickAssumption DEF Ticks
<1> QED
  BY <1>1, SMT

\* Whether a tick is among the Horizon ticks after b.
Ahead(a, b) == (a - b) % TickMod \in 1 .. Horizon

\* Within a window TICKS_BEFORE is the order of the distances from its start.
LEMMA BeforeInWindow ==
  ASSUME NEW a \in Ticks, NEW c \in Ticks, NEW b \in Ticks, Ahead(a, b), Ahead(c, b)
  PROVE  TICKS_BEFORE(a, c) <=> (a - b) % TickMod < (c - b) % TickMod
<1>1. TickMod \in Nat /\ TickMod > 3
  BY TickAssumption
<1>2. /\ (a - b) % TickMod = IF a >= b THEN a - b ELSE a - b + TickMod
      /\ (c - b) % TickMod = IF c >= b THEN c - b ELSE c - b + TickMod
      /\ (a - c) % TickMod = IF a >= c THEN a - c ELSE a - c + TickMod
  BY TickDifference
<1> QED
  BY <1>1, <1>2 DEF TICKS_BEFORE, Ahead, Horizon, Ticks

LEMMA NotDueIsAhead ==
  ASSUME NEW a \in Ticks, NEW b \in Ticks
  PROVE  ~ TICKS_BEFORE_OR_AT(a, b) <=> Ahead(a, b)
<1>1. TickMod \in Nat /\ TickMod > 3
  BY TickAssumption
<1>2. (a - b) % TickMod = IF a >= b THEN a - b ELSE a - b + TickMod
  BY TickDifference
<1> QED
  BY <1>1, <1>2 DEF TICKS_BEFORE, TICKS_BEFORE_OR_AT, Ahead, Horizon, Ticks

\* A timer of the window that started at b is due once the counter has come
\* as far, by MaxLag ticks at most.
LEMMA DueInWindow ==
  ASSUME NEW a \in Ticks, NEW b \in Ticks, NEW now \in Ticks, Ahead(a, b),
         (now - b) % TickMod <= MaxLag
  PROVE  TICKS_BEFORE_OR_AT(a, now) <=> (a - b) % TickMod <= (now - b) % TickMod
<1>1. TickMod \in Nat /\ TickMod > 3 /\ MaxLag \in Nat /\ 2 * MaxLag < TickMod
  BY TickAssumption
<1>2. /\ (a - b) % TickMod = IF a >= b THEN a - b ELSE a - b + TickMod
      /\ (now - b) % TickMod = IF now >= b THEN now - b ELSE now - b + TickMod
      /\ (a - now) % TickMod = IF a >= now THEN a - now ELSE a - now + TickMod
  BY TickDifference
<1> QED
  BY <1>1, <1>2 DEF TICKS_BEFORE, TICKS_BEFORE_OR_AT, Ahead, Horizon, Ticks

LEMMA TickAdvance ==
  ASSUME NEW b \in Ticks, NEW n \in TickSteps
  PROVE  /\ (b + n) % TickMod \in Ticks
         /\ (((b + n) % TickMod) - b) % TickMod <= MaxLag
<1>1. /\ TickMod \in Nat /\ TickMod > 3 /\ MaxLag \in Nat /\ 2 * MaxLag < TickMod
      /\ n \in 1 .. MaxLag
  BY TickAssumption
<1>2. (b + n) % TickMod = IF b + n < TickMod THEN b + n ELSE b + n - TickMod
  BY <1>1 DEF Ticks
<1>3. (b + n) % TickMod \in Ticks
  BY <1>1, <1>2 DEF Ticks
<1>4. LET c == (b + n) % TickMod
      IN  (c - b) % TickMod = IF c >= b THEN c - b ELSE c - b + TickMod
  BY <1>3, TickDifference
<1> QED
  BY <1>1, <1>2, <1>3, <1>4 DEF Ticks

-----------------------------------------------------------------------------
(* The inductive invariant *)

\* The pending timers lie in the window that starts at the counter, or where
\* the counter was before the update under way.
InWindow ==
  \E b \in Ticks :
    /\ ~ ticking => b = timer_sys_ticks
    /\ (timer_sys_ticks - b) % TickMod <= MaxLag
    /\ \A e \in Pending : Ahead(launch_time[e], b)

TimersSorted ==
  \A e, f \in Timers :
    Before(system_timer_list, e, f) => ~ TICKS_BEFORE(launch_time[f], launch_time[e])

QueueSorted ==
  \A e, f \in Storage :
    Before(event_queue_active, e, f) => data[e].priority <= data[f].priority

OrderInv == InWindow /\ TimersSorted /\ QueueSorted

-----------------------------------------------------------------------------
(* What a step does to the queue, to the pending timers and to the counter *)

QueueKept ==
  /\ \A e, f : Before(event_queue_active', e, f) => Before(event_queue_active, e, f)
  /\ Queued' \subseteq Queued
  /\ \A e \in Queued' : data'[e] = data[e]

QueueGrew(x) ==
  /\ x \in Storage \ Queued /\ Queued' = Queued \cup {x}
  /\ event_queue_active' = event_core_write(event_queue_active, data', x)
  /\ \A e \in Queued : data'[e] = data[e]
  /\ x \in Timers => TICKS_BEFORE_OR_AT(launch_time'[x], timer_sys_ticks')

TimersKept ==
  /\ \A e, f : Before(system_timer_list', e, f) => Before(system_timer_list, e, f)
  /\ Pending' \subseteq Pending
  /\ \A e \in Pending' : launch_time'[e] = launch_time[e]

TimersGrew(x) ==
  /\ x \in Timers \ Pending /\ Pending' = Pending \cup {x}
  /\ system_timer_list' = timer_sys_add(system_timer_list, launch_time', x)
  /\ \A e \in Pending : launch_time'[e] = launch_time[e]
  /\ ~ TICKS_BEFORE_OR_AT(launch_time'[x], timer_sys_ticks)
  /\ ~ ticking

QueueEffect == QueueKept \/ \E x : QueueGrew(x)

TimersEffect ==
  \/ TimersKept \/ \E x : TimersGrew(x)

ClockEffect ==
  \/ UNCHANGED <<timer_sys_ticks, ticking>>
  \/ TimersKept /\ (TickDone \/ \E n \in TickSteps : TickUpdate(n))

Effects == QueueEffect /\ TimersEffect /\ ClockEffect

LEMMA PrioritiesAreNumbers ==
  \A d \in [Storage -> Data \cup {NoData}], s \in Storage : d[s].priority \in Int
<1>1. \A d \in Data \cup {NoData} : d.priority \in Int
  BY DEF Data, NoData, HIGH, LOW
<1> QED
  BY <1>1

\* The newcomer goes behind those of its priority and before the lower ones.
LEMMA QueueGrewOrder ==
  ASSUME IInv, QueueSorted, NEW x, QueueGrew(x), NEW e \in Storage, NEW f \in Storage,
         Before(event_queue_active', e, f), data'[x].priority \in Int
  PROVE  \/ Before(event_queue_active, e, f)
         \/ e = x /\ f \in Queued /\ data'[x].priority < data'[f].priority
         \/ f = x /\ e \in Queued /\ data'[e].priority <= data'[x].priority
<1> DEFINE q == event_queue_active
           I == {i \in DOMAIN q : data'[q[i]].priority > data'[x].priority}
<1>1. q \in Seq(Storage) /\ DOMAIN q = 1 .. Len(q) /\ Len(q) \in Nat
  BY LenProperties DEF IInv, TypeOK
<1>2. I \in SUBSET DOMAIN q /\ event_queue_active' = AddBefore(q, I, x) /\ x \in Storage
  BY DEF QueueGrew, event_core_write
<1>3. \A i \in DOMAIN q : q[i] \in Queued /\ q[i] \in Storage
  BY <1>1 DEF Queued, Range
<1>4. \A s \in Queued : data'[s] = data[s]
  BY DEF QueueGrew
<1>5. \A s \in Storage : data[s].priority \in Int
  BY PrioritiesAreNumbers DEF IInv, TypeOK
<1>6. \/ Before(q, e, f)
      \/ e = x /\ \E i \in I, j \in DOMAIN q : i <= j /\ q[j] = f
      \/ f = x /\ \E j \in DOMAIN q : q[j] = e /\ \A i \in I : j < i
  <2> HIDE DEF I, q
  <2> QED
    BY <1>1, <1>2, AddBeforeOrder
<1>7. ASSUME NEW i \in I, NEW j \in DOMAIN q, i <= j, q[j] = f
      PROVE  f \in Queued /\ data'[x].priority < data'[f].priority
  <2>1. i \in DOMAIN q /\ data'[q[i]].priority > data'[x].priority
    OBVIOUS
  <2>2. i # j => Before(q, q[i], q[j])
    BY <1>1, <1>7, <2>1 DEF Before
  <2>3. data[q[i]].priority <= data[q[j]].priority
    <3>1. CASE i = j
      BY <1>3, <1>5, <2>1, <3>1
    <3>2. CASE i # j
      BY <1>3, <2>1, <2>2, <3>2 DEF QueueSorted
    <3> QED
      BY <3>1, <3>2
  <2>4. /\ data'[q[i]] = data[q[i]] /\ data'[q[j]] = data[q[j]]
        /\ data[q[i]].priority \in Int /\ data[q[j]].priority \in Int
    BY <1>3, <1>4, <1>5, <2>1
  <2> QED
    BY <1>3, <1>7, <2>1, <2>3, <2>4
<1>8. ASSUME NEW j \in DOMAIN q, q[j] = e, \A i \in I : j < i
      PROVE  e \in Queued /\ data'[e].priority <= data'[x].priority
  <2>1. j \notin I
    BY <1>1, <1>8
  <2>2. ~ (data'[q[j]].priority > data'[x].priority)
    BY <2>1
  <2>3. data'[q[j]] = data[q[j]] /\ data[q[j]].priority \in Int
    BY <1>3, <1>4, <1>5
  <2> QED
    BY <1>3, <1>8, <2>2, <2>3
<1> HIDE DEF I, q
<1> QED
  BY <1>6, <1>7, <1>8 DEF q

LEMMA InListIsMember ==
  ASSUME NEW q, NEW e, NEW f, Before(q, e, f)
  PROVE  e \in Range(q) /\ f \in Range(q)
BY DEF Before, Range

LEMMA QueueStaysSorted ==
  ASSUME IInv, IInv', QueueSorted, QueueEffect
  PROVE  QueueSorted'
<1> SUFFICES ASSUME NEW e \in Storage, NEW f \in Storage,
                    Before(event_queue_active', e, f)
             PROVE  data'[e].priority <= data'[f].priority
  BY DEF QueueSorted
<1>1. e \in Queued' /\ f \in Queued'
  BY InListIsMember DEF Queued
<1>2. CASE QueueKept
  BY <1>1, <1>2 DEF QueueKept, QueueSorted
<1>3. ASSUME NEW x, QueueGrew(x)
      PROVE  data'[e].priority <= data'[f].priority
  <2>1. x \in Storage /\ data'[x].priority \in Int
        /\ data'[e].priority \in Int /\ data'[f].priority \in Int
    <3>1. \A s \in Storage : data'[s].priority \in Int
      BY PrioritiesAreNumbers DEF IInv, TypeOK
    <3> QED
      BY <1>3, <3>1 DEF QueueGrew
  <2>2. CASE Before(event_queue_active, e, f)
    <3>1. e \in Queued /\ f \in Queued
      BY <2>2, InListIsMember DEF Queued
    <3> QED
      BY <1>3, <2>2, <3>1 DEF QueueGrew, QueueSorted
  <2>3. CASE ~ Before(event_queue_active, e, f)
    BY <1>3, <2>1, <2>3, QueueGrewOrder
  <2> QED
    BY <2>2, <2>3
<1> QED
  BY <1>2, <1>3 DEF QueueEffect

\* Only an event of higher priority gets in front of one that waits.
LEMMA NoneOvertakes ==
  ASSUME IInv, IInv', QueueSorted, QueueEffect,
         NEW e \in Queued \cap Queued', NEW f \in Queued',
         Before(event_queue_active', f, e)
  PROVE  Before(event_queue_active, f, e) \/ data'[f].priority < data'[e].priority
<1>1. e \in Storage /\ f \in Storage
  <2>1. event_queue_active \in Seq(Storage) /\ event_queue_active' \in Seq(Storage)
    BY DEF IInv, TypeOK
  <2> QED
    BY <2>1, LenProperties DEF Queued, Range
<1>2. CASE QueueKept
  BY <1>2 DEF QueueKept
<1>3. ASSUME NEW x, QueueGrew(x), ~ Before(event_queue_active, f, e)
      PROVE  data'[f].priority < data'[e].priority
  <2>1. x # e /\ x \in Storage
    BY <1>3 DEF QueueGrew
  <2>2. data'[x].priority \in Int
    <3>1. \A s \in Storage : data'[s].priority \in Int
      BY PrioritiesAreNumbers DEF IInv, TypeOK
    <3> QED
      BY <2>1, <3>1
  <2> QED
    BY <1>1, <1>3, <2>1, <2>2, QueueGrewOrder
<1> QED
  BY <1>2, <1>3 DEF QueueEffect

\* A new timer goes behind those that are not later.
LEMMA TimersGrewOrder ==
  ASSUME IInv, IInv', InWindow, TimersSorted, NEW x, TimersGrew(x),
         NEW e \in Timers, NEW f \in Timers, Before(system_timer_list', e, f)
  PROVE  ~ TICKS_BEFORE(launch_time'[f], launch_time'[e])
<1> DEFINE q == system_timer_list
           at == launch_time'
           I == {i \in DOMAIN q : TICKS_BEFORE(at[x], at[q[i]])}
           D(s) == (at[s] - timer_sys_ticks) % TickMod
<1>1. q \in Seq(Timers) /\ DOMAIN q = 1 .. Len(q) /\ Len(q) \in Nat
  BY LenProperties DEF IInv, TypeOK
<1>2. I \in SUBSET DOMAIN q /\ system_timer_list' = AddBefore(q, I, x) /\ x \in Timers
  BY DEF TimersGrew, timer_sys_add
<1>3. \A i \in DOMAIN q : q[i] \in Pending /\ q[i] \in Timers
  BY <1>1 DEF Pending, Range
<1>4. \A s \in Pending : at[s] = launch_time[s]
  BY DEF TimersGrew
<1>5. timer_sys_ticks \in Ticks /\ \A s \in Timers : at[s] \in Ticks
  BY DEF IInv, TypeOK
<1>6. \A s \in Pending : Ahead(at[s], timer_sys_ticks)
  BY <1>4 DEF InWindow, TimersGrew
<1>7. Ahead(at[x], timer_sys_ticks)
  BY <1>2, <1>5, NotDueIsAhead DEF TimersGrew
<1>8. \A s \in Timers : D(s) \in Int
  BY <1>5, TickAssumption DEF Ticks
<1>9. \A s, u \in (Pending \cap Timers) \cup {x} : TICKS_BEFORE(at[s], at[u]) <=> D(s) < D(u)
  BY <1>2, <1>5, <1>6, <1>7, BeforeInWindow
<1>10. \/ Before(q, e, f)
       \/ e = x /\ \E i \in I, j \in DOMAIN q : i <= j /\ q[j] = f
       \/ f = x /\ \E j \in DOMAIN q : q[j] = e /\ \A i \in I : j < i
  <2> HIDE DEF I, q
  <2> QED
    BY <1>1, <1>2, AddBeforeOrder
<1>11. CASE Before(q, e, f)
  <2>1. e \in Pending /\ f \in Pending
    BY <1>11, InListIsMember DEF Pending
  <2> QED
    BY <1>4, <1>11, <2>1 DEF TimersSorted
<1>12. ASSUME e = x, NEW i \in I, NEW j \in DOMAIN q, i <= j, q[j] = f
       PROVE  ~ TICKS_BEFORE(at[f], at[e])
  <2>1. i \in DOMAIN q /\ TICKS_BEFORE(at[x], at[q[i]])
    OBVIOUS
  <2>2. i # j => Before(q, q[i], q[j])
    BY <1>1, <1>12, <2>1 DEF Before
  <2>3. i # j => ~ TICKS_BEFORE(at[q[j]], at[q[i]])
    BY <1>3, <1>4, <2>1, <2>2 DEF TimersSorted
  <2> HIDE DEF D, at
  <2>4. D(x) < D(q[i]) /\ (i # j => ~ (D(q[j]) < D(q[i])))
    BY <1>3, <1>9, <2>1, <2>3
  <2>5. ~ (D(f) < D(x))
    BY <1>2, <1>3, <1>8, <1>12, <2>1, <2>4
  <2> QED
    BY <1>3, <1>9, <1>12, <2>5
<1>13. ASSUME f = x, NEW j \in DOMAIN q, q[j] = e, \A i \in I : j < i
       PROVE  ~ TICKS_BEFORE(at[f], at[e])
  <2>1. j \notin I
    BY <1>1, <1>13
  <2> QED
    BY <1>13, <2>1
<1> HIDE DEF I, q
<1> QED
  BY <1>10, <1>11, <1>12, <1>13

LEMMA TimersStaySorted ==
  ASSUME IInv, IInv', InWindow, TimersSorted, TimersEffect
  PROVE  TimersSorted'
<1> SUFFICES ASSUME NEW e \in Timers, NEW f \in Timers, Before(system_timer_list', e, f)
             PROVE  ~ TICKS_BEFORE(launch_time'[f], launch_time'[e])
  BY DEF TimersSorted, TICKS_BEFORE
<1>1. e \in Pending' /\ f \in Pending'
  BY InListIsMember DEF Pending
<1>2. CASE TimersKept
  BY <1>1, <1>2 DEF TimersKept, TimersSorted
<1>3. ASSUME NEW x, TimersGrew(x)
      PROVE  ~ TICKS_BEFORE(launch_time'[f], launch_time'[e])
  BY <1>3, TimersGrewOrder
<1> QED
  BY <1>2, <1>3 DEF TimersEffect

\* The first pending timer is not later than any other.
LEMMA HeadIsFirst ==
  ASSUME IInv, NEW e \in Pending
  PROVE  /\ system_timer_list # <<>>
         /\ Head(system_timer_list) \in Pending \cap Timers
         /\ e = Head(system_timer_list) \/ Before(system_timer_list, Head(system_timer_list), e)
<1>1. /\ system_timer_list \in Seq(Timers)
      /\ Len(system_timer_list) \in Nat
      /\ DOMAIN system_timer_list = 1 .. Len(system_timer_list)
  BY LenProperties DEF IInv, TypeOK
<1>2. PICK i \in 1 .. Len(system_timer_list) : system_timer_list[i] = e
  BY <1>1 DEF Pending, Range
<1>3. 1 \in 1 .. Len(system_timer_list) /\ system_timer_list # <<>>
  BY <1>1, <1>2
<1>4. Head(system_timer_list) = system_timer_list[1]
  BY <1>1, <1>3
<1>5. Head(system_timer_list) \in Pending \cap Timers
  BY <1>1, <1>3, <1>4 DEF Pending, Range
<1>6. i # 1 => Before(system_timer_list, system_timer_list[1], e)
  BY <1>1, <1>2, <1>3 DEF Before
<1> QED
  BY <1>2, <1>3, <1>4, <1>5, <1>6

\* When the update stops at a timer that is not due, no other one is.
LEMMA NoneIsDueAfterHead ==
  ASSUME IInv, InWindow, TimersSorted, ~ HeadIsDue, NEW e \in Pending
  PROVE  Ahead(launch_time[e], timer_sys_ticks)
<1> DEFINE h == Head(system_timer_list)
<1>1. h \in Pending \cap Timers /\ (e = h \/ Before(system_timer_list, h, e))
      /\ system_timer_list # <<>>
  BY HeadIsFirst
<1>2. e \in Timers
  <2>1. system_timer_list \in Seq(Timers)
    BY DEF IInv, TypeOK
  <2> QED
    BY <2>1, LenProperties DEF Pending, Range
<1>3. timer_sys_ticks \in Ticks /\ launch_time[e] \in Ticks /\ launch_time[h] \in Ticks
  BY <1>1, <1>2 DEF IInv, TypeOK
<1>4. PICK b \in Ticks :
        /\ (timer_sys_ticks - b) % TickMod <= MaxLag
        /\ \A s \in Pending : Ahead(launch_time[s], b)
  BY DEF InWindow
<1>5. Ahead(launch_time[e], b) /\ Ahead(launch_time[h], b)
  BY <1>1, <1>4
<1>6. ~ TICKS_BEFORE_OR_AT(launch_time[h], timer_sys_ticks)
  BY <1>1 DEF HeadIsDue
<1> HIDE DEF h
<1>7. ~ ((launch_time[h] - b) % TickMod <= (timer_sys_ticks - b) % TickMod)
  BY <1>3, <1>4, <1>5, <1>6, DueInWindow
<1>8. e = h \/ ~ ((launch_time[e] - b) % TickMod < (launch_time[h] - b) % TickMod)
  <2>1. e = h \/ ~ TICKS_BEFORE(launch_time[e], launch_time[h])
    BY <1>1, <1>2 DEF TimersSorted
  <2> QED
    BY <1>3, <1>5, <2>1, BeforeInWindow
<1>9. \A a \in Ticks : (a - b) % TickMod \in Int
  BY TickAssumption DEF Ticks
<1>10. ~ ((launch_time[e] - b) % TickMod <= (timer_sys_ticks - b) % TickMod)
  BY <1>3, <1>7, <1>8, <1>9
<1>11. ~ TICKS_BEFORE_OR_AT(launch_time[e], timer_sys_ticks)
  BY <1>3, <1>4, <1>5, <1>10, DueInWindow
<1> QED
  BY <1>3, <1>11, NotDueIsAhead

LEMMA WindowIsKept ==
  ASSUME IInv, IInv', InWindow, TimersSorted, TimersEffect, ClockEffect
  PROVE  InWindow'
<1>1. timer_sys_ticks \in Ticks /\ timer_sys_ticks' \in Ticks /\ ticking \in BOOLEAN
  BY DEF IInv, TypeOK
<1>2. \A b \in Ticks : (b - b) % TickMod <= MaxLag
  BY TickDifference, TickAssumption DEF Ticks
<1>3. CASE UNCHANGED <<timer_sys_ticks, ticking>>
  <2>1. CASE TimersKept
    <3>1. PICK b \in Ticks :
            /\ ~ ticking => b = timer_sys_ticks
            /\ (timer_sys_ticks - b) % TickMod <= MaxLag
            /\ \A e \in Pending : Ahead(launch_time[e], b)
      BY DEF InWindow
    <3>2. \A e \in Pending' : Ahead(launch_time'[e], b)
      BY <2>1, <3>1 DEF TimersKept
    <3> QED
      BY <1>3, <3>1, <3>2 DEF InWindow, Ahead
  <2>2. ASSUME NEW x, TimersGrew(x)
        PROVE  InWindow'
    <3>1. ~ ticking /\ Pending' = Pending \cup {x} /\ x \in Timers
      BY <2>2 DEF TimersGrew
    <3>2. \A e \in Pending : Ahead(launch_time[e], timer_sys_ticks)
      BY <3>1 DEF InWindow
    <3>3. launch_time'[x] \in Ticks
      BY <3>1 DEF IInv, TypeOK
    <3>4. Ahead(launch_time'[x], timer_sys_ticks)
      BY <1>1, <2>2, <3>3, NotDueIsAhead DEF TimersGrew
    <3>5. \A e \in Pending' : Ahead(launch_time'[e], timer_sys_ticks)
      BY <2>2, <3>1, <3>2, <3>4 DEF TimersGrew
    <3> QED
      BY <1>1, <1>2, <1>3, <3>1, <3>5 DEF InWindow, Ahead
  <2> QED
    BY <2>1, <2>2 DEF TimersEffect
<1>4. ASSUME TimersKept, NEW n \in TickSteps, TickUpdate(n)
      PROVE  InWindow'
  <2>1. /\ ~ ticking /\ ticking' /\ timer_sys_ticks' = (timer_sys_ticks + n) % TickMod
    BY <1>4 DEF TickUpdate
  <2>2. \A e \in Pending : Ahead(launch_time[e], timer_sys_ticks)
    BY <2>1 DEF InWindow
  <2>3. \A e \in Pending' : Ahead(launch_time'[e], timer_sys_ticks)
    BY <1>4, <2>2 DEF TimersKept
  <2>4. (timer_sys_ticks' - timer_sys_ticks) % TickMod <= MaxLag
    BY <1>1, <2>1, TickAdvance
  <2> QED
    BY <1>1, <2>1, <2>3, <2>4 DEF InWindow, Ahead
<1>5. ASSUME TimersKept, TickDone
      PROVE  InWindow'
  <2>1. ~ HeadIsDue /\ timer_sys_ticks' = timer_sys_ticks
    BY <1>5 DEF TickDone
  <2>2. \A e \in Pending : Ahead(launch_time[e], timer_sys_ticks)
    BY <2>1, NoneIsDueAfterHead
  <2>3. \A e \in Pending' : Ahead(launch_time'[e], timer_sys_ticks')
    BY <1>5, <2>1, <2>2 DEF TimersKept
  <2> QED
    BY <1>1, <1>2, <2>1, <2>3 DEF InWindow, Ahead
<1> QED
  BY <1>3, <1>4, <1>5 DEF ClockEffect

-----------------------------------------------------------------------------
(* The effects of every action *)

LEMMA QueueAlone ==
  ASSUME event_queue_active' = event_queue_active, \A e \in Queued : data'[e] = data[e]
  PROVE  QueueEffect
BY DEF QueueEffect, QueueKept, Queued

LEMMA TimersAlone ==
  ASSUME system_timer_list' = system_timer_list,
         \A e \in Pending : launch_time'[e] = launch_time[e]
  PROVE  TimersEffect /\ TimersKept
BY DEF TimersEffect, TimersKept, Pending

\* A storage joins the queue with data d.
LEMMA QueueingEffect ==
  ASSUME IInv, NEW x \in Storage \ Queued,
         event_queue_active' = event_core_write(event_queue_active, data', x),
         \A e \in Queued : data'[e] = data[e],
         x \in Timers => TICKS_BEFORE_OR_AT(launch_time'[x], timer_sys_ticks')
  PROVE  QueueEffect
<1>1. event_queue_active \in Seq(Storage)
  BY DEF IInv, TypeOK
<1>2. Queued' = Queued \cup {x}
  BY <1>1, EventCoreWriteElements DEF Queued
<1> QED
  BY <1>2 DEF QueueEffect, QueueGrew

LEMMA TimerAddingEffect ==
  ASSUME IInv, NEW x \in Timers \ Pending, ~ ticking,
         system_timer_list' = timer_sys_add(system_timer_list, launch_time', x),
         \A e \in Pending : launch_time'[e] = launch_time[e],
         ~ TICKS_BEFORE_OR_AT(launch_time'[x], timer_sys_ticks)
  PROVE  TimersEffect
<1>1. system_timer_list \in Seq(Timers)
  BY DEF IInv, TypeOK
<1>2. Pending' = Pending \cup {x}
  BY <1>1, TimerSysAddElements DEF Pending
<1> QED
  BY <1>2 DEF TimersEffect, TimersGrew

\* What an update of one entry leaves alone.
LEMMA UpdatedData ==
  ASSUME IInv, NEW e, NEW d, data' = [data EXCEPT ![e] = d]
  PROVE  \A s \in Storage : s # e => data'[s] = data[s]
BY DEF IInv, TypeOK

LEMMA UpdatedLaunch ==
  ASSUME IInv, NEW e, NEW d, launch_time' = [launch_time EXCEPT ![e] = d]
  PROVE  \A s \in Timers : s # e => launch_time'[s] = launch_time[s]
BY DEF IInv, TypeOK

LEMMA ListsHoldStorages ==
  ASSUME IInv
  PROVE  Queued \subseteq Storage /\ Pending \subseteq Timers /\ Timers \subseteq Storage
<1>1. event_queue_active \in Seq(Storage) /\ system_timer_list \in Seq(Timers)
  BY DEF IInv, TypeOK
<1> QED
  BY <1>1, LenProperties DEF Queued, Pending, Range, Storage

LEMMA EventCoreGetEffects ==
  ASSUME IInv, NEW t, NEW d, event_core_get(t, d)
  PROVE  Effects
<1>1. PICK e \in Events :
        /\ \/ free_event_entry # <<>> /\ e = Head(free_event_entry)
           \/ e \in HeapEvents \ heap
        /\ data' = [data EXCEPT ![e] = d]
        /\ UNCHANGED <<event_queue_active, timerVars, timer_sys_ticks, ticking>>
  BY DEF event_core_get
<1>2. e \notin Queued
  <2>1. CASE e \in HeapEvents \ heap
    BY <2>1, Apart DEF Unallocated, IInv
  <2>2. CASE free_event_entry # <<>> /\ e = Head(free_event_entry)
    <3>1. e \in Range(free_event_entry)
      BY <2>2, TailElements DEF TypeOK, IInv
    <3> QED
      BY <3>1, Apart DEF IInv
  <2> QED
    BY <1>1, <2>1, <2>2
<1>3. \A s \in Queued : data'[s] = data[s]
  BY <1>1, <1>2, UpdatedData, ListsHoldStorages
<1>4. QueueEffect
  BY <1>1, <1>3, QueueAlone
<1>5. TimersEffect
  BY <1>1, TimersAlone DEF timerVars
<1> QED
  BY <1>1, <1>4, <1>5 DEF Effects, ClockEffect

LEMMA EventWriteEffects ==
  ASSUME IInv, NEW t \in Threads, EventWrite(t)
  PROVE  Effects
<1>1. /\ event_queue_active' = event_core_write(event_queue_active, data', hand[t])
      /\ data' = data
      /\ UNCHANGED <<timerVars, timer_sys_ticks, ticking>>
      /\ hand[t] # NoEvent
  BY DEF EventWrite
<1>2. hand[t] \in Events /\ hand[t] \in InHand
  BY <1>1 DEF InHand, IInv, TypeOK
<1>3. hand[t] \in Storage \ Queued /\ hand[t] \notin Timers
  BY <1>2, Apart, StorageAssumption DEF IInv, Storage
<1>4. QueueEffect
  BY <1>1, <1>3, QueueingEffect
<1>5. TimersEffect
  BY <1>1, TimersAlone DEF timerVars
<1> QED
  BY <1>1, <1>4, <1>5 DEF Effects, ClockEffect

LEMMA SendUserAllocatedEffects ==
  ASSUME IInv, NEW t, NEW e \in UserEvents, NEW d, SendUserAllocated(t, e, d)
  PROVE  Effects
<1>1. /\ event_queue_active' = event_core_write(event_queue_active, data', e)
      /\ data' = [data EXCEPT ![e] = d]
      /\ UNCHANGED <<timerVars, timer_sys_ticks, ticking>>
      /\ state[e] # "QUEUED"
  BY DEF SendUserAllocated
<1>2. e \in Storage \ Queued /\ e \notin Timers
  BY <1>1, StorageAssumption DEF IInv, StateTellsPlace, Storage
<1>3. \A s \in Queued : data'[s] = data[s]
  BY <1>1, <1>2, UpdatedData, ListsHoldStorages
<1>4. QueueEffect
  BY <1>1, <1>2, <1>3, QueueingEffect
<1>5. TimersEffect
  BY <1>1, TimersAlone DEF timerVars
<1> QED
  BY <1>1, <1>4, <1>5 DEF Effects, ClockEffect

LEMMA TimerRequestEffects ==
  ASSUME IInv, NEW t, NEW d, NEW at, NEW p, TimerRequest(t, d, at, p)
  PROVE  Effects
<1>1. PICK e \in Timers :
        /\ timer_struct_get(e)
        /\ data' = [data EXCEPT ![e] = d]
        /\ launch_time' = [launch_time EXCEPT ![e] = at]
        /\ IF TICKS_BEFORE_OR_AT(at, timer_sys_ticks)
             THEN /\ event_queue_active' = event_core_write(event_queue_active, data', e)
                  /\ UNCHANGED system_timer_list
             ELSE /\ system_timer_list' = timer_sys_add(system_timer_list, launch_time', e)
                  /\ UNCHANGED event_queue_active
  BY DEF TimerRequest
<1>2. UNCHANGED <<timer_sys_ticks, ticking>> /\ ~ ticking
  BY DEF TimerRequest, CanCall
<1>3. e \notin Queued /\ e \notin Pending /\ e \in Storage
  <2>1. CASE e \in HeapTimers \ heap
    BY <2>1, Apart, ListsHoldStorages DEF Unallocated, IInv
  <2>2. CASE system_timer_free # <<>> /\ e = Head(system_timer_free)
    <3>1. e \in Range(system_timer_free)
      BY <2>2, TailElements DEF TypeOK, IInv
    <3> QED
      BY <3>1, Apart, ListsHoldStorages DEF IInv
  <2> QED
    BY <1>1, <2>1, <2>2 DEF timer_struct_get
<1>4. /\ \A s \in Queued : data'[s] = data[s]
      /\ \A s \in Pending : launch_time'[s] = launch_time[s]
  BY <1>1, <1>3, UpdatedData, UpdatedLaunch, ListsHoldStorages
<1>5. launch_time'[e] = at
  BY <1>1 DEF IInv, TypeOK
<1>6. CASE TICKS_BEFORE_OR_AT(at, timer_sys_ticks)
  <2>1. QueueEffect
    <3>1. event_queue_active' = event_core_write(event_queue_active, data', e)
      BY <1>1, <1>6
    <3>2. TICKS_BEFORE_OR_AT(launch_time'[e], timer_sys_ticks')
      BY <1>2, <1>5, <1>6
    <3> QED
      BY <1>3, <1>4, <3>1, <3>2, QueueingEffect
  <2>2. TimersEffect
    BY <1>1, <1>4, <1>6, TimersAlone
  <2> QED
    BY <1>2, <2>1, <2>2 DEF Effects, ClockEffect
<1>7. CASE ~ TICKS_BEFORE_OR_AT(at, timer_sys_ticks)
  <2>1. QueueEffect
    BY <1>1, <1>4, <1>7, QueueAlone
  <2>2. TimersEffect
    <3>1. system_timer_list' = timer_sys_add(system_timer_list, launch_time', e)
      BY <1>1, <1>7
    <3>2. ~ TICKS_BEFORE_OR_AT(launch_time'[e], timer_sys_ticks)
      BY <1>5, <1>7
    <3> QED
      BY <1>2, <1>3, <1>4, <3>1, <3>2, TimerAddingEffect
  <2> QED
    BY <1>2, <2>1, <2>2 DEF Effects, ClockEffect
<1> QED
  BY <1>6, <1>7

LEMMA CancelEffects ==
  ASSUME IInv, NEW e \in Timers \cup UserEvents, eventOS_cancel(e)
  PROVE  Effects
<1>1. /\ system_timer_list' = IF e \in Timers /\ state[e] = "UNQUEUED"
                                THEN Unlink(system_timer_list, e) ELSE system_timer_list
      /\ event_queue_active' = IF state[e] = "QUEUED"
                                 THEN Unlink(event_queue_active, e) ELSE event_queue_active
      /\ UNCHANGED <<timer_sys_ticks, ticking>>
  BY DEF eventOS_cancel
<1>2. /\ data' = data \/ (state[e] # "RUNNING" /\ data' = [data EXCEPT ![e] = NoData])
      /\ \/ launch_time' = launch_time
         \/ /\ state[e] # "RUNNING" /\ e \in Timers
            /\ launch_time' = [launch_time EXCEPT ![e] = 0]
  BY DEF eventOS_cancel
<1>3. /\ event_queue_active \in Seq(Storage) /\ IsInjective(event_queue_active)
      /\ system_timer_list \in Seq(Timers) /\ IsInjective(system_timer_list)
      /\ e \in Storage /\ state[e] \in {"UNQUEUED", "QUEUED", "RUNNING"}
  BY DEF IInv, TypeOK, NoDuplicates, Storage
<1>4. /\ Queued' = Queued \ {e}
      /\ \A a, b : Before(event_queue_active', a, b) => Before(event_queue_active, a, b)
  <2>1. CASE state[e] = "QUEUED"
    <3>1. event_queue_active' = Unlink(event_queue_active, e)
      BY <1>1, <2>1
    <3> QED
      BY <1>3, <3>1, UnlinkElements, UnlinkOrder DEF Queued
  <2>2. CASE state[e] # "QUEUED"
    <3>1. e \notin Queued
      BY <1>3, <2>2 DEF IInv, StateTellsPlace
    <3> QED
      BY <1>1, <2>2, <3>1 DEF Queued
  <2> QED
    BY <2>1, <2>2
<1>5. \A s \in Queued \ {e} : data'[s] = data[s]
  BY <1>2, UpdatedData, ListsHoldStorages
<1>6. QueueEffect
  BY <1>4, <1>5 DEF QueueEffect, QueueKept
<1>7. CASE e \in Timers /\ state[e] = "UNQUEUED"
  <2>1. /\ Pending' = Pending \ {e}
        /\ \A a, b : Before(system_timer_list', a, b) => Before(system_timer_list, a, b)
    <3>1. system_timer_list' = Unlink(system_timer_list, e)
      BY <1>1, <1>7
    <3> QED
      BY <1>3, <3>1, UnlinkElements, UnlinkOrder DEF Pending
  <2>2. \A s \in Pending \ {e} : launch_time'[s] = launch_time[s]
    BY <1>2, UpdatedLaunch, ListsHoldStorages
  <2>3. TimersEffect
    BY <2>1, <2>2 DEF TimersEffect, TimersKept
  <2> QED
    BY <1>1, <1>6, <2>3 DEF Effects, ClockEffect
<1>8. CASE ~ (e \in Timers /\ state[e] = "UNQUEUED")
  <2>1. state[e] # "RUNNING" /\ e \in Timers => e \notin Pending
    <3> SUFFICES ASSUME state[e] # "RUNNING", e \in Timers PROVE e \notin Pending
      OBVIOUS
    <3>1. e \in Queued
      BY <1>3, <1>8 DEF IInv, StateTellsPlace
    <3> QED
      BY <3>1, Apart DEF IInv
  <2>2. \A s \in Pending : launch_time'[s] = launch_time[s]
    BY <1>2, <2>1, UpdatedLaunch, ListsHoldStorages
  <2>3. TimersEffect
    BY <1>1, <1>8, <2>2, TimersAlone
  <2> QED
    BY <1>1, <1>6, <2>3 DEF Effects, ClockEffect
<1> QED
  BY <1>7, <1>8

LEMMA NothingHappens ==
  ASSUME UNCHANGED <<event_queue_active, data, system_timer_list, launch_time,
                     timer_sys_ticks, ticking>>
  PROVE  Effects
<1>1. QueueEffect
  BY QueueAlone
<1>2. TimersEffect
  BY TimersAlone
<1> QED
  BY <1>1, <1>2 DEF Effects, ClockEffect

LEMMA TimerCancelEffects ==
  ASSUME IInv, NEW t, NEW h, NEW i, TimerCancel(t, h, i)
  PROVE  Effects
<1> DEFINE I == PositionsFor(system_timer_list, h, i)
           J == PositionsFor(event_queue_active, h, i)
<1>1. /\ system_timer_list \in Seq(Timers) /\ Len(system_timer_list) \in Nat
      /\ DOMAIN system_timer_list = 1 .. Len(system_timer_list)
      /\ event_queue_active \in Seq(Storage) /\ Len(event_queue_active) \in Nat
      /\ DOMAIN event_queue_active = 1 .. Len(event_queue_active)
  BY LenProperties DEF IInv, TypeOK
<1>2. I \in SUBSET DOMAIN system_timer_list /\ J \in SUBSET DOMAIN event_queue_active
  BY DEF PositionsFor
<1> HIDE DEF I, J
<1>3. First(I) # 0 => system_timer_list[First(I)] \in Timers
  <2>1. First(I) # 0 => First(I) \in DOMAIN system_timer_list
    BY <1>1, <1>2, FirstOfPositions
  <2> QED
    BY <1>1, <2>1
<1>4. CASE First(I) # 0 /\ eventOS_cancel(system_timer_list[First(I)])
  BY <1>3, <1>4, CancelEffects
<1>5. CASE event_queue_active[First(J)] \in Timers /\ eventOS_cancel(event_queue_active[First(J)])
  BY <1>5, CancelEffects
<1>6. CASE UNCHANGED <<eventVars, heap, timerVars, timer_sys_ticks, ticking,
                       cur_event, dispatch, hand>>
  BY <1>6, NothingHappens DEF eventVars, timerVars
<1> QED
  BY <1>4, <1>5, <1>6 DEF TimerCancel, I, J

LEMMA EventReadEffects ==
  ASSUME IInv, EventRead
  PROVE  Effects
<1>1. /\ event_queue_active # <<>> /\ event_queue_active' = Tail(event_queue_active)
      /\ UNCHANGED <<data, timerVars, timer_sys_ticks, ticking>>
  BY DEF EventRead
<1>2. event_queue_active \in Seq(Storage) /\ IsInjective(event_queue_active)
  BY DEF IInv, TypeOK, NoDuplicates
<1>3. /\ Queued' \subseteq Queued
      /\ \A a, b : Before(event_queue_active', a, b) => Before(event_queue_active, a, b)
  BY <1>1, <1>2, TailElements, TailOrder DEF Queued
<1>4. QueueEffect
  BY <1>1, <1>3 DEF QueueEffect, QueueKept
<1>5. TimersEffect
  BY <1>1, TimersAlone DEF timerVars
<1> QED
  BY <1>1, <1>4, <1>5 DEF Effects, ClockEffect

LEMMA FreePushEffects ==
  ASSUME IInv, FreePush
  PROVE  Effects
<1> DEFINE e == cur_event
<1>1. ~ ticking /\ dispatch = "freeing" /\ UNCHANGED <<timer_sys_ticks, ticking>>
  BY DEF FreePush
<1>2. e \in Storage /\ e \notin Queued /\ e \notin Pending
  <2>1. e # NoEvent /\ e \in Storage
    BY <1>1 DEF IInv, TypeOK, DispatcherHolds
  <2> QED
    BY <2>1, Apart DEF IInv
<1>3. CASE e \in UserEvents /\ UNCHANGED <<event_queue_active, data, timerVars>>
  BY <1>1, <1>3, NothingHappens DEF timerVars
<1>4. CASE e \in Events /\ FreePushEvent(e)
  <2>1. data' = [data EXCEPT ![e] = NoData] /\ UNCHANGED <<event_queue_active, timerVars>>
    BY <1>4 DEF FreePushEvent
  <2>2. \A s \in Queued : data'[s] = data[s]
    BY <1>2, <2>1, UpdatedData, ListsHoldStorages
  <2>3. QueueEffect
    BY <2>1, <2>2, QueueAlone
  <2>4. TimersEffect
    BY <2>1, TimersAlone DEF timerVars
  <2> QED
    BY <1>1, <2>3, <2>4 DEF Effects, ClockEffect
<1>5. CASE e \in Timers /\ timer_sys_event_free(e) /\ period[e] = 0
  <2>1. /\ data' = [data EXCEPT ![e] = NoData]
        /\ launch_time' = [launch_time EXCEPT ![e] = 0]
        /\ UNCHANGED <<event_queue_active, system_timer_list>>
    BY <1>5 DEF timer_sys_event_free
  <2>2. /\ \A s \in Queued : data'[s] = data[s]
        /\ \A s \in Pending : launch_time'[s] = launch_time[s]
    BY <1>2, <2>1, UpdatedData, UpdatedLaunch, ListsHoldStorages
  <2>3. QueueEffect
    BY <2>1, <2>2, QueueAlone
  <2>4. TimersEffect
    BY <2>1, <2>2, TimersAlone
  <2> QED
    BY <1>1, <2>3, <2>4 DEF Effects, ClockEffect
<1>6. CASE e \in Timers /\ timer_sys_event_free(e) /\ period[e] # 0
  <2>1. /\ launch_time' = [launch_time EXCEPT ![e] = next_launch(e)]
        /\ data' = data
        /\ IF TICKS_BEFORE_OR_AT(launch_time'[e], timer_sys_ticks)
             THEN /\ event_queue_active' = event_core_write(event_queue_active, data, e)
                  /\ UNCHANGED system_timer_list
             ELSE /\ system_timer_list' = timer_sys_add(system_timer_list, launch_time', e)
                  /\ UNCHANGED event_queue_active
    BY <1>6 DEF timer_sys_event_free
  <2>2. \A s \in Pending : launch_time'[s] = launch_time[s]
    BY <1>2, <2>1, UpdatedLaunch, ListsHoldStorages
  <2>3. CASE TICKS_BEFORE_OR_AT(launch_time'[e], timer_sys_ticks)
    <3>1. QueueEffect
      BY <1>1, <1>2, <2>1, <2>3, QueueingEffect
    <3>2. TimersEffect
      BY <2>1, <2>2, <2>3, TimersAlone
    <3> QED
      BY <1>1, <3>1, <3>2 DEF Effects, ClockEffect
  <2>4. CASE ~ TICKS_BEFORE_OR_AT(launch_time'[e], timer_sys_ticks)
    <3>1. QueueEffect
      BY <2>1, <2>4, QueueAlone
    <3>2. TimersEffect
      BY <1>1, <1>2, <1>6, <2>1, <2>2, <2>4, TimerAddingEffect
    <3> QED
      BY <1>1, <3>1, <3>2 DEF Effects, ClockEffect
  <2> QED
    BY <2>3, <2>4
<1> QED
  BY <1>3, <1>4, <1>5, <1>6 DEF FreePush

LEMMA TickEffects ==
  ASSUME IInv, (\E n \in TickSteps : TickUpdate(n)) \/ TickMove \/ TickDone
  PROVE  Effects
<1>1. CASE (\E n \in TickSteps : TickUpdate(n)) \/ TickDone
  <2>1. UNCHANGED <<event_queue_active, data, system_timer_list, launch_time>>
    BY <1>1 DEF TickUpdate, TickDone, eventVars, timerVars
  <2>2. QueueEffect
    BY <2>1, QueueAlone
  <2>3. TimersEffect /\ TimersKept
    BY <2>1, TimersAlone
  <2> QED
    BY <1>1, <2>2, <2>3 DEF Effects, ClockEffect
<1>2. CASE TickMove
  <2> DEFINE e == Head(system_timer_list)
  <2>1. /\ system_timer_list # <<>> /\ system_timer_list' = Tail(system_timer_list)
        /\ event_queue_active' = event_core_write(event_queue_active, data', e)
        /\ UNCHANGED <<data, launch_time, timer_sys_ticks, ticking>>
        /\ TICKS_BEFORE_OR_AT(launch_time[e], timer_sys_ticks)
    BY <1>2 DEF TickMove, HeadIsDue
  <2>2. system_timer_list \in Seq(Timers) /\ IsInjective(system_timer_list)
    BY DEF IInv, TypeOK, NoDuplicates
  <2>3. /\ Pending' \subseteq Pending /\ e \in Pending
        /\ \A a, b : Before(system_timer_list', a, b) => Before(system_timer_list, a, b)
    BY <2>1, <2>2, TailElements, TailOrder DEF Pending
  <2>4. e \in Storage \ Queued
    BY <2>3, Apart, ListsHoldStorages DEF IInv
  <2> HIDE DEF e
  <2>5. QueueEffect
    BY <2>1, <2>4, QueueingEffect
  <2>6. TimersEffect
    BY <2>1, <2>3 DEF TimersEffect, TimersKept
  <2> QED
    BY <2>1, <2>5, <2>6 DEF Effects, ClockEffect
<1> QED
  BY <1>1, <1>2

LEMMA CallEffects ==
  ASSUME IInv, NEW t \in Threads, Call(t)
  PROVE  Effects
<1>1. ASSUME NEW h \in Handlers, HandlerCreate(t, h) PROVE Effects
  BY <1>1, EventCoreGetEffects DEF HandlerCreate
<1>2. ASSUME NEW d \in UsedData, EventSend(t, d) PROVE Effects
  BY <1>2, EventCoreGetEffects DEF EventSend
<1>3. ASSUME NEW d \in UsedData, NEW e \in UserEvents, SendUserAllocated(t, e, d)
      PROVE  Effects
  BY <1>3, SendUserAllocatedEffects
<1>4. ASSUME NEW d \in UsedData, NEW at \in Ticks, RequestAt(t, d, at) PROVE Effects
  BY <1>4, TimerRequestEffects DEF RequestAt
<1>5. ASSUME NEW d \in UsedData, NEW p \in 1 .. Horizon, RequestEvery(t, d, p) PROVE Effects
  BY <1>5, TimerRequestEffects DEF RequestEvery
<1>6. ASSUME NEW h \in Handlers, NEW i \in Ids, NEW time \in LegacyTimes,
             RequestLegacy(t, h, i, time)
      PROVE  Effects
  BY <1>6, TimerRequestEffects DEF RequestLegacy
<1>7. ASSUME NEW e \in Storage, Cancel(t, e) PROVE Effects
  BY <1>7, CancelEffects DEF Cancel
<1>8. ASSUME NEW h \in Handlers, NEW i \in Ids, TimerCancel(t, h, i) PROVE Effects
  BY <1>8, TimerCancelEffects
<1> QED
  BY <1>1, <1>2, <1>3, <1>4, <1>5, <1>6, <1>7, <1>8 DEF Call

LEMMA EveryStepHasEffects ==
  ASSUME IInv, [Next]_vars
  PROVE  Effects
<1>1. ASSUME NEW t \in Threads, Call(t) \/ EventWrite(t) PROVE Effects
  BY <1>1, CallEffects, EventWriteEffects
<1>2. CASE HandlerReturn
  BY <1>2, NothingHappens DEF HandlerReturn, timerVars
<1>3. CASE UNCHANGED vars
  BY <1>3, NothingHappens DEF vars, eventVars, timerVars
<1> QED
  BY <1>1, <1>2, <1>3, EventReadEffects, FreePushEffects, TickEffects DEF Next

-----------------------------------------------------------------------------
(* The theorems *)

LEMMA InitIsOrdered == Init => OrderInv
<1> SUFFICES ASSUME Init PROVE OrderInv
  OBVIOUS
<1>1. Pending = {} /\ DOMAIN system_timer_list = {} /\ DOMAIN event_queue_active = {}
  BY DEF Init, Pending, Range
<1>2. timer_sys_ticks \in Ticks /\ (timer_sys_ticks - timer_sys_ticks) % TickMod <= MaxLag
  <2>1. timer_sys_ticks = 0 /\ 0 \in Ticks
    BY ModuloIsTick DEF Init
  <2>2. (0 - 0) % TickMod = 0
    BY <2>1, TickDifference DEF Ticks
  <2> QED
    BY <2>1, <2>2, TickAssumption
<1>3. InWindow
  BY <1>1, <1>2 DEF InWindow
<1> QED
  BY <1>1, <1>3 DEF OrderInv, TimersSorted, QueueSorted, Before

LEMMA OrderIsKept ==
  ASSUME IInv, IInv', OrderInv, [Next]_vars
  PROVE  OrderInv'
<1>1. Effects
  BY EveryStepHasEffects
<1> QED
  BY <1>1, QueueStaysSorted, TimersStaySorted, WindowIsKept DEF OrderInv, Effects

\* The order of the queue and of the timers, and the window the timers are in,
\* are kept by every step of the event loop.
THEOREM OrderInvariance ==
  ASSUME CallersAreCareful
  PROVE  Spec => [](IInv /\ OrderInv)
<1>1. Init => OrderInv
  BY InitIsOrdered
<1>2. IInv /\ IInv' /\ OrderInv /\ [Next]_vars => OrderInv'
  BY OrderIsKept
<1>3. Spec => []IInv
  BY Invariance
<1> QED
  BY <1>1, <1>2, <1>3, PTL DEF Spec

\* The list of pending timers is in the order of the launch times at every
\* moment, for every period of the tick counter (timer_sys_add).
THEOREM TimersAreInOrder ==
  ASSUME CallersAreCareful
  PROVE  Spec => []TimersInOrder
<1>1. IInv /\ OrderInv => TimersInOrder
  <2> SUFFICES ASSUME IInv, OrderInv,
                      NEW i \in DOMAIN system_timer_list,
                      NEW j \in DOMAIN system_timer_list, i < j
               PROVE  ~ TICKS_BEFORE(launch_time[system_timer_list[j]],
                                     launch_time[system_timer_list[i]])
    BY DEF TimersInOrder
  <2>1. Before(system_timer_list, system_timer_list[i], system_timer_list[j])
    BY DEF Before
  <2>2. system_timer_list[i] \in Timers /\ system_timer_list[j] \in Timers
    <3>1. system_timer_list \in Seq(Timers)
      BY DEF IInv, TypeOK
    <3> QED
      BY <3>1, LenProperties
  <2> QED
    BY <2>1, <2>2 DEF OrderInv, TimersSorted
<1> QED
  BY <1>1, OrderInvariance, PTL

\* Between two updates of the counter no pending timer is due: none is left
\* behind by system_timer_tick_update, and none is put on the list too late.
THEOREM NoTimerIsForgotten ==
  ASSUME CallersAreCareful
  PROVE  Spec => []NoTimerForgotten
<1>1. IInv /\ OrderInv => NoTimerForgotten
  <2> SUFFICES ASSUME IInv, OrderInv, ~ ticking, NEW e \in Pending
               PROVE  ~ TICKS_BEFORE_OR_AT(launch_time[e], timer_sys_ticks)
    BY DEF NoTimerForgotten
  <2>1. timer_sys_ticks \in Ticks /\ launch_time[e] \in Ticks
    BY ListsHoldStorages DEF IInv, TypeOK
  <2>2. Ahead(launch_time[e], timer_sys_ticks)
    BY DEF OrderInv, InWindow
  <2> QED
    BY <2>1, <2>2, NotDueIsAhead
<1> QED
  BY <1>1, OrderInvariance, PTL

\* Sleeping for the time that eventOS_event_timer_shortest_active_timer
\* returns oversleeps no timer.
THEOREM SleepIsShortEnough ==
  ASSUME CallersAreCareful
  PROVE  Spec => []ShortestIsSoonest
<1>1. IInv /\ OrderInv => ShortestIsSoonest
  <2> SUFFICES ASSUME IInv, OrderInv, ~ ticking, NEW e \in Pending
               PROVE  shortest_active_timer <= (launch_time[e] - timer_sys_ticks) % TickMod
    BY DEF ShortestIsSoonest
  <2> DEFINE h == Head(system_timer_list)
  <2>1. /\ h \in Pending \cap Timers /\ system_timer_list # <<>>
        /\ e = h \/ Before(system_timer_list, h, e)
    BY HeadIsFirst
  <2>2. /\ timer_sys_ticks \in Ticks /\ launch_time[e] \in Ticks
        /\ launch_time[h] \in Ticks /\ e \in Timers
    BY <2>1, ListsHoldStorages DEF IInv, TypeOK
  <2>3. Ahead(launch_time[e], timer_sys_ticks) /\ Ahead(launch_time[h], timer_sys_ticks)
    BY <2>1 DEF OrderInv, InWindow
  <2>4. shortest_active_timer = (launch_time[h] - timer_sys_ticks) % TickMod
    BY <2>1, <2>2, <2>3, NotDueIsAhead DEF shortest_active_timer
  <2> HIDE DEF h
  <2>5. e = h \/ ~ TICKS_BEFORE(launch_time[e], launch_time[h])
    BY <2>1, <2>2 DEF OrderInv, TimersSorted
  <2>6. e = h \/ ~ ((launch_time[e] - timer_sys_ticks) % TickMod
                      < (launch_time[h] - timer_sys_ticks) % TickMod)
    BY <2>2, <2>3, <2>5, BeforeInWindow
  <2>7. \A a \in Ticks : (a - timer_sys_ticks) % TickMod \in Int
    BY <2>2, TickAssumption DEF Ticks
  <2> QED
    BY <2>2, <2>4, <2>6, <2>7
<1> QED
  BY <1>1, OrderInvariance, PTL

\* While an event waits, only one of strictly higher priority gets in front
\* of it, whatever is sent, cancelled or moved there by the timers.
THEOREM NothingOvertakes ==
  ASSUME CallersAreCareful
  PROVE  Spec => NoOvertaking
<1> DEFINE A == \A e \in Queued \cap Queued', f \in Queued' :
                  Before(event_queue_active', f, e) =>
                    \/ Before(event_queue_active, f, e)
                    \/ data'[f].priority < data'[e].priority
<1>1. IInv /\ IInv' /\ OrderInv /\ [Next]_vars => A
  <2> SUFFICES ASSUME IInv, IInv', OrderInv, [Next]_vars PROVE A
    OBVIOUS
  <2>1. QueueEffect /\ QueueSorted
    BY EveryStepHasEffects DEF Effects, OrderInv
  <2> QED
    BY <2>1, NoneOvertakes
<1>2. IInv /\ IInv' /\ OrderInv /\ [Next]_vars => [A]_vars
  <2> HIDE DEF A
  <2> QED
    BY <1>1
<1>3. Spec => [](IInv /\ OrderInv)
  BY OrderInvariance
<1>4. Spec => [][A]_vars
  <2> HIDE DEF A
  <2> QED
    BY <1>2, <1>3, PTL DEF Spec
<1> QED
  BY <1>4 DEF NoOvertaking

\* A timer's event is queued at its launch time or later, never before.
THEOREM TimersAreNeverEarly ==
  ASSUME CallersAreCareful
  PROVE  Spec => NeverEarly
<1> DEFINE A == \A e \in Timers : e \in Queued' \ Queued =>
                  TICKS_BEFORE_OR_AT(launch_time'[e], timer_sys_ticks')
<1>1. IInv /\ [Next]_vars => A
  <2> SUFFICES ASSUME IInv, [Next]_vars, NEW e \in Timers, e \in Queued' \ Queued
               PROVE  TICKS_BEFORE_OR_AT(launch_time'[e], timer_sys_ticks')
    OBVIOUS
  <2>1. QueueEffect
    BY EveryStepHasEffects DEF Effects
  <2> QED
    BY <2>1 DEF QueueEffect, QueueKept, QueueGrew
<1>2. IInv /\ [Next]_vars => [A]_vars
  <2> HIDE DEF A
  <2> QED
    BY <1>1
<1>3. Spec => []IInv
  BY Invariance
<1>4. Spec => [][A]_vars
  <2> HIDE DEF A
  <2> QED
    BY <1>2, <1>3, PTL DEF Spec
<1> QED
  BY <1>4 DEF NeverEarly

=============================================================================
