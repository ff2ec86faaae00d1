------------------------------ MODULE EventLoop ------------------------------
(***************************************************************************)
(* The nanostack event loop: event.c (tasklets, the event queue, the pool  *)
(* of event storages) and system_timer.c (timers that turn into events).   *)
(*                                                                         *)
(* Every platform critical section of the code is one atomic step here.    *)
(* The two places where a thread leaves a critical section with a storage  *)
(* in its hands are visible: a sender between event_core_get and           *)
(* event_core_write (variable hand), and the dispatcher between the        *)
(* handler's return and the hand-back in event_core_free_push (dispatch =  *)
(* "freeing").  Each handler runs on the loop thread and may call every    *)
(* operation; so may any other thread.                                     *)
(*                                                                         *)
(* A tasklet is identified with its handler function: the code refuses two *)
(* tasklets with one function and never deletes one.  The fields of a      *)
(* storage that lies on a free list are dead (each path that takes it off  *)
(* overwrites them), so they are reset to NoData, 0, 0 there.              *)
(***************************************************************************)
EXTENDS Lists

CONSTANTS
  Threads,        \* the threads that call the API
  Loop,           \* the one that runs the event loop
  Cancellers,     \* the threads that call eventOS_cancel with a pointer
  Handlers,       \* handler functions, that is, tasklets
  Ids,            \* event ids
  Priorities,     \* the priorities used, a smaller number is higher
  PoolEvents,     \* startup_event_pool
  HeapEvents,     \* what the heap can give as events
  UserEvents,     \* storages owned by the users of send_user_allocated
  PoolTimers,     \* startup_sys_timer_pool
  HeapTimers,     \* what the heap can give as timers
  NoEvent,        \* the null pointer
  TickMod,        \* number of values of timer_sys_ticks: 2^32 in the code
  TickPeriod,     \* milliseconds of a tick: 10
  LegacyTimes,    \* times in ms given to eventOS_event_timer_request
  TickSteps,      \* the ticks that one update may add
  MaxLag,         \* bound: ticks that a due periodic timer waits to be freed
  ResendFromHandler \* whether a handler sends its own user-allocated storage

Events == PoolEvents \cup HeapEvents
Timers == PoolTimers \cup HeapTimers
Storage == Events \cup UserEvents \cup Timers
Ticks == 0 .. TickMod - 1
HIGH == 0
MED == 1
LOW == 2

NoData == [receiver |-> "none", priority |-> LOW, id |-> 0]
Data == [receiver : Handlers, priority : HIGH .. LOW, id : Ids]

ASSUME LoopAssumption == Loop \in Threads /\ Cancellers \subseteq Threads
ASSUME TickAssumption == /\ TickMod \in Nat /\ TickMod > 3
                         /\ MaxLag \in Nat /\ 2 * MaxLag < TickMod
                         /\ TickSteps \subseteq 1 .. MaxLag
                         /\ TickPeriod \in Nat \ {0}
ASSUME LegacyAssumption == LegacyTimes \subseteq Nat
ASSUME PriorityAssumption == Priorities \subseteq HIGH .. LOW
ASSUME StorageAssumption ==
  /\ IsFiniteSet(PoolEvents) /\ IsFiniteSet(PoolTimers)
  /\ PoolEvents \cap HeapEvents = {}
  /\ PoolTimers \cap HeapTimers = {}
  /\ Events \cap Timers = {}
  /\ UserEvents \cap (Events \cup Timers) = {}
  /\ NoEvent \notin Storage

VARIABLES
  tasklets,            \* arm_core_tasklet_list
  event_queue_active,
  free_event_entry,
  heap,                \* the heap's storages that are allocated
  state,               \* state[e]: UNQUEUED, QUEUED or RUNNING
  data,                \* data[e]
  system_timer_free,
  system_timer_list,
  launch_time,
  period,
  timer_sys_ticks,
  ticking,             \* in the critical section of system_timer_tick_update
  cur_event,           \* the storage dispatched, or NoEvent
  dispatch,            \* where eventOS_scheduler_dispatch_event is
  hand,                \* hand[t]: the storage t took from event_core_get
  not_found            \* <<receiver, id>> of a cancel that just returned -1

eventVars == <<tasklets, event_queue_active, free_event_entry, data, state>>
timerVars == <<system_timer_free, system_timer_list, launch_time, period>>
vars == <<eventVars, heap, timerVars, timer_sys_ticks, ticking, cur_event, dispatch,
          hand, not_found>>

-----------------------------------------------------------------------------
(* Tick arithmetic: the sign of a 32 bit difference. *)

TICKS_BEFORE(a, b) == (a - b) % TickMod >= (TickMod + 1) \div 2
TICKS_BEFORE_OR_AT(a, b) == a = b \/ TICKS_BEFORE(a, b)

\* Mutant: the newcomer goes ahead of its equals.
event_core_write_lifo(q, d, e) ==
  AddBefore(q, {i \in DOMAIN q : d[q[i]].priority >= d[e].priority}, e)

\* Mutant: the comparison is the wrong way round.
event_core_write_inverted(q, d, e) ==
  AddBefore(q, {i \in DOMAIN q : d[q[i]].priority < d[e].priority}, e)

\* The queue after event_core_write(e); d holds the priorities.
event_core_write(q, d, e) ==
  AddBefore(q, {i \in DOMAIN q : d[q[i]].priority > d[e].priority}, e)

\* Mutant: compares the tick values without regard to the wrap-around.
timer_sys_add_unsigned(list, at, e) ==
  AddBefore(list, {i \in DOMAIN list : at[e] < at[list[i]]}, e)

\* system_timer_list after timer_sys_add; at holds the launch times.
timer_sys_add(list, at, e) ==
  AddBefore(list, {i \in DOMAIN list : TICKS_BEFORE(at[e], at[list[i]])}, e)

-----------------------------------------------------------------------------
TypeOK ==
  /\ tasklets \subseteq Handlers
  /\ event_queue_active \in Seq(Storage)
  /\ free_event_entry \in Seq(PoolEvents)
  /\ heap \subseteq HeapEvents \cup HeapTimers
  /\ state \in [Storage -> {"UNQUEUED", "QUEUED", "RUNNING"}]
  /\ data \in [Storage -> Data \cup {NoData}]
  /\ system_timer_free \in Seq(Timers)
  /\ system_timer_list \in Seq(Timers)
  /\ launch_time \in [Timers -> Ticks]
  /\ period \in [Timers -> Ticks]
  /\ timer_sys_ticks \in Ticks
  /\ ticking \in BOOLEAN
  /\ cur_event \in Storage \cup {NoEvent}
  /\ dispatch \in {"top", "running", "freeing"}
  /\ hand \in [Threads -> Events \cup {NoEvent}]
  /\ not_found \in (Handlers \X Ids) \cup {<<>>}

(* eventOS_scheduler_init, timer_sys_init *)
Init ==
  /\ tasklets = {}
  /\ event_queue_active = <<>>
  /\ free_event_entry = ListOf(PoolEvents)
  /\ heap = {}
  /\ state = [e \in Storage |-> "UNQUEUED"]
  /\ data = [e \in Storage |-> NoData]
  /\ system_timer_free = ListOf(PoolTimers)
  /\ system_timer_list = <<>>
  /\ launch_time = [t \in Timers |-> 0]
  /\ period = [t \in Timers |-> 0]
  /\ timer_sys_ticks = 0
  /\ ticking = FALSE
  /\ cur_event = NoEvent
  /\ dispatch = "top"
  /\ hand = [t \in Threads |-> NoEvent]
  /\ not_found = <<>>

-----------------------------------------------------------------------------
(* Operations.  The loop thread calls them from a handler only. *)

CanCall(t) ==
  ~ticking /\ hand[t] = NoEvent /\ (t = Loop => dispatch = "running")

\* event_core_get: the first free storage, else one from the heap.
event_core_get(t, d) ==
  \E e \in Events :
    /\ \/ /\ free_event_entry # <<>> /\ e = Head(free_event_entry)
          /\ free_event_entry' = Tail(free_event_entry)
          /\ UNCHANGED heap
       \/ /\ free_event_entry = <<>> /\ e \in HeapEvents \ heap
          /\ heap' = heap \cup {e}
          /\ UNCHANGED free_event_entry
    /\ hand' = [hand EXCEPT ![t] = e]
    /\ data' = [data EXCEPT ![e] = d]
    /\ not_found' = <<>>
    /\ UNCHANGED <<event_queue_active, state, timerVars, timer_sys_ticks,
                   ticking, cur_event, dispatch>>

\* eventOS_event_handler_create: the tasklet, and its init event in hand
\* (a copied handler or no memory leaves everything as it was).  The id of
\* the init event is not set by the code: any value it may have kept.
HandlerCreate(t, h) ==
  /\ CanCall(t) /\ h \notin tasklets
  /\ tasklets' = tasklets \cup {h}
  /\ \E i \in Ids :
       event_core_get(t, [receiver |-> h, priority |-> LOW, id |-> i])

\* eventOS_event_send, first critical section.
EventSend(t, d) ==
  /\ CanCall(t) /\ d.receiver \in tasklets
  /\ event_core_get(t, d)
  /\ UNCHANGED tasklets

\* Mutant: the state is not updated.
EventWriteUnmarked(t) ==
  /\ ~ticking /\ hand[t] # NoEvent
  /\ event_queue_active' = event_core_write(event_queue_active, data, hand[t])
  /\ hand' = [hand EXCEPT ![t] = NoEvent]
  /\ not_found' = <<>>
  /\ UNCHANGED <<tasklets, free_event_entry, data, state, heap, timerVars,
                 timer_sys_ticks, ticking, cur_event, dispatch>>

\* The second one: event_core_write of what is in the thread's hands.
EventWrite(t) ==
  /\ ~ticking /\ hand[t] # NoEvent
  /\ event_queue_active' = event_core_write(event_queue_active, data, hand[t])
  /\ state' = [state EXCEPT ![hand[t]] = "QUEUED"]
  /\ hand' = [hand EXCEPT ![t] = NoEvent]
  /\ not_found' = <<>>
  /\ UNCHANGED <<tasklets, free_event_entry, data, heap, timerVars,
                 timer_sys_ticks, ticking, cur_event, dispatch>>

\* eventOS_event_send_user_allocated: a storage that is not queued already.
\* The handler that runs it owns it and may send it again.
SendUserAllocated(t, e, d) ==
  /\ CanCall(t) /\ d.receiver \in tasklets
  /\ state[e] # "QUEUED"
  /\ e = cur_event => t = Loop /\ ResendFromHandler
  /\ data' = [data EXCEPT ![e] = d]
  /\ event_queue_active' = event_core_write(event_queue_active, data', e)
  /\ state' = [state EXCEPT ![e] = "QUEUED"]
  /\ not_found' = <<>>
  /\ UNCHANGED <<tasklets, free_event_entry, heap, timerVars, timer_sys_ticks,
                 ticking, cur_event, dispatch, hand>>

\* timer_struct_get: the first free timer, else one from the heap.
timer_struct_get(e) ==
  \/ /\ system_timer_free # <<>> /\ e = Head(system_timer_free)
     /\ system_timer_free' = Tail(system_timer_free)
     /\ UNCHANGED heap
  \/ /\ system_timer_free = <<>> /\ e \in HeapTimers \ heap
     /\ heap' = heap \cup {e}
     /\ UNCHANGED system_timer_free

\* eventOS_event_timer_request_at_: an event at tick "at", then every p
\* ticks if p > 0; at once if that tick is now or past.  An unknown tasklet
\* or no memory leaves everything as it was.
TimerRequest(t, d, at, p) ==
  /\ CanCall(t) /\ d.receiver \in tasklets
  /\ \E e \in Timers :
       /\ timer_struct_get(e)
       /\ data' = [data EXCEPT ![e] = d]
       /\ launch_time' = [launch_time EXCEPT ![e] = at]
       /\ period' = [period EXCEPT ![e] = p]
       /\ IF TICKS_BEFORE_OR_AT(at, timer_sys_ticks)
            THEN /\ event_queue_active' =
                      event_core_write(event_queue_active, data', e)
                 /\ state' = [state EXCEPT ![e] = "QUEUED"]
                 /\ UNCHANGED system_timer_list
            ELSE /\ system_timer_list' =
                      timer_sys_add(system_timer_list, launch_time', e)
                 /\ state' = [state EXCEPT ![e] = "UNQUEUED"]
                 /\ UNCHANGED event_queue_active
  /\ not_found' = <<>>
  /\ UNCHANGED <<tasklets, free_event_entry, timer_sys_ticks, ticking,
                 cur_event, dispatch, hand>>

\* eventOS_event_timer_request_at, and _in (at is now + in, modulo 2^32).
RequestAt(t, d, at) == TimerRequest(t, d, at, 0)

\* eventOS_event_timer_request_every: p is a positive int32_t.
RequestEvery(t, d, p) ==
  TimerRequest(t, d, (timer_sys_ticks + p) % TickMod, p)

\* The ticks that eventOS_event_timer_request waits for a time in ms.
LegacyTicks(time) ==
  IF time > 2 * TickPeriod THEN (time \div TickPeriod) + 1 ELSE 2

\* eventOS_event_timer_request
RequestLegacy(t, h, i, time) ==
  TimerRequest(t, [receiver |-> h, priority |-> MED, id |-> i],
               (timer_sys_ticks + LegacyTicks(time)) % TickMod, 0)

-----------------------------------------------------------------------------
(* Cancelling. *)

\* Mutant: the timer is not taken off the list of pending timers.
eventOS_cancel_unlinked(e) ==
  /\ period' = IF e \in Timers THEN [period EXCEPT ![e] = 0] ELSE period
  /\ event_queue_active' = Unlink(event_queue_active, e)
  /\ state' = [state EXCEPT ![e] = "UNQUEUED"]
  /\ data' = [data EXCEPT ![e] = NoData]
  /\ system_timer_free' = AddToStart(system_timer_free, e)
  /\ UNCHANGED <<tasklets, free_event_entry, heap, timer_sys_ticks, ticking,
                 system_timer_list, launch_time, cur_event, dispatch, hand>>

\* What eventOS_cancel(e) does with its critical section held: the timer part
\* (timer_sys_event_cancel_critical), the queue part, then the hand-back of
\* event_core_free_push unless e is running.  A removal from a list that does
\* not hold e leaves the list alone.
eventOS_cancel(e) ==
  /\ period' = IF e \in Timers THEN [period EXCEPT ![e] = 0] ELSE period
  /\ system_timer_list' = IF e \in Timers /\ state[e] = "UNQUEUED"
                            THEN Unlink(system_timer_list, e)
                            ELSE system_timer_list
  /\ event_queue_active' = IF state[e] = "QUEUED"
                             THEN Unlink(event_queue_active, e)
                             ELSE event_queue_active
  /\ IF state[e] = "RUNNING"
       THEN UNCHANGED <<state, data, system_timer_free, launch_time>>
       ELSE /\ state' = [state EXCEPT ![e] = "UNQUEUED"]
            /\ data' = [data EXCEPT ![e] = NoData]
            /\ IF e \in Timers
                 THEN /\ system_timer_free' = AddToStart(system_timer_free, e)
                      /\ launch_time' = [launch_time EXCEPT ![e] = 0]
                 ELSE UNCHANGED <<system_timer_free, launch_time>>
  /\ UNCHANGED <<tasklets, free_event_entry, heap, timer_sys_ticks, ticking,
                 cur_event, dispatch, hand>>

Queued == Range(event_queue_active)
Pending == Range(system_timer_list)

\* A pointer is valid from the time its event is queued until the event has
\* finished running or is cancelled; a periodic timer runs again and again.
ValidPointer(e) ==
  \/ e \in Queued \cup Pending
  \/ e = cur_event /\ dispatch = "running"
  \/ e = cur_event /\ e \in Timers /\ period[e] # 0

Cancel(t, e) ==
  /\ CanCall(t) /\ t \in Cancellers
  /\ e \in Timers \cup UserEvents /\ ValidPointer(e)
  /\ eventOS_cancel(e)
  /\ not_found' = <<>>

IsFor(e, h, i) == data[e].receiver = h /\ data[e].id = i

PositionsFor(list, h, i) == {k \in DOMAIN list : IsFor(list[k], h, i)}

\* eventOS_event_timer_cancel: the first pending timer that matches, else the
\* first queued event that matches, provided it is a timer's.
TimerCancel(t, h, i) ==
  LET pending == First(PositionsFor(system_timer_list, h, i))
      queued  == First(PositionsFor(event_queue_active, h, i))
  IN  /\ CanCall(t) /\ h \in tasklets
      /\ \/ /\ pending # 0
            /\ eventOS_cancel(system_timer_list[pending])
            /\ not_found' = <<>>
         \/ /\ pending = 0 /\ queued # 0
            /\ event_queue_active[queued] \in Timers
            /\ eventOS_cancel(event_queue_active[queued])
            /\ not_found' = <<>>
         \/ /\ pending = 0
            /\ queued # 0 => event_queue_active[queued] \notin Timers
            /\ not_found' = <<h, i>>
            /\ UNCHANGED <<eventVars, heap, timerVars, timer_sys_ticks, ticking,
                           cur_event, dispatch, hand>>

-----------------------------------------------------------------------------
(* eventOS_scheduler_dispatch_event *)

\* event_core_read
EventRead ==
  /\ ~ticking /\ dispatch = "top" /\ event_queue_active # <<>>
  /\ cur_event' = Head(event_queue_active)
  /\ event_queue_active' = Tail(event_queue_active)
  /\ state' = [state EXCEPT ![cur_event'] = "RUNNING"]
  /\ dispatch' = "running"
  /\ not_found' = <<>>
  /\ UNCHANGED <<tasklets, free_event_entry, data, heap, timerVars,
                 timer_sys_ticks, ticking, hand>>

\* The handler returns: event_core_free_push marks the storage before it
\* enters a critical section.
HandlerReturn ==
  /\ dispatch = "running" /\ hand[Loop] = NoEvent
  /\ state' = [state EXCEPT ![cur_event] = "UNQUEUED"]
  /\ dispatch' = "freeing"
  /\ not_found' = <<>>
  /\ UNCHANGED <<tasklets, event_queue_active, free_event_entry, data, heap,
                 timerVars, timer_sys_ticks, ticking, cur_event, hand>>

\* The rest of event_core_free_push for a storage of the pool or the heap.
FreePushEvent(e) ==
  /\ \/ /\ e \in PoolEvents
        /\ free_event_entry' = AddToStart(free_event_entry, e)
        /\ UNCHANGED heap
     \/ /\ e \in HeapEvents
        /\ heap' = heap \ {e}
        /\ UNCHANGED free_event_entry
  /\ data' = [data EXCEPT ![e] = NoData]
  /\ UNCHANGED <<event_queue_active, state, timerVars>>

\* The next tick of a periodic timer.
next_launch(e) == (launch_time[e] + period[e]) % TickMod

\* timer_sys_event_free: a timer that has no period is free; another one is
\* queued at once if its next tick is not in the future, else put back.
timer_sys_event_free(e) ==
  /\ \/ /\ period[e] = 0
        /\ system_timer_free' = AddToStart(system_timer_free, e)
        /\ data' = [data EXCEPT ![e] = NoData]
        /\ launch_time' = [launch_time EXCEPT ![e] = 0]
        /\ UNCHANGED <<event_queue_active, state, system_timer_list>>
     \/ /\ period[e] # 0
        /\ launch_time' = [launch_time EXCEPT ![e] = next_launch(e)]
        /\ IF TICKS_BEFORE_OR_AT(launch_time'[e], timer_sys_ticks)
             THEN /\ event_queue_active' =
                       event_core_write(event_queue_active, data, e)
                  /\ state' = [state EXCEPT ![e] = "QUEUED"]
                  /\ UNCHANGED system_timer_list
             ELSE /\ system_timer_list' =
                       timer_sys_add(system_timer_list, launch_time', e)
                  /\ UNCHANGED <<event_queue_active, state>>
        /\ UNCHANGED <<system_timer_free, data>>
  /\ UNCHANGED <<free_event_entry, heap, period>>

FreePush ==
  /\ ~ticking /\ dispatch = "freeing"
  /\ \/ cur_event \in Events /\ FreePushEvent(cur_event)
     \/ cur_event \in Timers /\ timer_sys_event_free(cur_event)
     \/ /\ cur_event \in UserEvents
        /\ UNCHANGED <<event_queue_active, free_event_entry, data, state, heap,
                       timerVars>>
  /\ cur_event' = NoEvent
  /\ dispatch' = "top"
  /\ not_found' = <<>>
  /\ UNCHANGED <<tasklets, timer_sys_ticks, ticking, hand>>

-----------------------------------------------------------------------------
(* system_timer_tick_update, from the tick interrupt or after a sleep.  Its *)
(* critical section is a sequence of steps here (ticking), none of which    *)
(* another operation can come between.                                      *)

\* How late a timer is whose tick has passed.
Lag(e, now) == (now - launch_time[e]) % TickMod

TickUpdate(n) ==
  /\ ~ticking
  /\ timer_sys_ticks' = (timer_sys_ticks + n) % TickMod
  /\ \A e \in Timers :
       period[e] # 0 /\ e \notin Pending =>
         Lag(e, timer_sys_ticks') <= MaxLag
  /\ ticking' = TRUE
  /\ not_found' = <<>>
  /\ UNCHANGED <<eventVars, heap, timerVars, cur_event, dispatch, hand>>

\* Mutant: a timer is due only after its tick.
HeadIsPast ==
  /\ system_timer_list # <<>>
  /\ TICKS_BEFORE(launch_time[Head(system_timer_list)], timer_sys_ticks)

\* Mutant: a timer is due one tick early.
HeadIsNext ==
  /\ system_timer_list # <<>>
  /\ TICKS_BEFORE(launch_time[Head(system_timer_list)], timer_sys_ticks + 2)

HeadIsDue ==
  /\ system_timer_list # <<>>
  /\ TICKS_BEFORE_OR_AT(launch_time[Head(system_timer_list)], timer_sys_ticks)

TickMove ==
  /\ ticking /\ HeadIsDue
  /\ system_timer_list' = Tail(system_timer_list)
  /\ LET e == Head(system_timer_list)
     IN  /\ event_queue_active' = event_core_write(event_queue_active, data, e)
         /\ state' = [state EXCEPT ![e] = "QUEUED"]
  /\ UNCHANGED <<tasklets, free_event_entry, data, heap, system_timer_free,
                 launch_time, period, timer_sys_ticks, ticking, cur_event,
                 dispatch, hand, not_found>>

TickDone ==
  /\ ticking /\ ~HeadIsDue
  /\ ticking' = FALSE
  /\ UNCHANGED <<eventVars, heap, timerVars, timer_sys_ticks, cur_event,
                 dispatch, hand, not_found>>

-----------------------------------------------------------------------------
UsedData == [receiver : Handlers, priority : Priorities, id : Ids]

\* The longest time, in ticks, that is not taken for the past.
Horizon == (TickMod + 1) \div 2 - 1

Call(t) ==
  \/ \E h \in Handlers : HandlerCreate(t, h)
  \/ \E d \in UsedData : EventSend(t, d)
  \/ \E d \in UsedData, e \in UserEvents : SendUserAllocated(t, e, d)
  \/ \E d \in UsedData, at \in Ticks : RequestAt(t, d, at)
  \/ \E d \in UsedData, p \in 1 .. Horizon : RequestEvery(t, d, p)
  \/ \E h \in Handlers, i \in Ids, time \in LegacyTimes :
       RequestLegacy(t, h, i, time)
  \/ \E e \in Storage : Cancel(t, e)
  \/ \E h \in Handlers, i \in Ids : TimerCancel(t, h, i)

Next ==
  \/ \E t \in Threads : Call(t) \/ EventWrite(t)
  \/ EventRead \/ HandlerReturn \/ FreePush
  \/ \E n \in TickSteps : TickUpdate(n)
  \/ TickMove \/ TickDone

Spec == Init /\ [][Next]_vars

-----------------------------------------------------------------------------
(* Correctness. *)

Unallocated == (HeapEvents \cup HeapTimers) \ heap
InHand == {hand[t] : t \in Threads} \ {NoEvent}
WithUser == UserEvents \ (Queued \cup {cur_event})

\* Where a storage can be.
Places == <<Queued, Pending, Range(free_event_entry), Range(system_timer_free),
            InHand, {cur_event} \ {NoEvent}, Unallocated, WithUser>>

\* Every event storage and every timer is in exactly one place: in the queue,
\* among the pending timers, on a free list (once), in the hands of one
\* sender, with the dispatcher, with its user, or not allocated.  Nothing is lost, nothing
\* is freed twice or shared by two owners, whatever order sends, requests,
\* cancellations, ticks and the dispatcher's two-step hand-back
\* (event_core_free_push) come in.
OneOwner ==
  /\ IsInjective(event_queue_active) /\ IsInjective(system_timer_list)
  /\ IsInjective(free_event_entry) /\ IsInjective(system_timer_free)
  /\ \A t, u \in Threads : t # u /\ hand[t] # NoEvent => hand[t] # hand[u]
  /\ \A i, j \in DOMAIN Places : i # j => Places[i] \cap Places[j] = {}
  /\ Storage = UNION {Places[i] : i \in DOMAIN Places}

\* eventOS_cancel decides by the state field alone which list an event is on;
\* the field must tell the truth at every moment a cancel may look.
StateTellsPlace ==
  \A e \in Storage :
    /\ state[e] = "QUEUED" <=> e \in Queued
    /\ state[e] = "RUNNING" <=> e = cur_event /\ dispatch = "running"

\* While an event waits, only an event of strictly higher priority can get in
\* front of it: event_core_write keeps the order of priorities and, within
\* one priority, the order of arrival, and no cancellation disturbs it.
NoOvertaking ==
  [][\A e \in Queued \cap Queued', f \in Queued' :
       Before(event_queue_active', f, e) =>
         \/ Before(event_queue_active, f, e)
         \/ data'[f].priority < data'[e].priority]_vars

\* system_timer_tick_update stops at the first timer that is not due, so it
\* misses none only if the list is in the order of the launch times, in spite
\* of the tick counter wrapping around.
TimersInOrder ==
  \A i, j \in DOMAIN system_timer_list : i < j =>
    ~TICKS_BEFORE(launch_time[system_timer_list[j]],
                  launch_time[system_timer_list[i]])

\* Outside the tick's critical section no pending timer is due.
NoTimerForgotten ==
  ~ticking => \A e \in Pending :
                ~TICKS_BEFORE_OR_AT(launch_time[e], timer_sys_ticks)

\* A timer's event is queued at its launch time or later, never before.
NeverEarly ==
  [][\A e \in Timers : e \in Queued' \ Queued =>
       TICKS_BEFORE_OR_AT(launch_time'[e], timer_sys_ticks')]_vars

\* eventOS_event_timer_shortest_active_timer, in ticks.
shortest_active_timer ==
  IF system_timer_list = <<>> THEN 0
  ELSE LET first == launch_time[Head(system_timer_list)]
       IN  IF TICKS_BEFORE_OR_AT(first, timer_sys_ticks) THEN 1
           ELSE (first - timer_sys_ticks) % TickMod

\* A device that sleeps for the time that call returns oversleeps no timer.
ShortestIsSoonest ==
  ~ticking => \A e \in Pending :
    shortest_active_timer <= (launch_time[e] - timer_sys_ticks) % TickMod

\* eventOS_event_timer_cancel answers "not found" only if no timed event of
\* that id and tasklet is pending or queued (eventOS_event_timer.h).
NotFoundIsTrue ==
  not_found # <<>> =>
    \A e \in Timers \cap (Pending \cup Queued) :
      ~IsFor(e, not_found[1], not_found[2])

\* After eventOS_cancel the event is in neither queue (eventOS_event.h).
CancelRemoves ==
  [][\A t \in Threads, e \in Storage :
       Cancel(t, e) => e \notin Queued' \cup Pending']_vars

\* The loop runs, handlers return, and a thread that took a storage for an
\* event goes on to queue it.  Fairness is strong only because the tick's
\* critical section, which keeps them out, is several steps of the model.
Fairness ==
  /\ SF_vars(EventRead \/ HandlerReturn \/ FreePush)
  /\ WF_vars(TickMove \/ TickDone)
  /\ \A t \in Threads : SF_vars(EventWrite(t))

FairSpec == Spec /\ Fairness

\* A queued event of the highest priority is run, or cancelled.
HighPriorityIsServed ==
  \A e \in Storage :
    (e \in Queued /\ data[e].priority = HIGH) ~> (e \notin Queued)

=============================================================================
