--------------------------- MODULE EventLoopProofs ---------------------------
(***************************************************************************)
(* Proofs about EventLoop for every number of threads, handlers, storages  *)
(* and ticks: the types, the ownership of every storage (OneOwner) and the *)
(* truth of the state field (StateTellsPlace).                             *)
(*                                                                         *)
(* The argument: an operation moves one storage from one place to another. *)
(* The eight places are a partition of the storages, and such a move keeps *)
(* it one (MoveKeepsPartition).  Which place a storage leaves follows from *)
(* its state field, so OneOwner and StateTellsPlace need each other, and   *)
(* both need the types and that the dispatcher holds a storage exactly     *)
(* when it is not at the top of its loop.                                  *)
(***************************************************************************)
EXTENDS EventLoop, ListLemmas

\* The eight places: pairwise disjoint, and nothing is anywhere else.
Partition(P) ==
  /\ \A i, j \in 1 .. 8 : i # j => P[i] \cap P[j] = {}
  /\ Storage = UNION {P[i] : i \in 1 .. 8}

NoDuplicates ==
  /\ IsInjective(event_queue_active) /\ IsInjective(system_timer_list)
  /\ IsInjective(free_event_entry) /\ IsInjective(system_timer_free)
  /\ \A t, u \in Threads : t # u /\ hand[t] # NoEvent => hand[t] # hand[u]

DispatcherHolds == dispatch = "top" <=> cur_event = NoEvent

IInv ==
  /\ TypeOK
  /\ NoDuplicates
  /\ Partition(Places)
  /\ StateTellsPlace
  /\ DispatcherHolds

\* What the theorems assume of the callers: events are cancelled by pointer
\* on the loop thread only, and no handler sends the storage it was given.
CallersAreCareful == Cancellers \subseteq {Loop} /\ ~ResendFromHandler

LEMMA OneOwnerIsPartition ==
  OneOwner <=> NoDuplicates /\ Partition(Places)
<1>1. DOMAIN Places = 1 .. 8
  BY DEF Places
<1> QED
  BY <1>1, Zenon DEF OneOwner, NoDuplicates, Partition

\* Ticks are counted modulo TickMod.
LEMMA ModuloIsTick ==
  /\ \A n \in Int : n % TickMod \in Ticks
  /\ \A x \in Ticks, n \in Int : x + n \in Int
  /\ TickSteps \subseteq Int /\ 0 \in Ticks
<1>1. TickMod \in Nat /\ TickMod > 0
  BY TickAssumption
<1>2. \A n \in Int : n % TickMod \in 0 .. TickMod - 1
  BY <1>1
<1>3. TickSteps \subseteq Int
  BY TickAssumption
<1> QED
  BY <1>1, <1>2, <1>3 DEF Ticks

LEMMA MoveKeepsPartition ==
  ASSUME NEW P, NEW Q, Partition(P),
         NEW i \in 1 .. 8, NEW j \in 1 .. 8, i # j, NEW e \in P[i],
         \A k \in 1 .. 8 : Q[k] = IF k = i THEN P[k] \ {e}
                                  ELSE IF k = j THEN P[k] \cup {e} ELSE P[k]
  PROVE  Partition(Q)
<1>1. \A k \in 1 .. 8 : k # i => e \notin P[k]
  BY DEF Partition
<1>2. ASSUME NEW k \in 1 .. 8, NEW l \in 1 .. 8, k # l
      PROVE  Q[k] \cap Q[l] = {}
  BY <1>1, <1>2 DEF Partition
<1>3. ASSUME NEW x
      PROVE  (\E k \in 1 .. 8 : x \in P[k]) <=> (\E k \in 1 .. 8 : x \in Q[k])
  <2>1. CASE x = e
    BY <2>1
  <2>2. CASE x # e
    BY <2>2
  <2> QED
    BY <2>1, <2>2
<1>4. UNION {P[k] : k \in 1 .. 8} = UNION {Q[k] : k \in 1 .. 8}
  <2> DEFINE U(R) == UNION {R[k] : k \in 1 .. 8}
  <2>1. \A x : x \in U(P) <=> \E k \in 1 .. 8 : x \in P[k]
    BY Zenon
  <2>2. \A x : x \in U(Q) <=> \E k \in 1 .. 8 : x \in Q[k]
    BY Zenon
  <2>3. \A x : x \in U(P) <=> x \in U(Q)
    BY <1>3, <2>1, <2>2, Zenon
  <2> HIDE DEF U
  <2>4. U(P) = U(Q)
    BY <2>3, Zenon
  <2> QED
    BY <2>4 DEF U
<1> QED
  BY <1>2, <1>4 DEF Partition

\* event_core_write and timer_sys_add put e somewhere into the list.
LEMMA EventCoreWriteElements ==
  ASSUME NEW S, NEW q \in Seq(S), NEW d, NEW e \in S
  PROVE  LET r == event_core_write(q, d, e)
         IN  /\ r \in Seq(S) /\ Range(r) = Range(q) \cup {e}
             /\ IsInjective(q) /\ e \notin Range(q) => IsInjective(r)
<1> DEFINE I == {i \in DOMAIN q : d[q[i]].priority > d[e].priority}
<1>1. event_core_write(q, d, e) = AddBefore(q, I, e) /\ I \in SUBSET DOMAIN q
  BY DEF event_core_write
<1> HIDE DEF I
<1> QED
  BY <1>1, AddBeforeElements

LEMMA TimerSysAddElements ==
  ASSUME NEW S, NEW q \in Seq(S), NEW at, NEW e \in S
  PROVE  LET r == timer_sys_add(q, at, e)
         IN  /\ r \in Seq(S) /\ Range(r) = Range(q) \cup {e}
             /\ IsInjective(q) /\ e \notin Range(q) => IsInjective(r)
<1> DEFINE I == {i \in DOMAIN q : TICKS_BEFORE(at[e], at[q[i]])}
<1>1. timer_sys_add(q, at, e) = AddBefore(q, I, e) /\ I \in SUBSET DOMAIN q
  BY DEF timer_sys_add
<1> HIDE DEF I
<1> QED
  BY <1>1, AddBeforeElements

LEMMA InitIsGood == Init => IInv
<1> SUFFICES ASSUME Init PROVE IInv
  OBVIOUS
<1> USE DEF Init
<1>1. /\ free_event_entry \in Seq(PoolEvents)
      /\ Range(free_event_entry) = PoolEvents /\ IsInjective(free_event_entry)
      /\ system_timer_free \in Seq(PoolTimers)
      /\ Range(system_timer_free) = PoolTimers /\ IsInjective(system_timer_free)
  BY ListOfElements, StorageAssumption
<1>2. TypeOK
  <2>1. 0 \in Ticks
    BY TickAssumption DEF Ticks
  <2>2. system_timer_free \in Seq(Timers)
    BY <1>1, SeqMonotonic DEF Timers
  <2>3. event_queue_active \in Seq(Storage) /\ system_timer_list \in Seq(Timers)
    OBVIOUS
  <2>4. /\ state \in [Storage -> {"UNQUEUED", "QUEUED", "RUNNING"}]
        /\ data \in [Storage -> Data \cup {NoData}]
        /\ launch_time \in [Timers -> Ticks] /\ period \in [Timers -> Ticks]
        /\ hand \in [Threads -> Events \cup {NoEvent}]
    BY <2>1
  <2> QED
    BY <1>1, <2>1, <2>2, <2>3, <2>4 DEF TypeOK
<1>3. /\ Queued = {} /\ Pending = {} /\ InHand = {}
      /\ Unallocated = HeapEvents \cup HeapTimers
      /\ WithUser = UserEvents
      /\ IsInjective(event_queue_active) /\ IsInjective(system_timer_list)
  BY StorageAssumption
  DEF Queued, Pending, InHand, Unallocated, WithUser, Range, IsInjective, Storage
<1>4. NoDuplicates
  BY <1>1, <1>3 DEF NoDuplicates
<1>5. Partition(Places)
  <2>1. Places = <<{}, {}, PoolEvents, PoolTimers, {}, {},
                   HeapEvents \cup HeapTimers, UserEvents>>
    BY <1>1, <1>3 DEF Places
  <2>2. \A i, j \in 1 .. 8 : i # j => Places[i] \cap Places[j] = {}
    BY <2>1, StorageAssumption DEF Events, Timers, Storage
  <2>3. Storage = UNION {Places[i] : i \in 1 .. 8}
    BY <2>1 DEF Events, Timers, Storage
  <2> QED
    BY <2>2, <2>3 DEF Partition
<1>6. StateTellsPlace
  BY <1>3 DEF StateTellsPlace
<1>7. DispatcherHolds
  BY DEF DispatcherHolds
<1> QED
  BY <1>2, <1>4, <1>5, <1>6, <1>7 DEF IInv

\* The storage e leaves the place i for the place j.
After(S, k, e, i, j) ==
  IF k = i THEN S \ {e} ELSE IF k = j THEN S \cup {e} ELSE S

Moved(e, i, j) ==
  /\ Queued' = After(Queued, 1, e, i, j)
  /\ Pending' = After(Pending, 2, e, i, j)
  /\ Range(free_event_entry') = After(Range(free_event_entry), 3, e, i, j)
  /\ Range(system_timer_free') = After(Range(system_timer_free), 4, e, i, j)
  /\ InHand' = After(InHand, 5, e, i, j)
  /\ {cur_event'} \ {NoEvent} = After({cur_event} \ {NoEvent}, 6, e, i, j)
  /\ Unallocated' = After(Unallocated, 7, e, i, j)
  /\ WithUser' = After(WithUser, 8, e, i, j)

LEMMA PlacesAre ==
  /\ Places[1] = Queued /\ Places'[1] = Queued'
  /\ Places[2] = Pending /\ Places'[2] = Pending'
  /\ Places[3] = Range(free_event_entry)
  /\ Places'[3] = Range(free_event_entry)'
  /\ Places[4] = Range(system_timer_free)
  /\ Places'[4] = Range(system_timer_free)'
  /\ Places[5] = InHand /\ Places'[5] = InHand'
  /\ Places[6] = {cur_event} \ {NoEvent}
  /\ Places'[6] = {cur_event'} \ {NoEvent}
  /\ Places[7] = Unallocated /\ Places'[7] = Unallocated'
  /\ Places[8] = WithUser /\ Places'[8] = WithUser'
BY DEF Places

LEMMA MoveKeepsPlaces ==
  ASSUME Partition(Places), NEW i \in 1 .. 8, NEW j \in 1 .. 8, i # j,
         NEW e \in Places[i], Moved(e, i, j)
  PROVE  Partition(Places)'
<1>1. \A k \in 1 .. 8 : Places'[k] = After(Places[k], k, e, i, j)
  <2> HIDE DEF After
  <2>1. /\ Places'[1] = After(Places[1], 1, e, i, j)
        /\ Places'[2] = After(Places[2], 2, e, i, j)
        /\ Places'[3] = After(Places[3], 3, e, i, j)
        /\ Places'[4] = After(Places[4], 4, e, i, j)
        /\ Places'[5] = After(Places[5], 5, e, i, j)
        /\ Places'[6] = After(Places[6], 6, e, i, j)
        /\ Places'[7] = After(Places[7], 7, e, i, j)
        /\ Places'[8] = After(Places[8], 8, e, i, j)
    BY PlacesAre DEF Moved
  <2> QED
    BY <2>1
<1>2. Partition(Places')
  BY <1>1, MoveKeepsPartition DEF After
<1> QED
  BY <1>2 DEF Partition

\* The numbers of the places, for the steps that use no other arithmetic.
LEMMA PlaceNumbers ==
  /\ 1 \in 1 .. 8 /\ 2 \in 1 .. 8 /\ 3 \in 1 .. 8 /\ 4 \in 1 .. 8
  /\ 5 \in 1 .. 8 /\ 6 \in 1 .. 8 /\ 7 \in 1 .. 8 /\ 8 \in 1 .. 8
  /\ 1 # 2 /\ 2 # 1 /\ 1 # 3 /\ 3 # 1 /\ 1 # 4 /\ 4 # 1 /\ 1 # 5 /\ 5 # 1
  /\ 1 # 6 /\ 6 # 1 /\ 1 # 7 /\ 7 # 1 /\ 1 # 8 /\ 8 # 1
  /\ 2 # 3 /\ 3 # 2 /\ 2 # 4 /\ 4 # 2 /\ 2 # 5 /\ 5 # 2 /\ 2 # 6 /\ 6 # 2
  /\ 2 # 7 /\ 7 # 2 /\ 2 # 8 /\ 8 # 2
  /\ 3 # 4 /\ 4 # 3 /\ 3 # 5 /\ 5 # 3 /\ 3 # 6 /\ 6 # 3 /\ 3 # 7 /\ 7 # 3
  /\ 3 # 8 /\ 8 # 3
  /\ 4 # 5 /\ 5 # 4 /\ 4 # 6 /\ 6 # 4 /\ 4 # 7 /\ 7 # 4 /\ 4 # 8 /\ 8 # 4
  /\ 5 # 6 /\ 6 # 5 /\ 5 # 7 /\ 7 # 5 /\ 5 # 8 /\ 8 # 5
  /\ 6 # 7 /\ 7 # 6 /\ 6 # 8 /\ 8 # 6
  /\ 7 # 8 /\ 8 # 7
BY SMT

\* A storage that is in one place is in no other, and every place holds
\* storages only.
LEMMA Apart ==
  ASSUME Partition(Places)
  PROVE  /\ \A e \in Queued : /\ e \notin Pending /\ e # cur_event
                               /\ e \notin InHand /\ e \notin Range(free_event_entry)
                               /\ e \notin Range(system_timer_free)
         /\ \A e \in Pending : /\ e # cur_event
                               /\ e \notin Range(system_timer_free)
         /\ \A e \in Range(free_event_entry) : e # cur_event /\ e \notin InHand
         /\ \A e \in Range(system_timer_free) : e # cur_event
         /\ \A e \in InHand : e # cur_event
         /\ \A e \in Unallocated : /\ e \notin Queued \cup Pending \cup InHand
                                   /\ e # cur_event
                                   /\ e \notin Range(system_timer_free)
         /\ NoEvent \notin Queued \cup Pending
         /\ NoEvent \notin Range(free_event_entry) \cup Range(system_timer_free)
<1>1. /\ Places[1] = Queued /\ Places[2] = Pending
      /\ Places[3] = Range(free_event_entry)
      /\ Places[4] = Range(system_timer_free)
      /\ Places[5] = InHand /\ Places[6] = {cur_event} \ {NoEvent}
      /\ Places[7] = Unallocated
  BY DEF Places
<1>2. \A i, j \in 1 .. 8 : i # j => Places[i] \cap Places[j] = {}
  BY DEF Partition
<1>3. \A i \in 1 .. 8 : NoEvent \notin Places[i]
  BY StorageAssumption DEF Partition
<1>4. NoEvent \notin Unallocated /\ NoEvent \notin InHand
  BY <1>1, <1>3
<1> QED
  BY <1>1, <1>2, <1>3, <1>4

LEMMA EventCoreGetIsGood ==
  ASSUME IInv, NEW t \in Threads, NEW d \in Data, CanCall(t),
         event_core_get(t, d), tasklets' \subseteq Handlers
  PROVE  IInv'
<1> USE DEF IInv
<1>1. PICK e \in Events :
        /\ \/ /\ free_event_entry # <<>> /\ e = Head(free_event_entry)
              /\ free_event_entry' = Tail(free_event_entry)
              /\ UNCHANGED heap
           \/ /\ free_event_entry = <<>> /\ e \in HeapEvents \ heap
              /\ heap' = heap \cup {e}
              /\ UNCHANGED free_event_entry
        /\ hand' = [hand EXCEPT ![t] = e]
        /\ data' = [data EXCEPT ![e] = d]
        /\ not_found' = <<>>
        /\ UNCHANGED <<event_queue_active, state, timerVars, timer_sys_ticks,
                       ticking, cur_event, dispatch>>
  BY DEF event_core_get
<1>2. /\ hand \in [Threads -> Events \cup {NoEvent}] /\ hand[t] = NoEvent
      /\ e \in Storage /\ e # NoEvent
  BY StorageAssumption DEF TypeOK, CanCall, Storage
<1>0. free_event_entry # <<>> =>
        /\ Tail(free_event_entry) \in Seq(PoolEvents)
        /\ IsInjective(Tail(free_event_entry))
  BY TailElements DEF TypeOK, NoDuplicates
<1>3. /\ UNCHANGED <<Queued, Pending, WithUser, Range(system_timer_free)>>
      /\ UNCHANGED ({cur_event} \ {NoEvent})
  BY <1>1 DEF Queued, Pending, WithUser, timerVars
<1>4. InHand' = InHand \cup {e}
  BY <1>1, <1>2 DEF InHand
<1>5. e \notin InHand
  <2>1. CASE e \in HeapEvents \ heap
    BY <2>1, Apart DEF Unallocated
  <2>2. CASE free_event_entry # <<>> /\ e = Head(free_event_entry)
    BY <2>2, Apart, TailElements DEF TypeOK
  <2> QED
    BY <1>1, <2>1, <2>2
<1>6. Partition(Places)'
  <2>1. CASE free_event_entry # <<>> /\ e = Head(free_event_entry)
                /\ free_event_entry' = Tail(free_event_entry) /\ UNCHANGED heap
    <3>1. /\ e \in Range(free_event_entry)
          /\ Range(free_event_entry)' = Range(free_event_entry) \ {e}
      BY <2>1, TailElements DEF TypeOK, NoDuplicates
    <3>2. UNCHANGED Unallocated
      BY <2>1 DEF Unallocated
    <3>3. e \in Places[3] /\ Moved(e, 3, 5)
      BY <1>3, <1>4, <3>1, <3>2 DEF Moved, After, Places
    <3> QED
      BY <3>3, MoveKeepsPlaces, PlaceNumbers, Zenon
  <2>2. CASE e \in HeapEvents \ heap /\ heap' = heap \cup {e}
                /\ UNCHANGED free_event_entry
    <3>1. e \in Unallocated /\ Unallocated' = Unallocated \ {e}
      BY <2>2 DEF Unallocated
    <3>2. UNCHANGED Range(free_event_entry)
      BY <2>2
    <3>3. e \in Places[7] /\ Moved(e, 7, 5)
      BY <1>3, <1>4, <3>1, <3>2 DEF Moved, After, Places
    <3> QED
      BY <3>3, MoveKeepsPlaces, PlaceNumbers, Zenon
  <2> QED
    BY <1>1, <2>1, <2>2
<1>7. TypeOK'
  <2>1. free_event_entry' \in Seq(PoolEvents) /\ heap' \subseteq HeapEvents \cup HeapTimers
    BY <1>0, <1>1 DEF TypeOK
  <2>2. /\ hand' \in [Threads -> Events \cup {NoEvent}]
        /\ data' \in [Storage -> Data \cup {NoData}]
    BY <1>1, <1>2 DEF TypeOK
  <2>3. UNCHANGED <<event_queue_active, state, system_timer_free,
                    system_timer_list, launch_time, period, timer_sys_ticks,
                    ticking, cur_event, dispatch>>
    BY <1>1 DEF timerVars
  <2>4. not_found' \in (Handlers \X Ids) \cup {<<>>}
    BY <1>1
  <2> QED
    BY <2>1, <2>2, <2>3, <2>4 DEF TypeOK
<1>8. NoDuplicates'
  <2>1. IsInjective(free_event_entry)'
    BY <1>0, <1>1 DEF NoDuplicates
  <2>2. \A u, v \in Threads : u # v /\ hand'[u] # NoEvent => hand'[u] # hand'[v]
    <3>1. ASSUME NEW u \in Threads
          PROVE  /\ hand'[u] = IF u = t THEN e ELSE hand[u]
                 /\ hand[u] # e
      BY <1>1, <1>2, <1>5 DEF InHand
    <3> QED
      BY <1>2, <3>1 DEF NoDuplicates
  <2> QED
    BY <1>1, <2>1, <2>2 DEF NoDuplicates, timerVars
<1>9. StateTellsPlace' /\ DispatcherHolds'
  BY <1>1, <1>3 DEF StateTellsPlace, DispatcherHolds
<1> QED
  BY <1>6, <1>7, <1>8, <1>9

\* What queueing a storage does to the queue and to the state field.
LEMMA QueueingElements ==
  ASSUME IInv, NEW e \in Storage, e \notin Queued, NEW d,
         event_queue_active' = event_core_write(event_queue_active, d, e),
         state' = [state EXCEPT ![e] = "QUEUED"]
  PROVE  /\ event_queue_active' \in Seq(Storage)
         /\ IsInjective(event_queue_active')
         /\ Queued' = Queued \cup {e}
         /\ state' \in [Storage -> {"UNQUEUED", "QUEUED", "RUNNING"}]
         /\ \A x \in Storage : state'[x] = IF x = e THEN "QUEUED" ELSE state[x]
<1>1. /\ event_queue_active \in Seq(Storage) /\ IsInjective(event_queue_active)
      /\ state \in [Storage -> {"UNQUEUED", "QUEUED", "RUNNING"}]
  BY DEF IInv, TypeOK, NoDuplicates
<1>2. e \notin Range(event_queue_active)
  BY DEF Queued
<1>3. /\ event_queue_active' \in Seq(Storage)
      /\ IsInjective(event_queue_active')
      /\ Range(event_queue_active') = Range(event_queue_active) \cup {e}
  BY <1>1, <1>2, EventCoreWriteElements
<1> QED
  BY <1>1, <1>3 DEF Queued

LEMMA EventWriteIsGood ==
  ASSUME IInv, NEW t \in Threads, EventWrite(t)
  PROVE  IInv'
<1> USE DEF IInv
<1> DEFINE e == hand[t]
<1>1. /\ e \in Events /\ e # NoEvent /\ e \in InHand
      /\ hand \in [Threads -> Events \cup {NoEvent}]
  BY DEF EventWrite, TypeOK, InHand
<1>2. e \in Storage /\ e \notin Queued /\ e # cur_event /\ e \notin UserEvents
  BY <1>1, Apart, StorageAssumption DEF Storage
<1>3. /\ event_queue_active' = event_core_write(event_queue_active, data, e)
      /\ state' = [state EXCEPT ![e] = "QUEUED"]
      /\ hand' = [hand EXCEPT ![t] = NoEvent]
      /\ not_found' = <<>>
      /\ UNCHANGED <<tasklets, free_event_entry, data, heap, system_timer_free,
                     system_timer_list, launch_time, period, timer_sys_ticks,
                     ticking, cur_event, dispatch>>
  BY DEF EventWrite, timerVars
<1> HIDE DEF e
<1>4. /\ event_queue_active' \in Seq(Storage)
      /\ IsInjective(event_queue_active')
      /\ Queued' = Queued \cup {e}
      /\ state' \in [Storage -> {"UNQUEUED", "QUEUED", "RUNNING"}]
      /\ \A x \in Storage : state'[x] = IF x = e THEN "QUEUED" ELSE state[x]
  BY <1>2, <1>3, QueueingElements
<1>5. /\ UNCHANGED <<Pending, Range(free_event_entry), Range(system_timer_free),
                     Unallocated, {cur_event} \ {NoEvent}>>
  BY <1>3 DEF Pending, Unallocated
<1>6. UNCHANGED WithUser
  BY <1>2, <1>3, <1>4 DEF WithUser
<1>7. \A u \in Threads : hand'[u] = IF u = t THEN NoEvent ELSE hand[u]
  BY <1>1, <1>3
<1>8. InHand' = InHand \ {e}
  <2>1. \A u \in Threads : u # t => hand[u] # e
    BY <1>1 DEF NoDuplicates, e
  <2> QED
    BY <1>1, <1>7, <2>1 DEF InHand, e
<1>9. Partition(Places)'
  <2>1. e \in Places[5] /\ Moved(e, 5, 1)
    BY <1>1, <1>4, <1>5, <1>6, <1>8 DEF Moved, After, Places
  <2> QED
    BY <2>1, MoveKeepsPlaces, PlaceNumbers, Zenon
<1>10. TypeOK'
  BY <1>1, <1>3, <1>4 DEF TypeOK
<1>11. NoDuplicates'
  BY <1>3, <1>4, <1>7 DEF NoDuplicates
<1>12. StateTellsPlace' /\ DispatcherHolds'
  BY <1>2, <1>3, <1>4 DEF StateTellsPlace, DispatcherHolds
<1> QED
  BY <1>9, <1>10, <1>11, <1>12

LEMMA SendUserAllocatedIsGood ==
  ASSUME IInv, CallersAreCareful, NEW t \in Threads, NEW e \in UserEvents,
         NEW d \in Data, SendUserAllocated(t, e, d)
  PROVE  IInv'
<1> USE DEF IInv
<1>1. /\ e # cur_event /\ e \in Storage /\ e \notin Queued /\ e \in WithUser
  BY DEF SendUserAllocated, CallersAreCareful, StateTellsPlace, WithUser, Storage
<1>2. /\ event_queue_active' = event_core_write(event_queue_active, data', e)
      /\ state' = [state EXCEPT ![e] = "QUEUED"]
      /\ data' = [data EXCEPT ![e] = d]
      /\ not_found' = <<>>
      /\ UNCHANGED <<tasklets, free_event_entry, heap, system_timer_free,
                     system_timer_list, launch_time, period, timer_sys_ticks,
                     ticking, cur_event, dispatch, hand>>
  BY DEF SendUserAllocated, timerVars
<1>3. /\ event_queue_active' \in Seq(Storage)
      /\ IsInjective(event_queue_active')
      /\ Queued' = Queued \cup {e}
      /\ state' \in [Storage -> {"UNQUEUED", "QUEUED", "RUNNING"}]
      /\ \A x \in Storage : state'[x] = IF x = e THEN "QUEUED" ELSE state[x]
  BY <1>1, <1>2, QueueingElements
<1>4. /\ UNCHANGED <<Pending, Range(free_event_entry), Range(system_timer_free),
                     InHand, Unallocated, {cur_event} \ {NoEvent}>>
  BY <1>2 DEF Pending, InHand, Unallocated
<1>5. WithUser' = WithUser \ {e}
  BY <1>1, <1>2, <1>3 DEF WithUser
<1>6. Partition(Places)'
  <2>1. e \in Places[8] /\ Moved(e, 8, 1)
    <3>1. e \in Places[8]
      BY <1>1, PlacesAre, Zenon
    <3>2. Moved(e, 8, 1)
      BY <1>3, <1>4, <1>5, PlaceNumbers, Zenon DEF Moved, After
    <3> QED
      BY <3>1, <3>2
  <2> QED
    BY <2>1, MoveKeepsPlaces, PlaceNumbers, Zenon
<1>7. TypeOK'
  <2>1. data' \in [Storage -> Data \cup {NoData}]
    BY <1>2 DEF TypeOK
  <2> QED
    BY <1>2, <1>3, <2>1 DEF TypeOK
<1>8. NoDuplicates'
  BY <1>2, <1>3 DEF NoDuplicates
<1>9. StateTellsPlace' /\ DispatcherHolds'
  BY <1>1, <1>2, <1>3 DEF StateTellsPlace, DispatcherHolds
<1> QED
  BY <1>6, <1>7, <1>8, <1>9

\* What adding a timer to the pending ones does.
LEMMA PendingElements ==
  ASSUME IInv, NEW e \in Timers, e \notin Pending, NEW at,
         system_timer_list' = timer_sys_add(system_timer_list, at, e)
  PROVE  /\ system_timer_list' \in Seq(Timers)
         /\ IsInjective(system_timer_list')
         /\ Pending' = Pending \cup {e}
<1>1. system_timer_list \in Seq(Timers) /\ IsInjective(system_timer_list)
  BY DEF IInv, TypeOK, NoDuplicates
<1>2. e \notin Range(system_timer_list)
  BY DEF Pending
<1>3. /\ system_timer_list' \in Seq(Timers)
      /\ IsInjective(system_timer_list')
      /\ Range(system_timer_list') = Range(system_timer_list) \cup {e}
  BY <1>1, <1>2, TimerSysAddElements
<1> QED
  BY <1>3 DEF Pending

LEMMA TimerRequestIsGood ==
  ASSUME IInv, NEW t \in Threads, NEW d \in Data, NEW at \in Ticks,
         NEW p \in Ticks, TimerRequest(t, d, at, p)
  PROVE  IInv'
<1> USE DEF IInv
<1>1. PICK e \in Timers :
       /\ timer_struct_get(e)
       /\ data' = [data EXCEPT ![e] = d]
       /\ launch_time' = [launch_time EXCEPT ![e] = at]
       /\ period' = [period EXCEPT ![e] = p]
       /\ IF TICKS_BEFORE_OR_AT(at, timer_sys_ticks)
            THEN /\ event_queue_active' =
                      event_core_write(event_queue_active, data', e)
                 /\ state' = [state EXCEPT ![e] = "QUEUED"]
                 /\ UNCHANGED system_timer_list
            ELSE /\ system_timer_list' =
                      timer_sys_add(system_timer_list, launch_time', e)
                 /\ state' = [state EXCEPT ![e] = "UNQUEUED"]
                 /\ UNCHANGED event_queue_active
  BY DEF TimerRequest
<1>2. /\ not_found' = <<>>
      /\ UNCHANGED <<tasklets, free_event_entry, timer_sys_ticks, ticking,
                     cur_event, dispatch, hand>>
  BY DEF TimerRequest
<1>3. e \in Storage /\ e \notin UserEvents
  BY StorageAssumption DEF Storage
<1>4. /\ system_timer_free \in Seq(Timers) /\ IsInjective(system_timer_free)
      /\ system_timer_free # <<>> =>
           /\ Head(system_timer_free) \in Range(system_timer_free)
           /\ Tail(system_timer_free) \in Seq(Timers)
           /\ Range(Tail(system_timer_free)) =
                Range(system_timer_free) \ {Head(system_timer_free)}
           /\ IsInjective(Tail(system_timer_free))
  BY TailElements DEF TypeOK, NoDuplicates
<1>5. /\ system_timer_free' \in Seq(Timers) /\ IsInjective(system_timer_free)'
      /\ heap' \subseteq HeapEvents \cup HeapTimers
  BY <1>1, <1>4 DEF timer_struct_get, TypeOK
<1>6. PICK i \in {4, 7} :
        /\ e \in Places[i]
        /\ Range(system_timer_free)' =
             IF i = 4 THEN Range(system_timer_free) \ {e}
                      ELSE Range(system_timer_free)
        /\ Unallocated' = IF i = 7 THEN Unallocated \ {e} ELSE Unallocated
  <2>1. CASE /\ system_timer_free # <<>> /\ e = Head(system_timer_free)
             /\ system_timer_free' = Tail(system_timer_free)
             /\ UNCHANGED heap
    <3>1. UNCHANGED Unallocated
      BY <2>1 DEF Unallocated
    <3>2. e \in Places[4] /\ 4 \in {4, 7}
      BY <1>4, <2>1 DEF Places
    <3> QED
      BY <1>4, <2>1, <3>1, <3>2
  <2>2. CASE /\ e \in HeapTimers \ heap /\ heap' = heap \cup {e}
             /\ UNCHANGED system_timer_free
    <3>1. e \in Unallocated /\ Unallocated' = Unallocated \ {e}
      BY <2>2 DEF Unallocated
    <3>2. e \in Places[7] /\ 7 \in {4, 7}
      BY <3>1 DEF Places
    <3>3. Range(system_timer_free)' = Range(system_timer_free)
      BY <2>2
    <3> QED
      BY <3>1, <3>2, <3>3
  <2> QED
    BY <1>1, <2>1, <2>2 DEF timer_struct_get
<1>7. e \notin Queued /\ e \notin Pending /\ e # cur_event
  BY <1>6, Apart DEF Places
<1>8. UNCHANGED <<Range(free_event_entry), InHand, {cur_event} \ {NoEvent}>>
  BY <1>2 DEF InHand
<1>9. /\ data' \in [Storage -> Data \cup {NoData}]
      /\ launch_time' \in [Timers -> Ticks] /\ period' \in [Timers -> Ticks]
  BY <1>1 DEF TypeOK
<1>10. CASE TICKS_BEFORE_OR_AT(at, timer_sys_ticks)
  <2>1. /\ event_queue_active' = event_core_write(event_queue_active, data', e)
        /\ state' = [state EXCEPT ![e] = "QUEUED"]
        /\ UNCHANGED system_timer_list
    BY <1>1, <1>10
  <2>2. /\ event_queue_active' \in Seq(Storage)
        /\ IsInjective(event_queue_active')
        /\ Queued' = Queued \cup {e}
        /\ state' \in [Storage -> {"UNQUEUED", "QUEUED", "RUNNING"}]
        /\ \A x \in Storage : state'[x] = IF x = e THEN "QUEUED" ELSE state[x]
    BY <1>3, <1>7, <2>1, QueueingElements
  <2>3. UNCHANGED Pending /\ UNCHANGED WithUser /\ Queued' = Queued \cup {e}
    BY <1>2, <1>3, <2>1, <2>2 DEF Pending, WithUser
  <2>4. Partition(Places)'
    <3>1. Moved(e, i, 1)
      <4>1. CASE i = 4
        <5>1. /\ Range(system_timer_free)' = Range(system_timer_free) \ {e}
              /\ Unallocated' = Unallocated
          BY <1>6, <4>1
        <5>2. Moved(e, 4, 1)
          BY <1>8, <2>3, <5>1, PlaceNumbers, Zenon DEF Moved, After
        <5> QED
          BY <4>1, <5>2
      <4>2. CASE i = 7
        <5>1. /\ Range(system_timer_free)' = Range(system_timer_free)
              /\ Unallocated' = Unallocated \ {e}
          BY <1>6, <4>2
        <5>2. Moved(e, 7, 1)
          BY <1>8, <2>3, <5>1, PlaceNumbers, Zenon DEF Moved, After
        <5> QED
          BY <4>2, <5>2
      <4> QED
        BY <4>1, <4>2
    <3> QED
      BY <1>6, <3>1, MoveKeepsPlaces, PlaceNumbers, Zenon
  <2>5. TypeOK'
    BY <1>2, <1>5, <1>9, <2>1, <2>2 DEF TypeOK
  <2>6. NoDuplicates'
    BY <1>2, <1>5, <2>1, <2>2 DEF NoDuplicates
  <2>7. StateTellsPlace' /\ DispatcherHolds'
    BY <1>2, <1>7, <2>2 DEF StateTellsPlace, DispatcherHolds
  <2> QED
    BY <2>4, <2>5, <2>6, <2>7
<1>11. CASE ~TICKS_BEFORE_OR_AT(at, timer_sys_ticks)
  <2>1. /\ system_timer_list' = timer_sys_add(system_timer_list, launch_time', e)
        /\ state' = [state EXCEPT ![e] = "UNQUEUED"]
        /\ UNCHANGED event_queue_active
    BY <1>1, <1>11
  <2>2. /\ system_timer_list' \in Seq(Timers)
        /\ IsInjective(system_timer_list')
        /\ Pending' = Pending \cup {e}
    BY <1>7, <2>1, PendingElements
  <2>3. UNCHANGED Queued /\ UNCHANGED WithUser
    BY <1>2, <2>1 DEF Queued, WithUser
  <2>4. Partition(Places)'
    <3>1. Moved(e, i, 2)
      <4>1. CASE i = 4
        <5>1. /\ Range(system_timer_free)' = Range(system_timer_free) \ {e}
              /\ Unallocated' = Unallocated
          BY <1>6, <4>1
        <5>2. Moved(e, 4, 2)
          BY <1>8, <2>2, <2>3, <5>1, PlaceNumbers, Zenon DEF Moved, After
        <5> QED
          BY <4>1, <5>2
      <4>2. CASE i = 7
        <5>1. /\ Range(system_timer_free)' = Range(system_timer_free)
              /\ Unallocated' = Unallocated \ {e}
          BY <1>6, <4>2
        <5>2. Moved(e, 7, 2)
          BY <1>8, <2>2, <2>3, <5>1, PlaceNumbers, Zenon DEF Moved, After
        <5> QED
          BY <4>2, <5>2
      <4> QED
        BY <4>1, <4>2
    <3> QED
      BY <1>6, <3>1, MoveKeepsPlaces, PlaceNumbers, Zenon
  <2>5. TypeOK'
    <3>1. state' \in [Storage -> {"UNQUEUED", "QUEUED", "RUNNING"}]
      BY <2>1 DEF TypeOK
    <3> QED
      BY <1>2, <1>5, <1>9, <2>1, <2>2, <3>1 DEF TypeOK
  <2>6. NoDuplicates'
    BY <1>2, <1>5, <2>1, <2>2 DEF NoDuplicates
  <2>7. StateTellsPlace' /\ DispatcherHolds'
    BY <1>2, <1>7, <2>1, <2>3 DEF StateTellsPlace, DispatcherHolds, TypeOK
  <2> QED
    BY <2>4, <2>5, <2>6, <2>7
<1> QED
  BY <1>10, <1>11

\* eventOS_cancel of an event that is queued, pending or running: the first
\* two leave their list for the free timers or their user, the last stays.
LEMMA CancelIsGood ==
  ASSUME IInv, NEW e \in Timers \cup UserEvents, eventOS_cancel(e),
         \/ e \in Queued \cup Pending
         \/ e = cur_event /\ dispatch = "running",
         not_found' = <<>>
  PROVE  IInv'
<1> USE DEF IInv
<1>1. /\ e \in Storage /\ e \notin Events /\ e # NoEvent
      /\ e \in Timers <=> e \notin UserEvents
  BY StorageAssumption DEF Storage
<1>2. UNCHANGED <<tasklets, free_event_entry, heap, timer_sys_ticks, ticking,
                  cur_event, dispatch, hand>>
  BY DEF eventOS_cancel
<1>3. period' \in [Timers -> Ticks]
  <2>1. period \in [Timers -> Ticks] /\ 0 \in Ticks
    BY ModuloIsTick, Zenon DEF TypeOK
  <2>2. period' = IF e \in Timers THEN [period EXCEPT ![e] = 0] ELSE period
    BY Zenon DEF eventOS_cancel
  <2> QED
    BY <2>1, <2>2
<1>4. UNCHANGED <<Range(free_event_entry), InHand, Unallocated,
                  {cur_event} \ {NoEvent}>>
  BY <1>2 DEF InHand, Unallocated
<1>5. CASE e = cur_event /\ dispatch = "running"
  <2>1. state[e] = "RUNNING"
    BY <1>1, <1>5 DEF StateTellsPlace
  <2>2. UNCHANGED <<system_timer_list, event_queue_active, state, data,
                    system_timer_free, launch_time>>
    BY <2>1 DEF eventOS_cancel
  <2>3. UNCHANGED Places
    BY <1>2, <1>4, <2>2 DEF Places, Queued, Pending, WithUser
  <2>4. TypeOK' /\ NoDuplicates'
    BY <1>2, <1>3, <2>2 DEF TypeOK, NoDuplicates
  <2>5. StateTellsPlace' /\ DispatcherHolds'
    BY <1>2, <2>2 DEF StateTellsPlace, DispatcherHolds, Queued
  <2>6. Partition(Places)'
    BY <2>3 DEF Partition
  <2> QED
    BY <2>4, <2>5, <2>6
<1>6. CASE e \in Queued \cup Pending
  <2>1. /\ e # cur_event
        /\ state[e] = IF e \in Queued THEN "QUEUED" ELSE "UNQUEUED"
        /\ e \in Pending => e \notin Queued
    BY <1>1, <1>6, Apart DEF StateTellsPlace, TypeOK
  <2>2. /\ state' = [state EXCEPT ![e] = "UNQUEUED"]
        /\ data' = [data EXCEPT ![e] = NoData]
    BY <2>1 DEF eventOS_cancel
  <2>3. /\ event_queue_active' \in Seq(Storage)
        /\ IsInjective(event_queue_active')
        /\ Queued' = Queued \ {e}
    <3>1. CASE e \in Queued
      <4>1. event_queue_active' = Unlink(event_queue_active, e)
        BY <2>1, <3>1 DEF eventOS_cancel
      <4> QED
        BY <4>1, UnlinkElements DEF TypeOK, NoDuplicates, Queued
    <3>2. CASE e \notin Queued
      <4>1. event_queue_active' = event_queue_active
        BY <2>1, <3>2 DEF eventOS_cancel
      <4> QED
        BY <3>2, <4>1 DEF TypeOK, NoDuplicates, Queued
    <3> QED
      BY <3>1, <3>2
  <2>4. /\ system_timer_list' \in Seq(Timers)
        /\ IsInjective(system_timer_list')
        /\ Pending' = Pending \ {e}
    <3>1. CASE e \in Pending
      <4>1. e \in Timers
        BY <3>1, RangeOfSeq DEF Pending, TypeOK
      <4>2. system_timer_list' = Unlink(system_timer_list, e)
        BY <2>1, <3>1, <4>1 DEF eventOS_cancel
      <4> QED
        BY <4>2, UnlinkElements DEF TypeOK, NoDuplicates, Pending
    <3>2. CASE e \notin Pending
      <4>1. state[e] # "UNQUEUED"
        BY <1>6, <2>1, <3>2
      <4>2. system_timer_list' = system_timer_list
        BY <4>1 DEF eventOS_cancel
      <4> QED
        BY <3>2, <4>2 DEF TypeOK, NoDuplicates, Pending
    <3> QED
      BY <3>1, <3>2
  <2>5. /\ system_timer_free' = IF e \in Timers THEN AddToStart(system_timer_free, e)
                                                ELSE system_timer_free
        /\ launch_time' = IF e \in Timers THEN [launch_time EXCEPT ![e] = 0]
                                          ELSE launch_time
    BY <2>1 DEF eventOS_cancel
  <2>6. /\ system_timer_free' \in Seq(Timers)
        /\ IsInjective(system_timer_free')
        /\ Range(system_timer_free)' =
             IF e \in Timers THEN Range(system_timer_free) \cup {e}
                             ELSE Range(system_timer_free)
    <3>1. e \notin Range(system_timer_free)
      BY <1>6, Apart
    <3>2. CASE e \in Timers
      <4>1. system_timer_free \in Seq(Timers) /\ IsInjective(system_timer_free)
        BY Zenon DEF TypeOK, NoDuplicates
      <4>2. system_timer_free' = AddToStart(system_timer_free, e)
        BY <2>5, <3>2, Zenon
      <4>3. LET r == AddToStart(system_timer_free, e)
           IN  r \in Seq(Timers) /\ Range(r) = Range(system_timer_free) \cup {e} /\ IsInjective(r)
        BY <3>1, <3>2, <4>1, AddToStartElements
      <4> QED
        BY <3>2, <4>2, <4>3, Zenon
    <3>3. CASE e \notin Timers
      BY <2>5, <3>3 DEF TypeOK, NoDuplicates
    <3> QED
      BY <3>2, <3>3
  <2>7. WithUser' = IF e \in Timers THEN WithUser ELSE WithUser \cup {e}
    BY <1>1, <1>2, <2>1, <2>3 DEF WithUser
  <2>8. Partition(Places)'
    <3> DEFINE i == IF e \in Queued THEN 1 ELSE 2
               j == IF e \in Timers THEN 4 ELSE 8
    <3>1. e \in Places[i]
      BY <1>6 DEF Places
    <3>2. Moved(e, i, j)
      <4>1. CASE e \in Queued
        <5>1. Pending \ {e} = Pending
          BY <2>1, <4>1
        <5>2. CASE e \in Timers
          <6>1. /\ Range(system_timer_free)' = Range(system_timer_free) \cup {e}
                /\ WithUser' = WithUser
            BY <2>6, <2>7, <5>2
          <6>2. Moved(e, 1, 4)
            BY <1>4, <2>3, <2>4, <5>1, <6>1, PlaceNumbers, Zenon DEF Moved, After
          <6> QED
            BY <4>1, <5>2, <6>2
        <5>3. CASE e \notin Timers
          <6>1. /\ Range(system_timer_free)' = Range(system_timer_free)
                /\ WithUser' = WithUser \cup {e}
            BY <2>6, <2>7, <5>3
          <6>2. Moved(e, 1, 8)
            BY <1>4, <2>3, <2>4, <5>1, <6>1, PlaceNumbers, Zenon DEF Moved, After
          <6> QED
            BY <4>1, <5>3, <6>2
        <5> QED
          BY <5>2, <5>3
      <4>2. CASE e \notin Queued
        <5>1. Queued \ {e} = Queued
          BY <4>2
        <5>2. CASE e \in Timers
          <6>1. /\ Range(system_timer_free)' = Range(system_timer_free) \cup {e}
                /\ WithUser' = WithUser
            BY <2>6, <2>7, <5>2
          <6>2. Moved(e, 2, 4)
            BY <1>4, <2>3, <2>4, <5>1, <6>1, PlaceNumbers, Zenon DEF Moved, After
          <6> QED
            BY <4>2, <5>2, <6>2
        <5>3. CASE e \notin Timers
          <6>1. /\ Range(system_timer_free)' = Range(system_timer_free)
                /\ WithUser' = WithUser \cup {e}
            BY <2>6, <2>7, <5>3
          <6>2. Moved(e, 2, 8)
            BY <1>4, <2>3, <2>4, <5>1, <6>1, PlaceNumbers, Zenon DEF Moved, After
          <6> QED
            BY <4>2, <5>3, <6>2
        <5> QED
          BY <5>2, <5>3
      <4> QED
        BY <4>1, <4>2
    <3>3. i \in 1 .. 8 /\ j \in 1 .. 8 /\ i # j
      OBVIOUS
    <3> HIDE DEF i, j
    <3> QED
      BY <3>1, <3>2, <3>3, MoveKeepsPlaces, PlaceNumbers, Zenon
  <2>9. TypeOK'
    <3>1. /\ state' \in [Storage -> {"UNQUEUED", "QUEUED", "RUNNING"}]
          /\ data' \in [Storage -> Data \cup {NoData}]
      BY <2>2 DEF TypeOK
    <3>2. launch_time' \in [Timers -> Ticks]
      BY <2>5, TickAssumption DEF TypeOK, Ticks
    <3>3. not_found' \in (Handlers \X Ids) \cup {<<>>}
      OBVIOUS
    <3> QED
      BY <1>2, <1>3, <2>3, <2>4, <2>6, <3>1, <3>2, <3>3 DEF TypeOK
  <2>10. NoDuplicates'
    BY <1>2, <2>3, <2>4, <2>6 DEF NoDuplicates
  <2>11. StateTellsPlace' /\ DispatcherHolds'
    <3>1. \A x \in Storage : state'[x] = IF x = e THEN "UNQUEUED" ELSE state[x]
      BY <2>2 DEF TypeOK
    <3> QED
      BY <1>2, <2>1, <2>3, <3>1 DEF StateTellsPlace, DispatcherHolds
  <2> QED
    BY <2>8, <2>9, <2>10, <2>11
<1> QED
  BY <1>5, <1>6

LEMMA EventReadIsGood ==
  ASSUME IInv, EventRead
  PROVE  IInv'
<1> USE DEF IInv
<1> DEFINE e == Head(event_queue_active)
<1>1. /\ event_queue_active # <<>> /\ dispatch = "top" /\ cur_event' = e
      /\ event_queue_active' = Tail(event_queue_active)
      /\ state' = [state EXCEPT ![e] = "RUNNING"]
      /\ dispatch' = "running" /\ not_found' = <<>>
      /\ UNCHANGED <<tasklets, free_event_entry, data, heap, system_timer_free,
                     system_timer_list, launch_time, period, timer_sys_ticks,
                     ticking, hand>>
  BY DEF EventRead, timerVars
<1>2. /\ e \in Storage /\ e \in Queued /\ event_queue_active' \in Seq(Storage)
      /\ IsInjective(event_queue_active') /\ Queued' = Queued \ {e}
  BY <1>1, TailElements DEF TypeOK, NoDuplicates, Queued
<1> HIDE DEF e
<1>3. cur_event = NoEvent /\ e # NoEvent
  BY <1>1, <1>2, StorageAssumption DEF DispatcherHolds
<1>4. UNCHANGED <<Pending, Range(free_event_entry), Range(system_timer_free),
                  InHand, Unallocated>>
  BY <1>1 DEF Pending, InHand, Unallocated
<1>5. UNCHANGED WithUser
  BY <1>1, <1>2, <1>3, StorageAssumption DEF WithUser, Storage
<1>6. {cur_event'} \ {NoEvent} = ({cur_event} \ {NoEvent}) \cup {e}
  BY <1>1, <1>3
<1>7. Partition(Places)'
  <2>1. e \in Places[1]
    BY <1>2 DEF Places
  <2>2. Moved(e, 1, 6)
    BY <1>2, <1>4, <1>5, <1>6, PlaceNumbers, Zenon DEF Moved, After
  <2> QED
    BY <2>1, <2>2, MoveKeepsPlaces, PlaceNumbers, Zenon
<1>8. \A x \in Storage : state'[x] = IF x = e THEN "RUNNING" ELSE state[x]
  BY <1>1 DEF TypeOK
<1>9. TypeOK'
  <2>1. state' \in [Storage -> {"UNQUEUED", "QUEUED", "RUNNING"}]
    BY <1>1 DEF TypeOK
  <2> QED
    BY <1>1, <1>2, <2>1 DEF TypeOK
<1>10. NoDuplicates'
  BY <1>1, <1>2 DEF NoDuplicates
<1>11. StateTellsPlace' /\ DispatcherHolds'
  BY <1>1, <1>2, <1>3, <1>8 DEF StateTellsPlace, DispatcherHolds
<1> QED
  BY <1>7, <1>9, <1>10, <1>11

LEMMA HandlerReturnIsGood ==
  ASSUME IInv, HandlerReturn
  PROVE  IInv'
<1> USE DEF IInv
<1>1. /\ dispatch = "running" /\ dispatch' = "freeing"
      /\ state' = [state EXCEPT ![cur_event] = "UNQUEUED"]
      /\ not_found' = <<>>
      /\ UNCHANGED <<tasklets, event_queue_active, free_event_entry, data, heap,
                     system_timer_free, system_timer_list, launch_time, period,
                     timer_sys_ticks, ticking, cur_event, hand>>
  BY DEF HandlerReturn, timerVars
<1>2. cur_event \in Storage
  BY <1>1 DEF DispatcherHolds, TypeOK
<1>3. UNCHANGED Places
  BY <1>1 DEF Places, Queued, Pending, InHand, Unallocated, WithUser
<1>4. Partition(Places)'
  BY <1>3 DEF Partition
<1>5. TypeOK' /\ NoDuplicates'
  <2>1. state' \in [Storage -> {"UNQUEUED", "QUEUED", "RUNNING"}]
    BY <1>1 DEF TypeOK
  <2> QED
    BY <1>1, <2>1 DEF TypeOK, NoDuplicates
<1>6. \A x \in Storage : state'[x] = IF x = cur_event THEN "UNQUEUED" ELSE state[x]
  BY <1>1 DEF TypeOK
<1>7. StateTellsPlace' /\ DispatcherHolds'
  <2>1. cur_event \notin Queued
    BY Apart, Zenon
  <2>2. UNCHANGED Queued
    BY <1>1 DEF Queued
  <2>3. ASSUME NEW x \in Storage
        PROVE  /\ state'[x] = "QUEUED" <=> x \in Queued'
               /\ state'[x] # "RUNNING"
    <3>1. CASE x = cur_event
      BY <1>6, <2>1, <2>2, <3>1
    <3>2. CASE x # cur_event
      BY <1>6, <2>2, <3>2 DEF StateTellsPlace
    <3> QED
      BY <3>1, <3>2
  <2>4. dispatch' # "running"
    BY <1>1
  <2> QED
    BY <1>1, <2>3, <2>4 DEF StateTellsPlace, DispatcherHolds
<1> QED
  BY <1>4, <1>5, <1>7

LEMMA TickStepsAreGood ==
  ASSUME IInv, (\E n \in TickSteps : TickUpdate(n)) \/ TickMove \/ TickDone
  PROVE  IInv'
<1> USE DEF IInv
<1>1. CASE (\E n \in TickSteps : TickUpdate(n)) \/ TickDone
  <2>1. UNCHANGED <<tasklets, event_queue_active, free_event_entry, data, state,
                    heap, system_timer_free, system_timer_list, launch_time,
                    period, cur_event, dispatch, hand>>
    BY <1>1 DEF TickUpdate, TickDone, eventVars, timerVars
  <2>2. UNCHANGED Places
    BY <2>1 DEF Places, Queued, Pending, InHand, Unallocated, WithUser
  <2>3. timer_sys_ticks' \in Ticks /\ ticking' \in BOOLEAN
    <3>1. CASE TickDone
      BY <3>1 DEF TickDone, TypeOK
    <3>2. ASSUME NEW n \in TickSteps, TickUpdate(n)
          PROVE  timer_sys_ticks' \in Ticks /\ ticking' \in BOOLEAN
      <4>1. /\ timer_sys_ticks' = (timer_sys_ticks + n) % TickMod
            /\ ticking' = TRUE /\ timer_sys_ticks \in Ticks
        BY <3>2, Zenon DEF TickUpdate, TypeOK
      <4>2. n \in Int
        BY ModuloIsTick
      <4> QED
        BY <4>1, <4>2, ModuloIsTick, Zenon
    <3> QED
      BY <1>1, <3>1, <3>2
  <2>4. not_found' \in (Handlers \X Ids) \cup {<<>>}
    BY <1>1 DEF TickUpdate, TickDone, TypeOK
  <2>5. TypeOK' /\ NoDuplicates'
    BY <2>1, <2>3, <2>4 DEF TypeOK, NoDuplicates
  <2>6. StateTellsPlace' /\ DispatcherHolds'
    BY <2>1 DEF StateTellsPlace, DispatcherHolds, Queued
  <2>7. Partition(Places)'
    BY <2>2 DEF Partition
  <2> QED
    BY <2>5, <2>6, <2>7
<1>2. CASE TickMove
  <2> DEFINE e == Head(system_timer_list)
  <2>1. /\ system_timer_list # <<>>
        /\ system_timer_list' = Tail(system_timer_list)
        /\ event_queue_active' = event_core_write(event_queue_active, data, e)
        /\ state' = [state EXCEPT ![e] = "QUEUED"]
        /\ UNCHANGED <<tasklets, free_event_entry, data, heap,
                       system_timer_free, launch_time, period, timer_sys_ticks,
                       ticking, cur_event, dispatch, hand, not_found>>
    BY <1>2 DEF TickMove, HeadIsDue
  <2>2. /\ e \in Timers /\ e \in Pending /\ system_timer_list' \in Seq(Timers)
        /\ IsInjective(system_timer_list') /\ Pending' = Pending \ {e}
    BY <2>1, TailElements DEF TypeOK, NoDuplicates, Pending
  <2> HIDE DEF e
  <2>3. e \in Storage /\ e \notin Queued /\ e # cur_event /\ e \notin UserEvents
    BY <2>2, Apart, StorageAssumption DEF Storage
  <2>4. /\ event_queue_active' \in Seq(Storage)
        /\ IsInjective(event_queue_active')
        /\ Queued' = Queued \cup {e}
        /\ state' \in [Storage -> {"UNQUEUED", "QUEUED", "RUNNING"}]
        /\ \A x \in Storage : state'[x] = IF x = e THEN "QUEUED" ELSE state[x]
    BY <2>1, <2>3, QueueingElements
  <2>5. /\ UNCHANGED <<Range(free_event_entry), Range(system_timer_free), InHand,
                       Unallocated, {cur_event} \ {NoEvent}>>
        /\ Queued' = Queued \cup {e} /\ Pending' = Pending \ {e}
        /\ UNCHANGED WithUser
    BY <2>1, <2>2, <2>3, <2>4 DEF InHand, Unallocated, WithUser
  <2>6. Partition(Places)'
    <3>1. e \in Places[2]
      BY <2>2 DEF Places
    <3>2. Moved(e, 2, 1)
      BY <2>5, PlaceNumbers, Zenon DEF Moved, After
    <3> QED
      BY <3>1, <3>2, MoveKeepsPlaces, PlaceNumbers, Zenon
  <2>7. TypeOK' /\ NoDuplicates'
    BY <2>1, <2>2, <2>4 DEF TypeOK, NoDuplicates
  <2>8. StateTellsPlace' /\ DispatcherHolds'
    BY <2>1, <2>3, <2>4 DEF StateTellsPlace, DispatcherHolds
  <2> QED
    BY <2>6, <2>7, <2>8
<1> QED
  BY <1>1, <1>2

\* The second half of event_core_free_push: the storage leaves the
\* dispatcher for the pool, the heap, the free timers, its user or, if it is
\* a periodic timer, for one of the two queues.
LEMMA FreePushIsGood ==
  ASSUME IInv, FreePush
  PROVE  IInv'
<1> USE DEF IInv
<1> DEFINE e == cur_event
<1>1. /\ dispatch = "freeing" /\ dispatch' = "top" /\ cur_event' = NoEvent
      /\ not_found' = <<>>
      /\ UNCHANGED <<tasklets, timer_sys_ticks, ticking, hand>>
  BY DEF FreePush
<1>2. e \in Storage /\ e # NoEvent /\ state[e] = "UNQUEUED"
  BY <1>1, Apart DEF DispatcherHolds, StateTellsPlace, TypeOK
<1>3. /\ e \notin Queued /\ e \notin Pending
      /\ e \notin Range(free_event_entry) /\ e \notin Range(system_timer_free)
  BY Apart
<1>4. e \in Places[6]
  BY <1>2 DEF Places
<1>5. UNCHANGED InHand /\ {cur_event'} \ {NoEvent} = ({cur_event} \ {NoEvent}) \ {e}
  BY <1>1, <1>2 DEF InHand
<1>6. DispatcherHolds'
  BY <1>1 DEF DispatcherHolds
<1>7. e \in UserEvents <=> e \notin Events \cup Timers
  BY <1>2, StorageAssumption DEF Storage
<1>8. ASSUME UNCHANGED <<event_queue_active, state>>
      PROVE  /\ StateTellsPlace' /\ UNCHANGED Queued
             /\ WithUser' = IF e \in UserEvents THEN WithUser \cup {e} ELSE WithUser
  BY <1>1, <1>2, <1>3, <1>8, StorageAssumption
  DEF StateTellsPlace, Queued, WithUser, Storage
<1>9. ASSUME UNCHANGED timerVars
      PROVE  UNCHANGED Pending /\ UNCHANGED Range(system_timer_free)
  BY <1>9 DEF timerVars, Pending
<1>10. CASE e \in UserEvents
  <2>1. UNCHANGED <<event_queue_active, free_event_entry, data, state, heap,
                    timerVars>>
    BY <1>7, <1>10 DEF FreePush
  <2>2. UNCHANGED <<Range(free_event_entry), Unallocated>>
    BY <2>1 DEF Unallocated
  <2>3. UNCHANGED Queued /\ WithUser' = WithUser \cup {e} /\ StateTellsPlace'
    BY <1>8, <1>10, <2>1
  <2>4. UNCHANGED Pending /\ UNCHANGED Range(system_timer_free)
    BY <1>9, <2>1
  <2>5. Moved(e, 6, 8)
    BY <1>5, <2>2, <2>3, <2>4, PlaceNumbers, Zenon DEF Moved, After
  <2>6. Partition(Places)'
    BY <1>4, <2>5, MoveKeepsPlaces, PlaceNumbers, Zenon
  <2>7. TypeOK' /\ NoDuplicates'
    BY <1>1, <2>1 DEF TypeOK, NoDuplicates, timerVars
  <2> QED
    BY <1>6, <2>3, <2>6, <2>7
<1>11. CASE e \in Events
  <2>1. FreePushEvent(e)
    BY <1>7, <1>11, StorageAssumption DEF FreePush
  <2>2. /\ data' = [data EXCEPT ![e] = NoData]
        /\ UNCHANGED <<event_queue_active, state, timerVars>>
    BY <2>1 DEF FreePushEvent
  <2>3. /\ UNCHANGED Queued /\ UNCHANGED WithUser /\ StateTellsPlace'
        /\ UNCHANGED Pending /\ UNCHANGED Range(system_timer_free)
    BY <1>7, <1>8, <1>9, <1>11, <2>2
  <2>4. data' \in [Storage -> Data \cup {NoData}]
    BY <2>2 DEF TypeOK
  <2>5. CASE /\ e \in PoolEvents /\ free_event_entry' = AddToStart(free_event_entry, e)
             /\ UNCHANGED heap
    <3>1. /\ free_event_entry' \in Seq(PoolEvents)
          /\ Range(free_event_entry') = Range(free_event_entry) \cup {e}
          /\ IsInjective(free_event_entry')
      <4>1. free_event_entry \in Seq(PoolEvents) /\ IsInjective(free_event_entry)
        BY Zenon DEF TypeOK, NoDuplicates
      <4>2. e \in PoolEvents
        BY <2>5
      <4>3. LET r == AddToStart(free_event_entry, e)
           IN  r \in Seq(PoolEvents) /\ Range(r) = Range(free_event_entry) \cup {e} /\ IsInjective(r)
        BY <1>3, <4>1, <4>2, AddToStartElements
      <4> QED
        BY <2>5, <4>3, Zenon
    <3>2. UNCHANGED Unallocated
      BY <2>5 DEF Unallocated
    <3>3. Moved(e, 6, 3)
      BY <1>5, <2>3, <3>1, <3>2, PlaceNumbers, Zenon DEF Moved, After
    <3>4. Partition(Places)'
      BY <1>4, <3>3, MoveKeepsPlaces, PlaceNumbers, Zenon
    <3>5. TypeOK' /\ NoDuplicates'
      BY <1>1, <2>2, <2>4, <2>5, <3>1 DEF TypeOK, NoDuplicates, timerVars
    <3> QED
      BY <1>6, <2>3, <3>4, <3>5
  <2>6. CASE e \in HeapEvents /\ heap' = heap \ {e} /\ UNCHANGED free_event_entry
    <3>1. Unallocated' = Unallocated \cup {e}
      BY <2>6 DEF Unallocated
    <3>2. UNCHANGED Range(free_event_entry)
      BY <2>6
    <3>3. Moved(e, 6, 7)
      BY <1>5, <2>3, <3>1, <3>2, PlaceNumbers, Zenon DEF Moved, After
    <3>4. Partition(Places)'
      BY <1>4, <3>3, MoveKeepsPlaces, PlaceNumbers, Zenon
    <3>5. TypeOK' /\ NoDuplicates'
      BY <1>1, <2>2, <2>4, <2>6 DEF TypeOK, NoDuplicates, timerVars
    <3> QED
      BY <1>6, <2>3, <3>4, <3>5
  <2> QED
    BY <2>1, <2>5, <2>6 DEF FreePushEvent
<1>12. CASE e \in Timers
  <2>1. timer_sys_event_free(e)
    BY <1>7, <1>12, StorageAssumption DEF FreePush
  <2>2. UNCHANGED <<free_event_entry, heap, period>>
    BY <2>1 DEF timer_sys_event_free
  <2>3. UNCHANGED <<Range(free_event_entry), Unallocated>>
    BY <2>2 DEF Unallocated
  <2>4. launch_time' \in [Timers -> Ticks]
    <3>1. /\ launch_time \in [Timers -> Ticks] /\ period[e] \in Ticks
          /\ launch_time[e] \in Ticks
      BY <1>12 DEF TypeOK
    <3>2. 0 \in Ticks /\ next_launch(e) \in Ticks
      BY <3>1, TickAssumption DEF Ticks, next_launch
    <3> QED
      BY <2>1, <3>1, <3>2 DEF timer_sys_event_free
  <2>5. CASE period[e] = 0
    <3>1. /\ system_timer_free' = AddToStart(system_timer_free, e)
          /\ data' = [data EXCEPT ![e] = NoData]
          /\ UNCHANGED <<event_queue_active, state, system_timer_list>>
      BY <2>1, <2>5 DEF timer_sys_event_free
    <3>2. /\ system_timer_free' \in Seq(Timers)
          /\ Range(system_timer_free') = Range(system_timer_free) \cup {e}
          /\ IsInjective(system_timer_free')
      <4>1. system_timer_free \in Seq(Timers) /\ IsInjective(system_timer_free)
        BY Zenon DEF TypeOK, NoDuplicates
      <4>2. LET r == AddToStart(system_timer_free, e)
           IN  r \in Seq(Timers) /\ Range(r) = Range(system_timer_free) \cup {e} /\ IsInjective(r)
        BY <1>3, <1>12, <4>1, AddToStartElements
      <4> QED
        BY <3>1, <4>2, Zenon
    <3>3. UNCHANGED Queued /\ UNCHANGED WithUser /\ StateTellsPlace' /\ UNCHANGED Pending
      BY <1>7, <1>8, <1>12, <3>1 DEF Pending
    <3>4. Moved(e, 6, 4)
      BY <1>5, <2>3, <3>2, <3>3, PlaceNumbers, Zenon DEF Moved, After
    <3>5. Partition(Places)'
      BY <1>4, <3>4, MoveKeepsPlaces, PlaceNumbers, Zenon
    <3>6. data' \in [Storage -> Data \cup {NoData}]
      BY <3>1 DEF TypeOK
    <3>7. TypeOK' /\ NoDuplicates'
      BY <1>1, <2>2, <2>4, <3>1, <3>2, <3>6 DEF TypeOK, NoDuplicates
    <3> QED
      BY <1>6, <3>3, <3>5, <3>7
  <2>6. CASE period[e] # 0 /\ TICKS_BEFORE_OR_AT(launch_time'[e], timer_sys_ticks)
    <3>1. /\ event_queue_active' = event_core_write(event_queue_active, data, e)
          /\ state' = [state EXCEPT ![e] = "QUEUED"]
          /\ UNCHANGED <<system_timer_list, system_timer_free, data>>
      BY <2>1, <2>6 DEF timer_sys_event_free
    <3>2. /\ event_queue_active' \in Seq(Storage)
          /\ IsInjective(event_queue_active')
          /\ Queued' = Queued \cup {e}
          /\ state' \in [Storage -> {"UNQUEUED", "QUEUED", "RUNNING"}]
          /\ \A x \in Storage : state'[x] = IF x = e THEN "QUEUED" ELSE state[x]
      BY <1>2, <1>3, <3>1, QueueingElements
    <3>3. /\ Queued' = Queued \cup {e} /\ UNCHANGED WithUser
          /\ UNCHANGED Pending /\ UNCHANGED Range(system_timer_free)
      <4>1. UNCHANGED Pending /\ UNCHANGED Range(system_timer_free)
        BY <3>1 DEF Pending
      <4>2. e \notin UserEvents /\ NoEvent \notin UserEvents
        BY <1>7, <1>12, StorageAssumption DEF Storage
      <4>3. WithUser' = UserEvents \ Queued'
        BY <1>1, <4>2 DEF WithUser
      <4>4. UNCHANGED WithUser
        BY <3>2, <4>2, <4>3 DEF WithUser
      <4> QED
        BY <3>2, <4>1, <4>4
    <3>4. Moved(e, 6, 1)
      BY <1>5, <2>3, <3>3, PlaceNumbers, Zenon DEF Moved, After
    <3>5. Partition(Places)'
      BY <1>4, <3>4, MoveKeepsPlaces, PlaceNumbers, Zenon
    <3>6. TypeOK' /\ NoDuplicates'
      BY <1>1, <2>2, <2>4, <3>1, <3>2 DEF TypeOK, NoDuplicates
    <3>7. StateTellsPlace'
      BY <1>1, <1>2, <3>2, StorageAssumption DEF StateTellsPlace
    <3> QED
      BY <1>6, <3>5, <3>6, <3>7
  <2>7. CASE period[e] # 0 /\ ~TICKS_BEFORE_OR_AT(launch_time'[e], timer_sys_ticks)
    <3>1. /\ system_timer_list' = timer_sys_add(system_timer_list, launch_time', e)
          /\ UNCHANGED <<event_queue_active, state, system_timer_free, data>>
      BY <2>1, <2>7 DEF timer_sys_event_free
    <3>2. /\ system_timer_list' \in Seq(Timers)
          /\ IsInjective(system_timer_list')
          /\ Pending' = Pending \cup {e}
      BY <1>3, <1>12, <3>1, PendingElements
    <3>3. /\ UNCHANGED Queued /\ UNCHANGED WithUser /\ StateTellsPlace'
          /\ UNCHANGED Range(system_timer_free)
      BY <1>7, <1>8, <1>12, <3>1
    <3>4. Moved(e, 6, 2)
      BY <1>5, <2>3, <3>2, <3>3, PlaceNumbers, Zenon DEF Moved, After
    <3>5. Partition(Places)'
      BY <1>4, <3>4, MoveKeepsPlaces, PlaceNumbers, Zenon
    <3>6. TypeOK' /\ NoDuplicates'
      BY <1>1, <2>2, <2>4, <3>1, <3>2 DEF TypeOK, NoDuplicates
    <3> QED
      BY <1>6, <3>3, <3>5, <3>6
  <2> QED
    BY <2>5, <2>6, <2>7
<1> QED
  BY <1>2, <1>10, <1>11, <1>12 DEF Storage

LEMMA TimerCancelIsGood ==
  ASSUME IInv, NEW t \in Threads, NEW h \in Handlers, NEW i \in Ids,
         TimerCancel(t, h, i)
  PROVE  IInv'
<1> DEFINE I == PositionsFor(system_timer_list, h, i)
           J == PositionsFor(event_queue_active, h, i)
           pending == First(I)
           queued == First(J)
<1>1. /\ Len(system_timer_list) \in Nat /\ Len(event_queue_active) \in Nat
      /\ DOMAIN system_timer_list = 1 .. Len(system_timer_list)
      /\ DOMAIN event_queue_active = 1 .. Len(event_queue_active)
  BY LenProperties DEF IInv, TypeOK
<1>2. \/ /\ pending # 0 /\ eventOS_cancel(system_timer_list[pending])
         /\ not_found' = <<>>
      \/ /\ queued # 0 /\ event_queue_active[queued] \in Timers
         /\ eventOS_cancel(event_queue_active[queued])
         /\ not_found' = <<>>
      \/ /\ not_found' = <<h, i>>
         /\ UNCHANGED <<eventVars, heap, timerVars, timer_sys_ticks, ticking,
                        cur_event, dispatch, hand>>
  BY DEF TimerCancel
<1>3. /\ pending # 0 => pending \in 1 .. Len(system_timer_list)
      /\ queued # 0 => queued \in 1 .. Len(event_queue_active)
  <2>1. /\ I \in SUBSET (1 .. Len(system_timer_list))
        /\ J \in SUBSET (1 .. Len(event_queue_active))
    BY <1>1 DEF PositionsFor
  <2> HIDE DEF I, J
  <2> QED
    BY <1>1, <2>1, FirstOfPositions
<1> HIDE DEF pending, queued
<1>4. CASE /\ pending # 0 /\ eventOS_cancel(system_timer_list[pending])
           /\ not_found' = <<>>
  <2>1. system_timer_list[pending] \in Pending
    BY <1>1, <1>3, <1>4 DEF Pending, Range
  <2>2. system_timer_list[pending] \in Timers
    BY <2>1, RangeOfSeq DEF Pending, IInv, TypeOK
  <2> QED
    BY <1>4, <2>1, <2>2, CancelIsGood
<1>5. CASE /\ queued # 0 /\ event_queue_active[queued] \in Timers
           /\ eventOS_cancel(event_queue_active[queued])
           /\ not_found' = <<>>
  <2>1. event_queue_active[queued] \in Queued
    BY <1>1, <1>3, <1>5 DEF Queued, Range
  <2> QED
    BY <1>5, <2>1, CancelIsGood
<1>6. CASE /\ not_found' = <<h, i>>
           /\ UNCHANGED <<eventVars, heap, timerVars, timer_sys_ticks, ticking,
                          cur_event, dispatch, hand>>
  <2>1. UNCHANGED <<tasklets, event_queue_active, free_event_entry, data, state,
                    heap, system_timer_free, system_timer_list, launch_time,
                    period, timer_sys_ticks, ticking, cur_event, dispatch, hand>>
    BY <1>6 DEF eventVars, timerVars
  <2>2. UNCHANGED Places
    BY <2>1 DEF Places, Queued, Pending, InHand, Unallocated, WithUser
  <2>3. not_found' \in (Handlers \X Ids) \cup {<<>>}
    BY <1>6
  <2>4. TypeOK' /\ NoDuplicates'
    BY <2>1, <2>3 DEF IInv, TypeOK, NoDuplicates
  <2>5. StateTellsPlace' /\ DispatcherHolds'
    BY <2>1 DEF IInv, StateTellsPlace, DispatcherHolds, Queued
  <2>6. Partition(Places)'
    BY <2>2 DEF IInv, Partition
  <2> QED
    BY <2>4, <2>5, <2>6 DEF IInv
<1> QED
  BY <1>2, <1>4, <1>5, <1>6

\* Every call keeps the invariant.
LEMMA CallIsGood ==
  ASSUME IInv, CallersAreCareful, NEW t \in Threads, Call(t)
  PROVE  IInv'
<1>1. UsedData \subseteq Data /\ LOW \in HIGH .. LOW /\ MED \in HIGH .. LOW
  <2>1. LOW \in HIGH .. LOW /\ MED \in HIGH .. LOW
    BY DEF LOW, MED, HIGH
  <2>2. Priorities \subseteq HIGH .. LOW
    BY PriorityAssumption
  <2>3. \A d \in UsedData : d \in Data
    BY <2>2 DEF UsedData, Data
  <2> QED
    BY <2>1, <2>3
<1>2. ASSUME NEW h \in Handlers, HandlerCreate(t, h)
      PROVE  IInv'
  <2>1. PICK i \in Ids :
          event_core_get(t, [receiver |-> h, priority |-> LOW, id |-> i])
    BY <1>2 DEF HandlerCreate
  <2>2. [receiver |-> h, priority |-> LOW, id |-> i] \in Data
    BY <1>1 DEF Data
  <2>3. CanCall(t) /\ tasklets' \subseteq Handlers
    BY <1>2 DEF HandlerCreate, IInv, TypeOK
  <2> QED
    BY <2>1, <2>2, <2>3, EventCoreGetIsGood
<1>3. ASSUME NEW d \in UsedData, EventSend(t, d)
      PROVE  IInv'
  <2>1. CanCall(t) /\ tasklets' \subseteq Handlers /\ event_core_get(t, d) /\ d \in Data
    BY <1>1, <1>3 DEF EventSend, IInv, TypeOK
  <2> QED
    BY <2>1, EventCoreGetIsGood
<1>4. ASSUME NEW d \in UsedData, NEW e \in UserEvents, SendUserAllocated(t, e, d)
      PROVE  IInv'
  BY <1>1, <1>4, SendUserAllocatedIsGood
<1>5. 0 \in Ticks
  BY TickAssumption DEF Ticks
<1>6. ASSUME NEW d \in UsedData, NEW at \in Ticks, RequestAt(t, d, at)
      PROVE  IInv'
  BY <1>1, <1>5, <1>6, TimerRequestIsGood DEF RequestAt
<1>7. \A n \in Int : (timer_sys_ticks + n) % TickMod \in Ticks
  <2>1. timer_sys_ticks \in Ticks
    BY DEF IInv, TypeOK
  <2> QED
    BY <2>1, ModuloIsTick, Zenon
<1>8. ASSUME NEW d \in UsedData, NEW p \in 1 .. Horizon, RequestEvery(t, d, p)
      PROVE  IInv'
  <2>1. p \in Ticks /\ p \in Int
    BY TickAssumption DEF Ticks, Horizon
  <2> QED
    BY <1>1, <1>7, <1>8, <2>1, TimerRequestIsGood DEF RequestEvery
<1>9. ASSUME NEW h \in Handlers, NEW i \in Ids, NEW time \in LegacyTimes,
             RequestLegacy(t, h, i, time)
      PROVE  IInv'
  <2>1. LegacyTicks(time) \in Int
    BY TickAssumption, LegacyAssumption DEF LegacyTicks
  <2>2. [receiver |-> h, priority |-> MED, id |-> i] \in Data
    BY <1>1 DEF Data
  <2> HIDE DEF LegacyTicks
  <2> QED
    BY <1>5, <1>7, <1>9, <2>1, <2>2, TimerRequestIsGood DEF RequestLegacy
<1>10. ASSUME NEW e \in Storage, Cancel(t, e)
       PROVE  IInv'
  <2>1. t = Loop /\ dispatch = "running"
    BY <1>10 DEF Cancel, CanCall, CallersAreCareful
  <2>2. /\ e \in Timers \cup UserEvents /\ eventOS_cancel(e) /\ not_found' = <<>>
        /\ e \in Queued \cup Pending \/ (e = cur_event /\ dispatch = "running")
    BY <1>10, <2>1 DEF Cancel, ValidPointer
  <2> QED
    BY <2>2, CancelIsGood
<1>11. ASSUME NEW h \in Handlers, NEW i \in Ids, TimerCancel(t, h, i)
       PROVE  IInv'
  BY <1>11, TimerCancelIsGood
<1> QED
  BY <1>2, <1>3, <1>4, <1>6, <1>8, <1>9, <1>10, <1>11 DEF Call

\* The inductive invariant holds in every reachable state.
THEOREM Invariance ==
  ASSUME CallersAreCareful
  PROVE  Spec => []IInv
<1>1. Init => IInv
  BY InitIsGood
<1>2. IInv /\ [Next]_vars => IInv'
  <2> SUFFICES ASSUME IInv, [Next]_vars PROVE IInv'
    OBVIOUS
  <2>1. ASSUME NEW t \in Threads, Call(t) \/ EventWrite(t)
        PROVE  IInv'
    BY <2>1, CallIsGood, EventWriteIsGood
  <2>2. CASE EventRead \/ HandlerReturn \/ FreePush
    BY <2>2, EventReadIsGood, HandlerReturnIsGood, FreePushIsGood
  <2>3. CASE (\E n \in TickSteps : TickUpdate(n)) \/ TickMove \/ TickDone
    BY <2>3, TickStepsAreGood
  <2>4. CASE UNCHANGED vars
    <3>1. UNCHANGED <<tasklets, event_queue_active, free_event_entry, data,
                      state, heap, system_timer_free, system_timer_list,
                      launch_time, period, timer_sys_ticks, ticking, cur_event,
                      dispatch, hand, not_found>>
      BY <2>4 DEF vars, eventVars, timerVars
    <3>2. UNCHANGED Places
      BY <3>1 DEF Places, Queued, Pending, InHand, Unallocated, WithUser
    <3>3. TypeOK' /\ NoDuplicates'
      BY <3>1 DEF IInv, TypeOK, NoDuplicates
    <3>4. StateTellsPlace' /\ DispatcherHolds'
      BY <3>1 DEF IInv, StateTellsPlace, DispatcherHolds, Queued
    <3>5. Partition(Places)'
      BY <3>2 DEF IInv, Partition
    <3> QED
      BY <3>3, <3>4, <3>5 DEF IInv
  <2> QED
    BY <2>1, <2>2, <2>3, <2>4 DEF Next
<1> QED
  BY <1>1, <1>2, PTL DEF Spec

\* Every field keeps its type: in particular a launch time stays a 32 bit
\* value and the pool's free list holds storages of the pool only
\* (event_core_free_push, timer_sys_event_free).
THEOREM TypesAreKept ==
  ASSUME CallersAreCareful
  PROVE  Spec => []TypeOK
<1>1. IInv => TypeOK
  BY DEF IInv
<1> QED
  BY <1>1, Invariance, PTL

\* No storage of event.c or system_timer.c is ever lost, freed twice or held
\* by two owners, for any number of threads, storages and ticks, provided
\* that pointers are cancelled on the loop thread and no handler re-sends
\* its own storage.
THEOREM StorageHasOneOwner ==
  ASSUME CallersAreCareful
  PROVE  Spec => []OneOwner
<1>1. IInv => OneOwner
  BY OneOwnerIsPartition DEF IInv
<1> QED
  BY <1>1, Invariance, PTL

\* Under the same condition the state field, by which eventOS_cancel decides
\* what to unlink, is right in every state.
THEOREM StateFieldIsRight ==
  ASSUME CallersAreCareful
  PROVE  Spec => []StateTellsPlace
<1>1. IInv => StateTellsPlace
  BY DEF IInv
<1> QED
  BY <1>1, Invariance, PTL

=============================================================================
