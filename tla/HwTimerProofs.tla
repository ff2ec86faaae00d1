--------------------------- MODULE HwTimerProofs ---------------------------
(***************************************************************************)
(* Every timer of ns_timer.c is on time, for any number of timers, any     *)
(* timeouts and any width of the slot counts, when the users keep the      *)
(* rules of TimerRules and never ask for a timeout of 0.                   *)
(*                                                                         *)
(* OnTime is not inductive.  A timer on hold must have slots left after    *)
(* the current timeout (else StartNext would start the hardware for 0      *)
(* slots), the hardware must run while an interrupt waits, and a timer     *)
(* whose handler is to be called must be behind the one being called, or   *)
(* InterruptReturn would forget it.                                        *)
(***************************************************************************)
EXTENDS HwTimer, ListLemmas

\* What the theorem asks of the users.
UsersAreCareful == TimerCareless = {} /\ 0 \notin Slots

States == {"STOP", "ACTIVE", "HOLD", "RUN_INTERRUPT"}
Counts == 0 .. SlotMod - 1

HwTypes ==
  /\ ns_timer_list \in Seq(TimerIds) /\ IsInjective(ns_timer_list)
  /\ timer_state \in [TimerIds -> States]
  /\ remaining_slots \in [TimerIds -> Counts] /\ due \in [TimerIds -> Counts]
  /\ slots_left \in Counts
  /\ ns_timer_state \in BOOLEAN /\ irq \in BOOLEAN
  /\ handler \in TimerIds \cup {Thread, Entered}

\* An interrupt comes from a timeout that ended, and has not been handled.
Hardware ==
  /\ slots_left > 0 => ns_timer_state
  /\ irq => ns_timer_state /\ slots_left = 0

\* The handler of t is still to be called in this interrupt.
Awaited(t) == handler = Entered \/ Before(ns_timer_list, handler, t)

\* The slots counted for t are those it has to wait.
Counted(t) ==
  /\ timer_state[t] = "ACTIVE" => ns_timer_state /\ slots_left = due[t]
  /\ timer_state[t] = "HOLD" => /\ ns_timer_state /\ remaining_slots[t] > 0
                                /\ slots_left + remaining_slots[t] = due[t]
  /\ timer_state[t] = "RUN_INTERRUPT" => due[t] = 0 /\ Awaited(t)

HwIInv == HwTypes /\ Hardware /\ \A t \in Registered : Counted(t)

-----------------------------------------------------------------------------
LEMMA RegisteredAreTimers ==
  ASSUME HwTypes
  PROVE  Registered \subseteq TimerIds
<1>1. ns_timer_list \in [1 .. Len(ns_timer_list) -> TimerIds]
  BY LenProperties DEF HwTypes
<1> QED
  BY <1>1 DEF Registered, Range

LEMMA SlotModIsPositive == SlotMod \in Nat \ {0}
BY HwTimerAssumption

\* Adding or taking slots within the width of the counts is exact.
LEMMA CountsAreExact ==
  ASSUME NEW n \in Counts
  PROVE  n % SlotMod = n
BY HwTimerAssumption DEF Counts

\* What starting the hardware for the next timers on hold, after least slots, leaves.
StartsNext(hold, remaining, state, least) ==
  /\ least > 0 /\ slots_left' = least /\ ns_timer_state' = TRUE
  /\ timer_state' \in [TimerIds -> States] /\ remaining_slots' \in [TimerIds -> Counts]
  /\ \A t \in TimerIds \ hold :
       timer_state'[t] = state[t] /\ remaining_slots'[t] = remaining[t]
  /\ \A t \in hold :
       \/ timer_state'[t] = "ACTIVE" /\ remaining[t] = least
       \/ /\ timer_state'[t] = state[t]
          /\ remaining_slots'[t] = remaining[t] - least /\ remaining_slots'[t] > 0

LEMMA StartNextEffect ==
  ASSUME NEW hold \in SUBSET TimerIds, hold # {},
         NEW remaining \in [TimerIds -> Counts], NEW state \in [TimerIds -> States],
         \A t \in hold : remaining[t] > 0,
         StartNext(hold, remaining, state)
  PROVE  \E least \in Counts : StartsNext(hold, remaining, state, least)
<1> DEFINE values == {remaining[t] : t \in hold}
           least == Least(hold, remaining)
           next == {t \in hold : remaining[t] = least}
<1>1. values \in SUBSET Nat /\ values # {}
  <2>1. Counts \subseteq Nat
    BY SlotModIsPositive DEF Counts
  <2> QED
    BY <2>1
<1>2. \E v \in values : \A w \in values : v <= w
  <2> HIDE DEF values
  <2> QED BY <1>1, LeastNumber
<1>3. least \in values /\ \A w \in values : least <= w
  BY <1>2 DEF Least
<1>4. /\ least \in Counts /\ least > 0
      /\ \A t \in hold : remaining[t] \in Counts /\ least <= remaining[t]
  BY <1>3
<1>5. /\ slots_left' = (IF least = 0 THEN 1 ELSE least) /\ ns_timer_state' = TRUE
      /\ timer_state' = [t \in TimerIds |-> IF t \in next THEN "ACTIVE" ELSE state[t]]
      /\ remaining_slots' = [t \in TimerIds |->
           IF t \in hold \ next THEN (remaining[t] - least) % SlotMod ELSE remaining[t]]
  BY DEF StartNext, ns_timer_start_pl_timer
<1> HIDE DEF least, values
<1>6. slots_left' = least
  BY <1>4, <1>5 DEF Counts
<1>7. \A t \in hold \ next : /\ (remaining[t] - least) % SlotMod = remaining[t] - least
                             /\ remaining[t] - least \in Counts /\ remaining[t] - least > 0
  <2> TAKE t \in hold \ next
  <2>1. remaining[t] - least \in Counts /\ remaining[t] - least > 0
    BY <1>4, HwTimerAssumption DEF Counts
  <2> QED
    BY <2>1, CountsAreExact
<1>8. timer_state' \in [TimerIds -> States]
  BY <1>5 DEF States
<1>9. remaining_slots' \in [TimerIds -> Counts]
  BY <1>5, <1>7
<1>10. \A t \in TimerIds \ hold : timer_state'[t] = state[t] /\ remaining_slots'[t] = remaining[t]
  BY <1>5
<1>11. \A t \in hold :
         \/ timer_state'[t] = "ACTIVE" /\ remaining[t] = least
         \/ /\ timer_state'[t] = state[t]
            /\ remaining_slots'[t] = remaining[t] - least /\ remaining_slots'[t] > 0
  BY <1>5, <1>7
<1>12. StartsNext(hold, remaining, state, least)
  BY <1>4, <1>5, <1>6, <1>8, <1>9, <1>10, <1>11 DEF StartsNext
<1> QED
  BY <1>4, <1>12

-----------------------------------------------------------------------------
LEMMA HwInitEstablishes == HwInit => HwIInv
<1> SUFFICES ASSUME HwInit PROVE HwIInv
  OBVIOUS
<1>1. Registered = {}
  BY DEF HwInit, Registered, Range
<1>2. HwTypes
  <2>1. 0 \in Counts
    BY HwTimerAssumption DEF Counts
  <2>2. ns_timer_list \in Seq(TimerIds) /\ IsInjective(ns_timer_list)
    BY DEF HwInit, IsInjective
  <2> QED
    BY <2>1, <2>2 DEF HwInit, HwTypes, States
<1> QED
  BY <1>1, <1>2 DEF HwInit, HwIInv, Hardware

LEMMA SlotKeeps ==
  ASSUME HwIInv, Slot
  PROVE  HwIInv'
<1> DEFINE counting == In({"ACTIVE", "HOLD"})
<1>1. HwTypes /\ Registered \subseteq TimerIds
  BY RegisteredAreTimers DEF HwIInv
<1>2. slots_left \in Counts /\ slots_left > 0 /\ slots_left' = slots_left - 1
  BY <1>1 DEF HwTypes, Slot
<1>3. \A t \in counting : t \in TimerIds /\ due[t] \in Counts /\ due[t] >= slots_left /\ due[t] - 1 \in Counts
  <2> TAKE t \in counting
  <2>1. t \in TimerIds /\ Counted(t) /\ timer_state[t] \in {"ACTIVE", "HOLD"}
    BY <1>1 DEF In, HwIInv
  <2>2. due[t] \in Counts /\ remaining_slots[t] \in Counts
    BY <1>1, <2>1 DEF HwTypes
  <2>3. due[t] >= slots_left
    BY <1>2, <2>1, <2>2 DEF Counted, Counts
  <2> QED
    BY <1>2, <2>1, <2>2, <2>3, SlotModIsPositive DEF Counts
<1>4. slots_left' \in Counts
  BY <1>2, SlotModIsPositive DEF Counts
<1>5. due' \in [TimerIds -> Counts]
  BY <1>1, <1>3 DEF Slot, HwTypes
<1>6. HwTypes'
  BY <1>1, <1>4, <1>5 DEF HwTypes, Slot
<1>7. Hardware'
  <2>1. ns_timer_state /\ ~ irq /\ irq' = (irq \/ slots_left = 1) /\ ns_timer_state' = ns_timer_state
    BY <1>2, SlotModIsPositive DEF Hardware, HwIInv, Slot, Counts
  <2>2. slots_left = 1 => slots_left' = 0
    BY <1>2
  <2> QED
    BY <2>1, <2>2 DEF Hardware
<1>8. ASSUME NEW t \in Registered'
      PROVE  Counted(t)'
  <2>1. t \in Registered /\ t \in TimerIds /\ Counted(t)
    BY <1>1, <1>8 DEF Registered, Slot, HwIInv
  <2>2. /\ timer_state' = timer_state /\ remaining_slots' = remaining_slots
        /\ ns_timer_state' = ns_timer_state /\ handler' = handler /\ ns_timer_list' = ns_timer_list
        /\ due'[t] = IF t \in counting THEN due[t] - 1 ELSE due[t]
    BY <2>1 DEF Slot
  <2>3. t \in counting <=> timer_state[t] \in {"ACTIVE", "HOLD"}
    BY <2>1 DEF In
  <2>4. due[t] \in Counts /\ remaining_slots[t] \in Counts
    BY <1>1, <2>1 DEF HwTypes
  <2> QED
    BY <1>2, <2>1, <2>2, <2>3, <2>4 DEF Counted, Awaited, Counts
<1> QED
  BY <1>6, <1>7, <1>8 DEF HwIInv

LEMMA SleepKeeps ==
  ASSUME HwIInv, UsersAreCareful, ns_timer_sleep
  PROVE  HwIInv'
<1>1. HwTypes /\ Started = {} /\ ~ irq
  BY DEF HwIInv, UsersAreCareful, ns_timer_sleep
<1>2. HwTypes'
  <2>1. 0 \in Counts
    BY SlotModIsPositive DEF Counts
  <2> QED
    BY <1>1, <2>1 DEF HwTypes, ns_timer_sleep
<1>3. Hardware'
  BY <1>1 DEF Hardware, ns_timer_sleep
<1>4. ASSUME NEW t \in Registered'
      PROVE  Counted(t)'
  <2>1. t \in Registered /\ timer_state'[t] = timer_state[t]
    BY <1>4 DEF ns_timer_sleep, Registered
  <2>2. timer_state[t] \notin {"ACTIVE", "HOLD", "RUN_INTERRUPT"}
    BY <1>1, <2>1 DEF Started, In
  <2> QED
    BY <2>1, <2>2 DEF Counted
<1> QED
  BY <1>2, <1>3, <1>4 DEF HwIInv

-----------------------------------------------------------------------------
LEMMA RegisterKeeps ==
  ASSUME HwIInv, eventOS_callback_timer_register
  PROVE  HwIInv'
<1> DEFINE free == TimerIds \ Registered
<1>1. HwTypes /\ Registered \subseteq TimerIds
  BY RegisteredAreTimers DEF HwIInv
<1>2. \E i \in free : \A j \in free : i <= j
  <2>1. free \in SUBSET Nat /\ free # {}
    BY HwTimerAssumption DEF eventOS_callback_timer_register
  <2> HIDE DEF free
  <2> QED
    BY <2>1, LeastNumber
<1>3. PICK t \in free :
        /\ ns_timer_list' = Append(ns_timer_list, t)
        /\ timer_state' = [timer_state EXCEPT ![t] = "STOP"]
        /\ remaining_slots' = [remaining_slots EXCEPT ![t] = 0]
  BY <1>2 DEF eventOS_callback_timer_register
<1>4. UNCHANGED <<ns_timer_state, slots_left, irq, handler, due>>
  BY DEF eventOS_callback_timer_register
<1>5. ns_timer_list \in Seq(TimerIds) /\ IsInjective(ns_timer_list) /\ t \in TimerIds /\ t \notin Range(ns_timer_list)
  BY <1>1 DEF HwTypes, Registered
<1>6. /\ ns_timer_list' \in Seq(TimerIds) /\ IsInjective(ns_timer_list')
      /\ Range(ns_timer_list') = Range(ns_timer_list) \cup {t}
      /\ \A a, b : Before(ns_timer_list, a, b) => Before(ns_timer_list', a, b)
  BY <1>3, <1>5, AppendKeepsOrder
<1>7. HwTypes'
  <2>1. timer_state' \in [TimerIds -> States]
    BY <1>1, <1>3 DEF HwTypes, States
  <2>2. remaining_slots' \in [TimerIds -> Counts]
    BY <1>1, <1>3, HwTimerAssumption DEF HwTypes, Counts
  <2> QED
    BY <1>1, <1>4, <1>6, <2>1, <2>2 DEF HwTypes
<1>8. Hardware'
  BY <1>4 DEF Hardware, HwIInv
<1>9. ASSUME NEW u \in Registered'
      PROVE  Counted(u)'
  <2>1. u \in Registered \/ u = t
    BY <1>6, <1>9 DEF Registered
  <2>2. CASE u = t
    <3>1. timer_state'[t] = "STOP"
      BY <1>1, <1>3, <1>5 DEF HwTypes
    <3> QED
      BY <2>2, <3>1 DEF Counted
  <2>3. CASE u # t
    <3>1. u \in TimerIds /\ Counted(u)
      BY <1>1, <2>1, <2>3 DEF HwIInv
    <3>2. timer_state'[u] = timer_state[u] /\ remaining_slots'[u] = remaining_slots[u]
      BY <1>1, <1>3, <2>3, <3>1 DEF HwTypes
    <3>3. Awaited(u) => Awaited(u)'
      BY <1>4, <1>6 DEF Awaited
    <3> QED
      BY <1>4, <3>1, <3>2, <3>3 DEF Counted
  <2> QED
    BY <2>2, <2>3
<1> QED
  BY <1>7, <1>8, <1>9 DEF HwIInv

LEMMA UnregisterKeeps ==
  ASSUME HwIInv, UsersAreCareful, NEW t \in Registered, eventOS_callback_timer_unregister(t)
  PROVE  HwIInv'
<1>1. HwTypes /\ Registered \subseteq TimerIds /\ t \in TimerIds
  BY RegisteredAreTimers DEF HwIInv
<1>2. /\ t # handler
      /\ ns_timer_list' = Unlink(ns_timer_list, t)
      /\ timer_state' = [timer_state EXCEPT ![t] = "STOP"]
      /\ remaining_slots' = [remaining_slots EXCEPT ![t] = 0]
      /\ due' = [due EXCEPT ![t] = 0]
      /\ UNCHANGED <<ns_timer_state, slots_left, irq, handler>>
  BY DEF eventOS_callback_timer_unregister, UsersAreCareful
<1>3. ns_timer_list \in Seq(TimerIds) /\ IsInjective(ns_timer_list)
  BY <1>1 DEF HwTypes
<1>4. /\ ns_timer_list' \in Seq(TimerIds) /\ IsInjective(ns_timer_list')
      /\ Range(ns_timer_list') = Range(ns_timer_list) \ {t}
  BY <1>2, <1>3, UnlinkElements
<1>5. HwTypes'
  <2>1. timer_state' \in [TimerIds -> States]
    BY <1>1, <1>2 DEF HwTypes, States
  <2>2. remaining_slots' \in [TimerIds -> Counts] /\ due' \in [TimerIds -> Counts]
    BY <1>1, <1>2, HwTimerAssumption DEF HwTypes, Counts
  <2> QED
    BY <1>1, <1>2, <1>4, <2>1, <2>2 DEF HwTypes
<1>6. Hardware'
  BY <1>2 DEF Hardware, HwIInv
<1>7. ASSUME NEW u \in Registered'
      PROVE  Counted(u)'
  <2>1. u \in Registered /\ u # t /\ u \in TimerIds /\ Counted(u)
    BY <1>1, <1>4, <1>7 DEF Registered, HwIInv
  <2>2. /\ timer_state'[u] = timer_state[u] /\ remaining_slots'[u] = remaining_slots[u]
        /\ due'[u] = due[u]
    BY <1>1, <1>2, <2>1 DEF HwTypes
  <2>3. Awaited(u) => Awaited(u)'
    <3>1. Before(ns_timer_list, handler, u) => Before(ns_timer_list', handler, u)
      BY <1>2, <1>3, <2>1, UnlinkKeepsOrder
    <3> QED
      BY <1>2, <3>1 DEF Awaited
  <2> QED
    BY <1>2, <2>1, <2>2, <2>3 DEF Counted
<1> QED
  BY <1>5, <1>6, <1>7 DEF HwIInv

-----------------------------------------------------------------------------
\* The first timeout: nothing is counted, and the hardware starts for t.
LEMMA StartFirstKeeps ==
  ASSUME HwIInv, UsersAreCareful, NEW t \in Registered, NEW s \in Slots,
         eventOS_callback_timer_start(t, s), ~ ns_timer_state
  PROVE  HwIInv'
<1> DEFINE hold == In({"HOLD"}) \cup {t}
           remaining == [remaining_slots EXCEPT ![t] = s]
           state == [timer_state EXCEPT ![t] = "HOLD"]
<1>1. HwTypes /\ Registered \subseteq TimerIds /\ t \in TimerIds
  BY RegisteredAreTimers DEF HwIInv
<1>2. s \in Counts /\ s > 0
  BY HwTimerAssumption DEF UsersAreCareful, Counts
<1>3. StartNext(hold, remaining, state) /\ due' = [due EXCEPT ![t] = s] /\ UNCHANGED <<ns_timer_list, irq, handler>>
  BY DEF eventOS_callback_timer_start
<1>4. In({"HOLD"}) = {}
  BY DEF In, HwIInv, Counted
<1>5. hold = {t}
  BY <1>4
<1>6. remaining \in [TimerIds -> Counts] /\ state \in [TimerIds -> States] /\ remaining[t] = s /\ state[t] = "HOLD"
  BY <1>1, <1>2 DEF HwTypes, States
<1>7. \A u \in TimerIds \ {t} : remaining[u] = remaining_slots[u] /\ state[u] = timer_state[u]
  BY <1>1 DEF HwTypes
<1> HIDE DEF hold, remaining, state
<1>8. PICK least \in Counts : StartsNext(hold, remaining, state, least)
  <2>1. hold \in SUBSET TimerIds /\ hold # {} /\ \A u \in hold : remaining[u] > 0
    BY <1>1, <1>2, <1>5, <1>6
  <2> QED
    BY <1>3, <1>6, <2>1, StartNextEffect
<1>8a. /\ least > 0 /\ slots_left' = least /\ ns_timer_state' = TRUE
       /\ timer_state' \in [TimerIds -> States] /\ remaining_slots' \in [TimerIds -> Counts]
  BY <1>8 DEF StartsNext
<1>9. due' \in [TimerIds -> Counts] /\ due'[t] = s /\ \A u \in TimerIds \ {t} : due'[u] = due[u]
  BY <1>1, <1>2, <1>3 DEF HwTypes
<1>10. HwTypes'
  BY <1>1, <1>3, <1>8a, <1>9 DEF HwTypes
<1>11. Hardware'
  BY <1>3, <1>8a DEF Hardware, HwIInv
<1>12. ASSUME NEW u \in Registered'
       PROVE  Counted(u)'
  <2>1. u \in Registered /\ u \in TimerIds /\ Counted(u)
    BY <1>1, <1>3, <1>12 DEF Registered, HwIInv
  <2>2. CASE u = t
    <3>1. \/ timer_state'[t] = "ACTIVE" /\ s = least
          \/ /\ timer_state'[t] = "HOLD"
             /\ remaining_slots'[t] = s - least /\ remaining_slots'[t] > 0
      BY <1>5, <1>6, <1>8 DEF StartsNext
    <3> QED
      BY <1>2, <1>8a, <1>9, <2>2, <3>1, SlotModIsPositive DEF Counted, Counts
  <2>3. CASE u # t
    <3>1. timer_state'[u] = timer_state[u] /\ due'[u] = due[u]
      BY <1>5, <1>7, <1>8, <1>9, <2>1, <2>3 DEF StartsNext
    <3>2. timer_state[u] # "ACTIVE" /\ timer_state[u] # "HOLD"
      BY <2>1 DEF Counted
    <3> QED
      BY <1>3, <2>1, <3>1, <3>2 DEF Counted, Awaited
  <2> QED
    BY <2>2, <2>3
<1> QED
  BY <1>10, <1>11, <1>12 DEF HwIInv

\* A timeout before the current one: the others keep the sum of their slots.
LEMMA StartShorterKeeps ==
  ASSUME HwIInv, UsersAreCareful, NEW t \in Registered, NEW s \in Slots,
         eventOS_callback_timer_start(t, s), ns_timer_state, slots_left > s
  PROVE  HwIInv'
<1> DEFINE before(u) == (IF timer_state[u] = "ACTIVE" THEN 0 ELSE remaining_slots[u]) + slots_left - s
<1>1. HwTypes /\ Registered \subseteq TimerIds /\ t \in TimerIds /\ slots_left \in Counts
  BY RegisteredAreTimers DEF HwIInv, HwTypes
<1>2. s \in Counts /\ s > 0
  BY HwTimerAssumption DEF UsersAreCareful, Counts
<1>3. /\ slots_left' = s /\ ns_timer_state' = TRUE
      /\ timer_state' = [u \in TimerIds |-> IF u = t THEN "ACTIVE"
                                            ELSE IF u \in In({"ACTIVE"}) THEN "HOLD" ELSE timer_state[u]]
      /\ remaining_slots' = [u \in TimerIds |->
           IF u = t THEN s
           ELSE IF u \in In({"ACTIVE", "HOLD"}) THEN before(u) % SlotMod
           ELSE remaining_slots[u]]
      /\ due' = [due EXCEPT ![t] = s]
      /\ UNCHANGED <<ns_timer_list, irq, handler>>
  BY <1>2 DEF eventOS_callback_timer_start, StartShorter, ns_timer_start_pl_timer,
              platform_timer_get_remaining_slots, Counts
<1>4. \A u \in In({"ACTIVE", "HOLD"}) :
        /\ u \in TimerIds /\ due[u] \in Counts
        /\ before(u) \in Counts /\ before(u) > 0 /\ before(u) + s = due[u]
        /\ before(u) % SlotMod = before(u)
  <2> TAKE u \in In({"ACTIVE", "HOLD"})
  <2>1. u \in TimerIds /\ Counted(u) /\ timer_state[u] \in {"ACTIVE", "HOLD"}
    BY <1>1 DEF In, HwIInv
  <2>2. due[u] \in Counts /\ remaining_slots[u] \in Counts
    BY <1>1, <2>1 DEF HwTypes
  <2>3. before(u) + s = due[u]
    BY <1>1, <1>2, <2>1, <2>2 DEF Counted, Counts
  <2>4. before(u) \in Counts /\ before(u) > 0
    BY <1>1, <1>2, <2>1, <2>2, <2>3, SlotModIsPositive DEF Counts
  <2> HIDE DEF before
  <2> QED
    BY <2>1, <2>2, <2>3, <2>4, CountsAreExact
<1> HIDE DEF before
<1>5. ~ irq
  BY <1>1, <1>2 DEF HwIInv, Hardware, Counts
<1>6. HwTypes'
  <2>1. timer_state' \in [TimerIds -> States]
    BY <1>1, <1>3 DEF HwTypes, States
  <2>2. remaining_slots' \in [TimerIds -> Counts]
    BY <1>1, <1>2, <1>3, <1>4 DEF HwTypes
  <2>3. due' \in [TimerIds -> Counts]
    BY <1>1, <1>2, <1>3 DEF HwTypes
  <2> QED
    BY <1>1, <1>2, <1>3, <2>1, <2>2, <2>3 DEF HwTypes
<1>7. Hardware'
  BY <1>3, <1>5 DEF Hardware
<1>8. ASSUME NEW u \in Registered'
      PROVE  Counted(u)'
  <2>1. u \in Registered /\ u \in TimerIds /\ Counted(u)
    BY <1>1, <1>3, <1>8 DEF Registered, HwIInv
  <2>2. CASE u = t
    <3>1. timer_state'[t] = "ACTIVE" /\ due'[t] = s
      BY <1>1, <1>3 DEF HwTypes
    <3> QED
      BY <1>3, <2>2, <3>1 DEF Counted
  <2>3. CASE u # t /\ timer_state[u] \in {"ACTIVE", "HOLD"}
    <3>1. u \in In({"ACTIVE", "HOLD"}) /\ (u \in In({"ACTIVE"}) <=> timer_state[u] = "ACTIVE")
      BY <2>1, <2>3 DEF In
    <3>2. timer_state'[u] = "HOLD"
      BY <1>3, <2>1, <2>3, <3>1
    <3>3. remaining_slots'[u] = before(u) /\ due'[u] = due[u]
      BY <1>1, <1>3, <1>4, <2>1, <2>3, <3>1 DEF HwTypes
    <3>4. before(u) \in Counts /\ before(u) > 0 /\ before(u) + s = due[u]
      BY <1>4, <3>1
    <3> QED
      BY <1>2, <1>3, <3>2, <3>3, <3>4 DEF Counted, Counts
  <2>4. CASE u # t /\ timer_state[u] \notin {"ACTIVE", "HOLD"}
    <3>1. u \notin In({"ACTIVE"})
      BY <2>4 DEF In
    <3>2. timer_state'[u] = timer_state[u] /\ due'[u] = due[u]
      BY <1>1, <1>3, <2>1, <2>4, <3>1 DEF HwTypes
    <3> QED
      BY <1>3, <2>1, <2>4, <3>2 DEF Counted, Awaited
  <2> QED
    BY <2>2, <2>3, <2>4
<1> QED
  BY <1>6, <1>7, <1>8 DEF HwIInv

\* A timeout with the current one or after it: the others stay as they are.
LEMMA StartWithKeeps ==
  ASSUME HwIInv, UsersAreCareful, NEW t \in Registered, NEW s \in Slots,
         eventOS_callback_timer_start(t, s), ns_timer_state, ~ (slots_left > s)
  PROVE  HwIInv'
<1>1. HwTypes /\ Registered \subseteq TimerIds /\ t \in TimerIds /\ slots_left \in Counts
  BY RegisteredAreTimers DEF HwIInv, HwTypes
<1>2. s \in Counts /\ s > 0
  BY HwTimerAssumption DEF UsersAreCareful, Counts
<1>3. /\ timer_state' = [timer_state EXCEPT ![t] = IF slots_left < s THEN "HOLD" ELSE "ACTIVE"]
      /\ remaining_slots' = [remaining_slots EXCEPT ![t] = IF slots_left < s THEN s - slots_left ELSE s]
      /\ due' = [due EXCEPT ![t] = s]
      /\ UNCHANGED <<slots_left, ns_timer_state, ns_timer_list, irq, handler>>
  BY DEF eventOS_callback_timer_start, StartWith, platform_timer_get_remaining_slots
<1>4. slots_left < s => s - slots_left \in Counts /\ s - slots_left > 0
  BY <1>1, <1>2, SlotModIsPositive DEF Counts
<1>5. HwTypes'
  <2>1. timer_state' \in [TimerIds -> States]
    BY <1>1, <1>3 DEF HwTypes, States
  <2>2. remaining_slots' \in [TimerIds -> Counts]
    BY <1>1, <1>2, <1>3, <1>4 DEF HwTypes
  <2>3. due' \in [TimerIds -> Counts]
    BY <1>1, <1>2, <1>3 DEF HwTypes
  <2> QED
    BY <1>1, <1>3, <2>1, <2>2, <2>3 DEF HwTypes
<1>6. Hardware'
  BY <1>3 DEF Hardware, HwIInv
<1>7. ASSUME NEW u \in Registered'
      PROVE  Counted(u)'
  <2>1. u \in Registered /\ u \in TimerIds /\ Counted(u)
    BY <1>1, <1>3, <1>7 DEF Registered, HwIInv
  <2>2. CASE u = t
    <3>1. /\ timer_state'[t] = (IF slots_left < s THEN "HOLD" ELSE "ACTIVE")
          /\ remaining_slots'[t] = (IF slots_left < s THEN s - slots_left ELSE s)
          /\ due'[t] = s
      BY <1>1, <1>3 DEF HwTypes
    <3> QED
      BY <1>1, <1>2, <1>3, <1>4, <2>2, <3>1 DEF Counted, Counts
  <2>3. CASE u # t
    <3>1. /\ timer_state'[u] = timer_state[u] /\ remaining_slots'[u] = remaining_slots[u]
          /\ due'[u] = due[u]
      BY <1>1, <1>3, <2>1, <2>3 DEF HwTypes
    <3> QED
      BY <1>3, <2>1, <3>1 DEF Counted, Awaited
  <2> QED
    BY <2>2, <2>3
<1> QED
  BY <1>5, <1>6, <1>7 DEF HwIInv

-----------------------------------------------------------------------------
\* t goes, and the hardware stays as it is.
LEMMA StopOnlyKeeps ==
  ASSUME HwIInv, NEW t \in Registered,
         timer_state' = [timer_state EXCEPT ![t] = "STOP"],
         remaining_slots' = [remaining_slots EXCEPT ![t] = 0],
         due' = [due EXCEPT ![t] = 0],
         UNCHANGED <<slots_left, ns_timer_state, ns_timer_list, irq, handler>>
  PROVE  HwIInv'
<1>1. HwTypes /\ Registered \subseteq TimerIds /\ t \in TimerIds
  BY RegisteredAreTimers DEF HwIInv
<1>2. HwTypes'
  <2>1. timer_state' \in [TimerIds -> States]
    BY <1>1 DEF HwTypes, States
  <2>2. remaining_slots' \in [TimerIds -> Counts] /\ due' \in [TimerIds -> Counts]
    BY <1>1, HwTimerAssumption DEF HwTypes, Counts
  <2> QED
    BY <1>1, <2>1, <2>2 DEF HwTypes
<1>3. Hardware'
  BY DEF Hardware, HwIInv
<1>4. ASSUME NEW u \in Registered'
      PROVE  Counted(u)'
  <2>1. u \in Registered /\ u \in TimerIds /\ Counted(u)
    BY <1>1, <1>4 DEF Registered, HwIInv
  <2>2. u = t => timer_state'[u] = "STOP"
    BY <1>1 DEF HwTypes
  <2>3. u # t => /\ timer_state'[u] = timer_state[u] /\ remaining_slots'[u] = remaining_slots[u]
                 /\ due'[u] = due[u]
    BY <1>1, <2>1 DEF HwTypes
  <2> QED
    BY <2>1, <2>2, <2>3 DEF Counted, Awaited
<1> QED
  BY <1>2, <1>3, <1>4 DEF HwIInv

\* The only active timer goes: what is on hold is counted from now.
LEMMA StopKeeps ==
  ASSUME HwIInv, UsersAreCareful, NEW t \in Registered, eventOS_callback_timer_stop(t)
  PROVE  HwIInv'
<1> DEFINE hold == In({"HOLD"}) \ {t}
           sum(u) == remaining_slots[u] + slots_left
           remaining == [u \in TimerIds |-> IF u = t THEN 0
                           ELSE IF u \in hold THEN sum(u) % SlotMod ELSE remaining_slots[u]]
           state == [timer_state EXCEPT ![t] = "STOP"]
<1>1. HwTypes /\ Registered \subseteq TimerIds /\ t \in TimerIds /\ slots_left \in Counts
  BY RegisteredAreTimers DEF HwIInv, HwTypes
<1>2. ~ irq /\ due' = [due EXCEPT ![t] = 0] /\ UNCHANGED <<ns_timer_list, irq, handler>>
  BY DEF eventOS_callback_timer_stop, UsersAreCareful
<1>3. CASE In({"ACTIVE"}) \ {t} # {} \/ hold = {}
  BY <1>2, <1>3, StopOnlyKeeps DEF eventOS_callback_timer_stop, StopActive
<1>4. CASE In({"ACTIVE"}) \ {t} = {} /\ hold # {}
  <2>1. StartNext(hold, remaining, state)
    BY <1>4 DEF eventOS_callback_timer_stop, StopActive, platform_timer_get_remaining_slots
  <2>2. \A u \in hold : /\ u \in TimerIds /\ u # t /\ timer_state[u] = "HOLD" /\ due[u] \in Counts
                        /\ due[u] > 0 /\ sum(u) % SlotMod = due[u]
    <3> TAKE u \in hold
    <3>1. u \in TimerIds /\ u # t /\ Counted(u) /\ timer_state[u] = "HOLD"
      BY <1>1 DEF In, HwIInv
    <3>2. due[u] \in Counts /\ remaining_slots[u] \in Counts
      BY <1>1, <3>1 DEF HwTypes
    <3>3. sum(u) = due[u] /\ due[u] > 0
      BY <1>1, <3>1, <3>2 DEF Counted, Counts
    <3> HIDE DEF sum
    <3> QED
      BY <3>1, <3>2, <3>3, CountsAreExact
  <2>3. hold \in SUBSET TimerIds
    BY <2>2
  <2>4. 0 \in Counts
    BY HwTimerAssumption DEF Counts
  <2>5. /\ remaining \in [TimerIds -> Counts]
        /\ \A u \in hold : remaining[u] = due[u] /\ remaining[u] > 0
    <3> HIDE DEF sum, hold
    <3> QED
      BY <1>1, <2>2, <2>4 DEF HwTypes
  <2>6. /\ state \in [TimerIds -> States] /\ state[t] = "STOP"
        /\ \A u \in TimerIds \ {t} : state[u] = timer_state[u]
    BY <1>1 DEF HwTypes, States
  <2> HIDE DEF hold, remaining, state, sum
  <2>7. PICK least \in Counts : StartsNext(hold, remaining, state, least)
    BY <1>4, <2>1, <2>3, <2>5, <2>6, StartNextEffect
  <2>7a. /\ least > 0 /\ slots_left' = least /\ ns_timer_state' = TRUE
         /\ timer_state' \in [TimerIds -> States] /\ remaining_slots' \in [TimerIds -> Counts]
    BY <2>7 DEF StartsNext
  <2>8. due' \in [TimerIds -> Counts] /\ \A u \in TimerIds \ {t} : due'[u] = due[u]
    BY <1>1, <1>2, <2>4 DEF HwTypes
  <2>9. HwTypes'
    BY <1>1, <1>2, <2>7a, <2>8 DEF HwTypes
  <2>10. Hardware'
    BY <1>2, <2>7a DEF Hardware
  <2>11. ASSUME NEW u \in Registered'
         PROVE  Counted(u)'
    <3>1. u \in Registered /\ u \in TimerIds /\ Counted(u)
      BY <1>1, <1>2, <2>11 DEF Registered, HwIInv
    <3>2. CASE u \in hold
      <4>1. u # t /\ due'[u] = due[u] /\ due[u] \in Counts /\ state[u] = "HOLD"
        BY <2>2, <2>6, <2>8, <3>1, <3>2
      <4>2. \/ timer_state'[u] = "ACTIVE" /\ due[u] = least
            \/ /\ timer_state'[u] = "HOLD"
               /\ remaining_slots'[u] = due[u] - least /\ remaining_slots'[u] > 0
        BY <2>5, <2>7, <3>2, <4>1 DEF StartsNext
      <4> QED
        BY <2>7a, <4>1, <4>2, SlotModIsPositive DEF Counted, Counts
    <3>3. CASE u = t
      <4>1. timer_state'[u] = "STOP"
        BY <2>2, <2>6, <2>7, <3>1, <3>3 DEF StartsNext
      <4> QED
        BY <4>1 DEF Counted
    <3>4. CASE u # t /\ u \notin hold
      <4>1. timer_state'[u] = timer_state[u] /\ due'[u] = due[u]
        BY <2>6, <2>7, <2>8, <3>1, <3>4 DEF StartsNext
      <4>2. timer_state[u] # "ACTIVE" /\ timer_state[u] # "HOLD"
        BY <1>4, <3>1, <3>4 DEF In, hold
      <4> QED
        BY <1>2, <3>1, <4>1, <4>2 DEF Counted, Awaited
    <3> QED
      BY <3>2, <3>3, <3>4
  <2> QED
    BY <2>9, <2>10, <2>11 DEF HwIInv
<1> QED
  BY <1>3, <1>4

-----------------------------------------------------------------------------
\* What is marked for its handler has ended, and the next timeout starts.
LEMMA InterruptKeeps ==
  ASSUME HwIInv, ns_timer_interrupt_handler
  PROVE  HwIInv'
<1> DEFINE hold == In({"HOLD"})
           marked == [t \in TimerIds |-> IF t \in In({"ACTIVE"}) THEN "RUN_INTERRUPT" ELSE timer_state[t]]
<1>1. HwTypes /\ Registered \subseteq TimerIds
  BY RegisteredAreTimers DEF HwIInv
<1>2. irq /\ slots_left = 0 /\ irq' = FALSE /\ handler' = Entered /\ UNCHANGED <<ns_timer_list, due>>
  BY DEF HwIInv, Hardware, ns_timer_interrupt_handler
<1>3. marked \in [TimerIds -> States]
  BY <1>1 DEF HwTypes, States
<1>4. \A t \in Registered : marked[t] = IF timer_state[t] = "ACTIVE" THEN "RUN_INTERRUPT" ELSE timer_state[t]
  BY <1>1 DEF In
<1>5. \A t \in Registered :
        /\ due[t] \in Counts
        /\ t \in hold => t \in TimerIds /\ due[t] = remaining_slots[t] /\ remaining_slots[t] > 0
        /\ t \in hold <=> timer_state[t] = "HOLD"
        /\ timer_state[t] \in {"ACTIVE", "RUN_INTERRUPT"} => due[t] = 0
  <2> TAKE t \in Registered
  <2>1. t \in TimerIds /\ Counted(t)
    BY <1>1 DEF HwIInv
  <2>2. due[t] \in Counts /\ remaining_slots[t] \in Counts
    BY <1>1, <2>1 DEF HwTypes
  <2>3. t \in hold <=> timer_state[t] = "HOLD"
    BY DEF In
  <2> QED
    BY <1>2, <2>1, <2>2, <2>3 DEF Counted, Counts
<1>6. CASE hold = {}
  <2>1. timer_state' = marked /\ ns_timer_state' = FALSE /\ UNCHANGED <<remaining_slots, slots_left>>
    BY <1>6 DEF ns_timer_interrupt_handler
  <2> HIDE DEF marked, hold
  <2>2. HwTypes'
    BY <1>1, <1>2, <1>3, <2>1 DEF HwTypes
  <2>3. Hardware'
    BY <1>2, <2>1 DEF Hardware
  <2>4. ASSUME NEW t \in Registered'
        PROVE  Counted(t)'
    <3>1. t \in Registered
      BY <1>2, <2>4 DEF Registered
    <3>2. timer_state'[t] # "HOLD" /\ timer_state'[t] # "ACTIVE"
      BY <1>4, <1>5, <1>6, <2>1, <3>1
    <3>3. timer_state'[t] = "RUN_INTERRUPT" => due'[t] = 0
      BY <1>2, <1>4, <1>5, <2>1, <3>1
    <3> QED
      BY <1>2, <3>2, <3>3 DEF Counted, Awaited
  <2> QED
    BY <2>2, <2>3, <2>4 DEF HwIInv
<1>7. CASE hold # {}
  <2>1. StartNext(hold, remaining_slots, marked)
    BY <1>7 DEF ns_timer_interrupt_handler
  <2>2. hold \in SUBSET TimerIds /\ \A t \in hold : t \in Registered /\ remaining_slots[t] > 0
    BY <1>1, <1>5 DEF In
  <2>3. remaining_slots \in [TimerIds -> Counts]
    BY <1>1 DEF HwTypes
  <2> HIDE DEF marked, hold
  <2>4. PICK least \in Counts : StartsNext(hold, remaining_slots, marked, least)
    BY <1>3, <1>7, <2>1, <2>2, <2>3, StartNextEffect
  <2>4a. /\ least > 0 /\ slots_left' = least /\ ns_timer_state' = TRUE
         /\ timer_state' \in [TimerIds -> States] /\ remaining_slots' \in [TimerIds -> Counts]
    BY <2>4 DEF StartsNext
  <2>5. HwTypes'
    BY <1>1, <1>2, <2>4a DEF HwTypes
  <2>6. Hardware'
    BY <1>2, <2>4a DEF Hardware
  <2>7. ASSUME NEW t \in Registered'
        PROVE  Counted(t)'
    <3>1. t \in Registered /\ t \in TimerIds /\ due'[t] = due[t]
      BY <1>1, <1>2, <2>7 DEF Registered
    <3>2. CASE t \in hold
      <4>1. marked[t] = "HOLD" /\ due[t] = remaining_slots[t] /\ due[t] \in Counts
        BY <1>4, <1>5, <3>1, <3>2
      <4>2. \/ timer_state'[t] = "ACTIVE" /\ due[t] = least
            \/ /\ timer_state'[t] = "HOLD"
               /\ remaining_slots'[t] = due[t] - least /\ remaining_slots'[t] > 0
        BY <2>4, <3>2, <4>1 DEF StartsNext
      <4> QED
        BY <2>4a, <3>1, <4>1, <4>2, SlotModIsPositive DEF Counted, Counts
    <3>3. CASE t \notin hold
      <4>1. timer_state'[t] # "HOLD" /\ timer_state'[t] # "ACTIVE"
        BY <1>4, <1>5, <2>4, <3>1, <3>3 DEF StartsNext
      <4>2. timer_state'[t] = "RUN_INTERRUPT" => due'[t] = 0
        BY <1>4, <1>5, <2>4, <3>1, <3>3 DEF StartsNext
      <4> QED
        BY <1>2, <4>1, <4>2 DEF Counted, Awaited
    <3> QED
      BY <3>2, <3>3
  <2> QED
    BY <2>5, <2>6, <2>7 DEF HwIInv
<1> QED
  BY <1>6, <1>7

-----------------------------------------------------------------------------
LEMMA BehindIsAwaited ==
  ASSUME NEW t \in Registered
  PROVE  t \in Behind <=> Awaited(t)
<1>1. PICK i \in DOMAIN ns_timer_list : ns_timer_list[i] = t
  BY DEF Registered, Range
<1>2. Awaited(t) => t \in Behind
  BY <1>1 DEF Awaited, Behind, Before
<1>3. t \in Behind => Awaited(t)
  BY DEF Awaited, Behind, Before
<1> QED
  BY <1>2, <1>3

\* The handler called is the first of those to be called: the others are behind it.
LEMMA CallHandlerKeeps ==
  ASSUME HwIInv, CallHandler
  PROVE  HwIInv'
<1> DEFINE P == {i \in DOMAIN ns_timer_list : ns_timer_list[i] \in ToRun}
           f == First(P)
           t == ns_timer_list[f]
<1>1. HwTypes /\ Registered \subseteq TimerIds
  BY RegisteredAreTimers DEF HwIInv
<1>2. /\ ToRun # {} /\ timer_state' = [timer_state EXCEPT ![t] = "STOP"] /\ handler' = t
      /\ UNCHANGED <<ns_timer_list, remaining_slots, ns_timer_state, slots_left, irq, due>>
  BY DEF CallHandler
<1>3. Len(ns_timer_list) \in Nat /\ DOMAIN ns_timer_list = 1 .. Len(ns_timer_list)
  BY <1>1, LenProperties DEF HwTypes
<1>4. P # {}
  BY <1>2 DEF ToRun, Behind
<1>5. f \in P /\ \A i \in P : f <= i
  <2>1. P \in SUBSET (1 .. Len(ns_timer_list))
    BY <1>3
  <2> HIDE DEF P
  <2> QED
    BY <1>3, <1>4, <2>1, FirstOfPositions
<1>6. f \in DOMAIN ns_timer_list /\ t \in Registered /\ t \in TimerIds
  BY <1>1, <1>5 DEF Registered, Range
<1>7. \A u \in Registered \ {t} : timer_state[u] = "RUN_INTERRUPT" => Before(ns_timer_list, t, u)
  <2> SUFFICES ASSUME NEW u \in Registered \ {t}, timer_state[u] = "RUN_INTERRUPT"
               PROVE  Before(ns_timer_list, t, u)
    OBVIOUS
  <2>1. u \in ToRun
    BY BehindIsAwaited DEF HwIInv, Counted, ToRun
  <2>2. PICK j \in DOMAIN ns_timer_list : ns_timer_list[j] = u
    BY DEF Registered, Range
  <2>3. f <= j /\ f # j
    BY <1>5, <2>1, <2>2
  <2>4. f < j
    BY <1>3, <1>6, <2>2, <2>3
  <2> HIDE DEF f
  <2> QED
    BY <1>6, <2>2, <2>4 DEF Before
<1> HIDE DEF f, P, t
<1>8. HwTypes'
  BY <1>1, <1>2, <1>6 DEF HwTypes, States
<1>9. Hardware'
  BY <1>2 DEF Hardware, HwIInv
<1>10. ASSUME NEW u \in Registered'
       PROVE  Counted(u)'
  <2>1. u \in Registered /\ u \in TimerIds /\ Counted(u)
    BY <1>1, <1>2, <1>10 DEF Registered, HwIInv
  <2>2. timer_state'[u] = IF u = t THEN "STOP" ELSE timer_state[u]
    BY <1>1, <1>2, <2>1 DEF HwTypes
  <2>3. timer_state'[u] = "RUN_INTERRUPT" => Awaited(u)'
    BY <1>2, <1>7, <2>1, <2>2 DEF Awaited
  <2> QED
    BY <1>2, <2>1, <2>2, <2>3 DEF Counted
<1> QED
  BY <1>8, <1>9, <1>10 DEF HwIInv

\* The interrupt ends when no handler is to be called: none is forgotten.
LEMMA ReturnKeeps ==
  ASSUME HwIInv, InterruptReturn
  PROVE  HwIInv'
<1>1. ToRun = {} /\ handler' = Thread
      /\ UNCHANGED <<ns_timer_list, timer_state, remaining_slots, ns_timer_state, slots_left, irq, due>>
  BY DEF InterruptReturn
<1>2. HwTypes' /\ Hardware'
  BY <1>1 DEF HwIInv, HwTypes, Hardware
<1>3. ASSUME NEW t \in Registered'
      PROVE  Counted(t)'
  <2>1. t \in Registered /\ Counted(t)
    BY <1>1, <1>3 DEF Registered, HwIInv
  <2>2. timer_state[t] # "RUN_INTERRUPT"
    BY <1>1, <2>1, BehindIsAwaited DEF Counted, ToRun
  <2> QED
    BY <1>1, <2>1, <2>2 DEF Counted
<1> QED
  BY <1>2, <1>3 DEF HwIInv

-----------------------------------------------------------------------------
LEMMA HwInvariance ==
  ASSUME UsersAreCareful
  PROVE  HwSpec => []HwIInv
<1>1. HwIInv /\ [HwNext]_hwVars => HwIInv'
  <2> SUFFICES ASSUME HwIInv, [HwNext]_hwVars
               PROVE  HwIInv'
    OBVIOUS
  <2>1. CASE Slot
    BY <2>1, SlotKeeps
  <2>2. CASE ns_timer_sleep
    BY <2>2, SleepKeeps
  <2>3. CASE ns_timer_interrupt_handler
    BY <2>3, InterruptKeeps
  <2>4. CASE CallHandler
    BY <2>4, CallHandlerKeeps
  <2>5. CASE InterruptReturn
    BY <2>5, ReturnKeeps
  <2>6. CASE eventOS_callback_timer_register
    BY <2>6, RegisterKeeps
  <2>7. ASSUME NEW t \in Registered, eventOS_callback_timer_unregister(t)
        PROVE  HwIInv'
    BY <2>7, UnregisterKeeps
  <2>8. ASSUME NEW t \in Registered, NEW s \in Slots, eventOS_callback_timer_start(t, s)
        PROVE  HwIInv'
    BY <2>8, StartFirstKeeps, StartShorterKeeps, StartWithKeeps
  <2>9. ASSUME NEW t \in Registered, eventOS_callback_timer_stop(t)
        PROVE  HwIInv'
    BY <2>9, StopKeeps
  <2>10. CASE UNCHANGED hwVars
    BY <2>10 DEF hwVars, HwIInv, HwTypes, Hardware, Counted, Awaited, Registered
  <2> QED
    BY <2>1, <2>2, <2>3, <2>4, <2>5, <2>6, <2>7, <2>8, <2>9, <2>10 DEF HwNext
<1> QED
  BY <1>1, HwInitEstablishes, PTL DEF HwSpec

\* The slots that ns_timer.c counts for a timer, in the hardware and on hold,
\* are at every moment those its owner has still to wait, whichever timers are
\* started, stopped, started again or removed meanwhile; and a handler that is
\* to be called is called within the interrupt its timer ended with.
THEOREM TimersAreOnTime ==
  ASSUME UsersAreCareful
  PROVE  HwSpec => []OnTime
<1>1. HwIInv => OnTime
  <2> SUFFICES ASSUME HwIInv, NEW t \in Started
               PROVE  CASE timer_state[t] = "ACTIVE" -> ns_timer_state /\ slots_left = due[t]
                        [] timer_state[t] = "HOLD" -> ns_timer_state /\ slots_left + remaining_slots[t] = due[t]
                        [] OTHER -> due[t] = 0 /\ handler # Thread
    BY DEF OnTime
  <2>1. t \in Registered /\ Counted(t) /\ timer_state[t] \in {"ACTIVE", "HOLD", "RUN_INTERRUPT"}
    BY DEF Started, In, HwIInv
  <2>2. Awaited(t) => handler # Thread
    <3>1. ~ Before(ns_timer_list, Thread, t)
      <4>1. ns_timer_list \in [1 .. Len(ns_timer_list) -> TimerIds]
        BY LenProperties DEF HwIInv, HwTypes
      <4>2. Thread \notin TimerIds
        BY HwTimerAssumption DEF Thread
      <4> QED
        BY <4>1, <4>2 DEF Before
    <3>2. Thread # Entered
      BY DEF Thread, Entered
    <3> QED
      BY <3>1, <3>2 DEF Awaited
  <2> QED
    BY <2>1, <2>2 DEF Counted
<1> QED
  BY <1>1, HwInvariance, PTL
=============================================================================
