------------------------------ MODULE HwTimer ------------------------------
(***************************************************************************)
(* ns_timer.c: any number of timers on one hardware timer.  The timers     *)
(* that end with the current timeout are ACTIVE, the others are on HOLD    *)
(* with the slots that remain after it.  An interrupt waits until nobody   *)
(* is in a critical section; handlers run in it, and start and stop timers *)
(* as threads do.  The compensation is that of every platform but one: 0.  *)
(***************************************************************************)
EXTENDS Lists

CONSTANTS TimerIds,      \* the ids that eventOS_callback_timer_register gives
          Slots,         \* the timeouts asked for
          SlotMod,       \* slot counts are unsigned integers below this
          TimerCareless  \* rules of TimerRules that the users do not keep

\* stop_pending: no timer is stopped while an interrupt waits;
\* sleep: ns_timer_sleep is called when no timer is started and no interrupt waits;
\* own: a handler does not unregister its own timer.
TimerRules == {"stop_pending", "sleep", "own"}

ASSUME HwTimerAssumption ==
  /\ SlotMod \in Nat \ {0} /\ Slots \subseteq 0 .. SlotMod - 1
  /\ TimerIds \subseteq Nat /\ TimerCareless \subseteq TimerRules

VARIABLES ns_timer_list, timer_state, remaining_slots,
          ns_timer_state,  \* whether NS_TIMER_RUNNING is set
          slots_left,      \* slots until the hardware timer fires
          irq,             \* an interrupt waits to be handled
          handler,         \* the timer whose handler is called, Entered before any, or Thread
          due              \* auxiliary: slots until a timer should end, not counting
                           \* the time for which an interrupt waits

hwVars == <<ns_timer_list, timer_state, remaining_slots, ns_timer_state, slots_left, irq, handler, due>>

Thread == -1
Entered == -2

Registered == Range(ns_timer_list)
In(states) == {t \in Registered : timer_state[t] \in states}
Started == In({"ACTIVE", "HOLD", "RUN_INTERRUPT"})

HwInit == /\ ns_timer_list = <<>>
          /\ timer_state = [t \in TimerIds |-> "STOP"]
          /\ remaining_slots = [t \in TimerIds |-> 0]
          /\ due = [t \in TimerIds |-> 0]
          /\ ns_timer_state = FALSE /\ slots_left = 0 /\ irq = FALSE /\ handler = Thread

-----------------------------------------------------------------------------
(* The hardware timer *)

platform_timer_get_remaining_slots == slots_left

Slot ==
  /\ slots_left > 0
  /\ slots_left' = slots_left - 1
  /\ irq' = (irq \/ slots_left = 1)
  /\ due' = [t \in TimerIds |-> IF t \in In({"ACTIVE", "HOLD"}) THEN due[t] - 1 ELSE due[t]]
  /\ UNCHANGED <<ns_timer_list, timer_state, remaining_slots, ns_timer_state, handler>>

ns_timer_start_pl_timer(slots) ==
  /\ slots_left' = IF slots = 0 THEN 1 ELSE slots
  /\ ns_timer_state' = TRUE

ns_timer_sleep ==
  /\ "sleep" \in TimerCareless \/ (Started = {} /\ ~ irq)
  /\ handler = Thread
  /\ ns_timer_state
  /\ slots_left' = 0 /\ ns_timer_state' = FALSE
  /\ UNCHANGED <<ns_timer_list, timer_state, remaining_slots, irq, handler, due>>

-----------------------------------------------------------------------------
(* Registration *)

\* Threads call, and handlers once one runs.
Caller == handler # Entered

eventOS_callback_timer_register ==
  /\ Caller
  /\ TimerIds \ Registered # {}
  /\ LET t == CHOOSE i \in TimerIds \ Registered : \A j \in TimerIds \ Registered : i <= j
     IN  /\ ns_timer_list' = Append(ns_timer_list, t)
         /\ timer_state' = [timer_state EXCEPT ![t] = "STOP"]
         /\ remaining_slots' = [remaining_slots EXCEPT ![t] = 0]
  /\ UNCHANGED <<ns_timer_state, slots_left, irq, handler, due>>

eventOS_callback_timer_unregister(t) ==
  /\ Caller
  /\ "own" \in TimerCareless \/ t # handler
  /\ ns_timer_list' = Unlink(ns_timer_list, t)
  /\ timer_state' = [timer_state EXCEPT ![t] = "STOP"]
  /\ remaining_slots' = [remaining_slots EXCEPT ![t] = 0]
  /\ due' = [due EXCEPT ![t] = 0]
  /\ UNCHANGED <<ns_timer_state, slots_left, irq, handler>>

-----------------------------------------------------------------------------
(* Start *)

\* The least number of remaining slots of the timers on hold.
Least(hold, remaining) ==
  LET values == {remaining[t] : t \in hold} IN CHOOSE v \in values : \A w \in values : v <= w

\* The hardware timer is started for the timer on hold that ends first, and
\* those that end with it.
StartNext(hold, remaining, state) ==
  LET least == Least(hold, remaining)
      next == {t \in hold : remaining[t] = least}
  IN  /\ ns_timer_start_pl_timer(least)
      /\ timer_state' = [t \in TimerIds |-> IF t \in next THEN "ACTIVE" ELSE state[t]]
      /\ remaining_slots' = [t \in TimerIds |->
           IF t \in hold \ next THEN (remaining[t] - least) % SlotMod ELSE remaining[t]]

\* Mutant: timers that were active keep their own count.
StartShorter_kept(t, slots) ==
  /\ ns_timer_start_pl_timer(slots)
  /\ timer_state' = [u \in TimerIds |-> IF u = t THEN "ACTIVE"
                                        ELSE IF u \in In({"ACTIVE"}) THEN "HOLD" ELSE timer_state[u]]
  /\ remaining_slots' = [u \in TimerIds |->
       IF u = t THEN slots
       ELSE IF u \in In({"ACTIVE", "HOLD"})
            THEN (remaining_slots[u] + platform_timer_get_remaining_slots - slots) % SlotMod
       ELSE remaining_slots[u]]

\* A timeout before the current one: the others are moved back.
StartShorter(t, slots) ==
  /\ ns_timer_start_pl_timer(slots)
  /\ timer_state' = [u \in TimerIds |-> IF u = t THEN "ACTIVE"
                                        ELSE IF u \in In({"ACTIVE"}) THEN "HOLD" ELSE timer_state[u]]
  /\ remaining_slots' = [u \in TimerIds |->
       IF u = t THEN slots
       ELSE IF u \in In({"ACTIVE", "HOLD"})
            THEN ((IF timer_state[u] = "ACTIVE" THEN 0 ELSE remaining_slots[u])
                    + platform_timer_get_remaining_slots - slots) % SlotMod
       ELSE remaining_slots[u]]

\* A timeout with the current one, or after it.
StartWith(t, slots) ==
  LET left == platform_timer_get_remaining_slots
  IN  /\ timer_state' = [timer_state EXCEPT ![t] = IF left < slots THEN "HOLD" ELSE "ACTIVE"]
      /\ remaining_slots' = [remaining_slots EXCEPT ![t] = IF left < slots THEN slots - left ELSE slots]
      /\ UNCHANGED <<slots_left, ns_timer_state>>

eventOS_callback_timer_start(t, slots) ==
  /\ Caller
  /\ IF ~ ns_timer_state
     THEN StartNext(In({"HOLD"}) \cup {t}, [remaining_slots EXCEPT ![t] = slots],
                    [timer_state EXCEPT ![t] = "HOLD"])
     ELSE IF platform_timer_get_remaining_slots > slots THEN StartShorter(t, slots)
     ELSE StartWith(t, slots)
  /\ due' = [due EXCEPT ![t] = slots]
  /\ UNCHANGED <<ns_timer_list, irq, handler>>

-----------------------------------------------------------------------------
(* Stop *)

\* The only active timer goes: the timeout becomes that of the next on hold.
StopActive(t, hold) ==
  IF hold = {} THEN /\ timer_state' = [timer_state EXCEPT ![t] = "STOP"]
                    /\ remaining_slots' = [remaining_slots EXCEPT ![t] = 0]
                    /\ UNCHANGED <<slots_left, ns_timer_state>>
  ELSE StartNext(hold,
                 [u \in TimerIds |-> IF u = t THEN 0
                    ELSE IF u \in hold
                         THEN (remaining_slots[u] + platform_timer_get_remaining_slots) % SlotMod
                    ELSE remaining_slots[u]],
                 [timer_state EXCEPT ![t] = "STOP"])

eventOS_callback_timer_stop(t) ==
  /\ Caller
  /\ "stop_pending" \in TimerCareless \/ ~ irq
  /\ timer_state[t] # "STOP"
  /\ IF In({"ACTIVE"}) \ {t} = {} THEN StopActive(t, In({"HOLD"}) \ {t})
     ELSE /\ timer_state' = [timer_state EXCEPT ![t] = "STOP"]
          /\ remaining_slots' = [remaining_slots EXCEPT ![t] = 0]
          /\ UNCHANGED <<slots_left, ns_timer_state>>
  /\ due' = [due EXCEPT ![t] = 0]
  /\ UNCHANGED <<ns_timer_list, irq, handler>>

-----------------------------------------------------------------------------
(* The interrupt *)

ns_timer_interrupt_handler ==
  /\ irq /\ handler = Thread
  /\ LET marked == [t \in TimerIds |-> IF t \in In({"ACTIVE"}) THEN "RUN_INTERRUPT" ELSE timer_state[t]]
     IN  IF In({"HOLD"}) # {} THEN StartNext(In({"HOLD"}), remaining_slots, marked)
         ELSE /\ timer_state' = marked
              /\ ns_timer_state' = FALSE
              /\ UNCHANGED <<remaining_slots, slots_left>>
  /\ irq' = FALSE
  /\ handler' = Entered
  /\ UNCHANGED <<ns_timer_list, due>>

\* The timers of the list behind the one whose handler was called last.
Behind ==
  {ns_timer_list[i] : i \in {j \in DOMAIN ns_timer_list :
     handler # Entered => \E k \in DOMAIN ns_timer_list : k < j /\ ns_timer_list[k] = handler}}

ToRun == {t \in Behind : timer_state[t] = "RUN_INTERRUPT"}

CallHandler ==
  /\ handler # Thread /\ ToRun # {}
  /\ LET t == ns_timer_list[First({i \in DOMAIN ns_timer_list : ns_timer_list[i] \in ToRun})]
     IN  /\ timer_state' = [timer_state EXCEPT ![t] = "STOP"]
         /\ handler' = t
  /\ UNCHANGED <<ns_timer_list, remaining_slots, ns_timer_state, slots_left, irq, due>>

InterruptReturn ==
  /\ handler # Thread /\ ToRun = {}
  /\ handler' = Thread
  /\ UNCHANGED <<ns_timer_list, timer_state, remaining_slots, ns_timer_state, slots_left, irq, due>>

-----------------------------------------------------------------------------
HwNext ==
  \/ Slot \/ ns_timer_sleep \/ ns_timer_interrupt_handler \/ CallHandler \/ InterruptReturn
  \/ eventOS_callback_timer_register
  \/ \E t \in Registered :
       \/ eventOS_callback_timer_unregister(t)
       \/ \E s \in Slots : eventOS_callback_timer_start(t, s)
       \/ eventOS_callback_timer_stop(t)

\* The hardware counts, interrupts are handled, and handlers return.
HwFairness == WF_hwVars(Slot) /\ WF_hwVars(ns_timer_interrupt_handler)
              /\ WF_hwVars(CallHandler) /\ WF_hwVars(InterruptReturn)

HwSpec == HwInit /\ [][HwNext]_hwVars /\ HwFairness

\* The slots that ns_timer.c counts for a timer, in the hardware and on hold,
\* are at every moment those its owner has still to wait, whichever timers are
\* started, stopped, started again or removed meanwhile: no timer is early, and
\* none is later than the interrupts were.  A timer waits to be called only
\* within the interrupt it ended with.
OnTime ==
  \A t \in Started :
    CASE timer_state[t] = "ACTIVE" -> ns_timer_state /\ slots_left = due[t]
      [] timer_state[t] = "HOLD" -> ns_timer_state /\ slots_left + remaining_slots[t] = due[t]
      [] OTHER -> due[t] = 0 /\ handler # Thread

\* A timer ends at last, unless it is started again and again: the hardware
\* timer never stands still while a timer waits.
EndsAtLast ==
  \A t \in TimerIds : []<>(t \notin Started) \/ []<><<\E s \in Slots : eventOS_callback_timer_start(t, s)>>_hwVars
=============================================================================
