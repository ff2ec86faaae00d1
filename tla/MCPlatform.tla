----------------------------- MODULE MCPlatform -----------------------------
(* The libraries that the client's platform layer is made of, for TLC: the   *)
(* event loop without timers, the heap, the timers on the hardware timer and *)
(* the helper for non-volatile memory.  They share no state here, so each    *)
(* behaviour is one of one of them, as `part` says.                          *)
EXTENDS EventLoop, Heap, HwTimer, NvmHelper

CONSTANT Parts

VARIABLE part

Alone(p, rest) == part = p /\ UNCHANGED <<part, rest>>
LoopOnly == Alone("loop", <<heapVars, hwVars, nvm>>)
HeapOnly == Alone("heap", <<vars, hwVars, nvm>>)
HwOnly == Alone("timer", <<vars, heapVars, nvm>>)
NvmOnly == Alone("nvm", <<vars, heapVars, hwVars>>)

PlatformInit ==
  /\ part \in Parts
  /\ Init /\ HeapInit /\ HwInit /\ NvmInit
  /\ part # "heap" => buffer = CHOOSE b \in Buffers : TRUE

LoopCall(t) ==
  \/ \E h \in Handlers : HandlerCreate(t, h) /\ LoopOnly
  \/ \E d \in UsedData : EventSend(t, d) /\ LoopOnly
  \/ \E d \in UsedData, e \in UserEvents : SendUserAllocated(t, e, d) /\ LoopOnly
  \/ \E e \in Storage : Cancel(t, e) /\ LoopOnly
  \/ \E h \in Handlers, i \in Ids : TimerCancel(t, h, i) /\ LoopOnly
  \/ EventWrite(t) /\ LoopOnly

PlatformNext ==
  \/ \E t \in Threads : LoopCall(t)
  \/ EventRead /\ LoopOnly
  \/ HandlerReturn /\ LoopOnly
  \/ FreePush /\ LoopOnly
  \/ \E n \in TickSteps : TickUpdate(n) /\ LoopOnly
  \/ TickDone /\ LoopOnly
  \/ \E bytes \in Requests : ns_mem_alloc(bytes) /\ HeapOnly
  \/ \E bytes \in Requests : ns_mem_temporary_alloc(bytes) /\ HeapOnly
  \/ \E p \in Allocated : ns_mem_free(p) /\ HeapOnly
  \/ Slot /\ HwOnly
  \/ ns_timer_sleep /\ HwOnly
  \/ ns_timer_interrupt_handler /\ HwOnly
  \/ CallHandler /\ HwOnly
  \/ InterruptReturn /\ HwOnly
  \/ eventOS_callback_timer_register /\ HwOnly
  \/ \E t \in Registered : eventOS_callback_timer_unregister(t) /\ HwOnly
  \/ \E t \in Registered, s \in Slots : eventOS_callback_timer_start(t, s) /\ HwOnly
  \/ \E t \in Registered : eventOS_callback_timer_stop(t) /\ HwOnly
  \/ \E q \in NvmRequests, op \in NvmOps, ok \in BOOLEAN : NvmCall(q, op, ok) /\ NvmOnly
  \/ \E status \in Statuses, refused \in SUBSET MayRefuse, again \in Again :
       OperationEnds(status, refused, again) /\ NvmOnly

PlatformSpec ==
  /\ PlatformInit
  /\ [][PlatformNext]_<<part, vars, heapVars, hwVars, nvm>>
  /\ Fairness /\ NvmFairness

mBuffers == {[at |-> 1, size |-> 62], [at |-> 4, size |-> 60], [at |-> 0, size |-> 54]}
=============================================================================
