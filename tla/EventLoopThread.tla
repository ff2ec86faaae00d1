--------------------------- MODULE EventLoopThread ---------------------------
(***************************************************************************)
(* The thread that runs the event loop (ns_event_loop.c), how it is made    *)
(* (ns_hal_init.c) and stopped, its mutex and its semaphores. The main      *)
(* thread is the application's. The mutex is recursive: the loop holds it   *)
(* whenever it dispatches, and the handlers take it a second time.          *)
(***************************************************************************)
EXTENDS Integers, Sequences, SequencesExt

CONSTANTS
    MaxSignals,     \* the semaphore counts no further
    Careless        \* the rules that the callers of this module may break

Rules == {"stop_early", "use_after_stop", "own_periodic", "own_dtls",
          "other_thread", "start_twice"}

ASSUME BoundsAssumption == MaxSignals \in Nat \ {0} /\ Careless \subseteq Rules

VARIABLES
    mutex,          \* event_mutex_id: [owner, depth]
    signal,         \* event_signal_sema_id
    started,        \* event_start_sema_id
    stopped,        \* event_stop_sema_id
    stop_loop,      \* event_stop_loop
    queue,          \* the events of the event loop
    loop,           \* the loop's thread: [at, id, timer]
    main            \* the application's thread: [at, timer]

threads == <<mutex, signal, started, stopped, stop_loop, queue, loop, main>>

LoopPlaces == {"none", "created", "starting", "enter", "check", "dispatch",
               "idle", "wait", "relock", "stopping", "ended",
               "lookup", "expire", "told", "after", "restart"}
MainPlaces == {"init", "start", "up", "stop_signal", "join", "down",
               "ctor", "ctor_signal", "ctor_add", "dtor", "dtor_erase"}

NoOne == [owner |-> "none", depth |-> 0]

LoopAt(p) == loop.at = p
MainAt(p) == main.at = p
LoopTo(p) == loop' = [loop EXCEPT !.at = p]
MainTo(p) == main' = [main EXCEPT !.at = p]
LoopGoesOn == loop' = [at |-> "check", id |-> 0, timer |-> 0]
MainGoesOn == main' = [at |-> "up", timer |-> 0]

Raised(s) == IF s < MaxSignals THEN s + 1 ELSE s

Free == mutex.owner = "none"

eventOS_scheduler_mutex_wait(t) ==
    /\ mutex.owner \in {"none", t}
    /\ mutex' = [owner |-> t, depth |-> mutex.depth + 1]

eventOS_scheduler_mutex_release ==
    mutex' = IF mutex.depth = 1 THEN NoOne ELSE [mutex EXCEPT !.depth = @ - 1]

ThreadInit ==
    /\ mutex = NoOne
    /\ signal = 0
    /\ started = 0
    /\ stopped = 0
    /\ stop_loop = FALSE
    /\ queue = << >>
    /\ loop = [at |-> "none", id |-> 0, timer |-> 0]
    /\ main = [at |-> "init", timer |-> 0]

-----------------------------------------------------------------------------
(* The main thread: ns_hal_init makes the thread and starts it.            *)

ns_event_loop_thread_create ==
    /\ MainAt("init")
    /\ signal' = 1
    /\ LoopTo("created")
    /\ MainTo("start")
    /\ UNCHANGED <<mutex, started, stopped, stop_loop, queue>>

ns_event_loop_thread_start ==
    /\ MainAt("start")
    /\ started' = started + 1
    /\ MainTo("up")
    /\ UNCHANGED <<mutex, signal, stopped, stop_loop, queue, loop>>

\* ns_event_loop_thread_stop: the request, the signal, and the join. A careful
\* caller does not stop a thread that has not begun to run.
RequestStop ==
    /\ MainAt("up")
    /\ "stop_early" \in Careless \/ ~LoopAt("created")
    /\ stop_loop' = TRUE
    /\ MainTo("stop_signal")
    /\ UNCHANGED <<mutex, signal, started, stopped, queue, loop>>

SignalStop ==
    /\ MainAt("stop_signal")
    /\ signal' = Raised(signal)
    /\ MainTo("join")
    /\ UNCHANGED <<mutex, started, stopped, stop_loop, queue, loop>>

Join ==
    /\ MainAt("join")
    /\ stopped > 0
    /\ stopped' = stopped - 1
    /\ MainTo("down")
    /\ UNCHANGED <<mutex, signal, started, stop_loop, queue, loop>>

-----------------------------------------------------------------------------
(* event_loop_thread.                                                      *)

LoopBegins ==
    /\ LoopAt("created")
    /\ stop_loop' = FALSE
    /\ LoopTo("starting")
    /\ UNCHANGED <<mutex, signal, started, stopped, queue, main>>

LoopStarts ==
    /\ LoopAt("starting")
    /\ started > 0
    /\ started' = started - 1
    /\ LoopTo("enter")
    /\ UNCHANGED <<mutex, signal, stopped, stop_loop, queue, main>>

\* The mutex is taken before the loop, and again at the end of
\* eventOS_scheduler_idle.
LoopLocks ==
    /\ loop.at \in {"enter", "relock"}
    /\ eventOS_scheduler_mutex_wait("loop")
    /\ LoopTo("check")
    /\ UNCHANGED <<signal, started, stopped, stop_loop, queue, main>>

LoopChecks ==
    /\ LoopAt("check")
    /\ LoopTo(IF stop_loop THEN "stopping" ELSE "dispatch")
    /\ UNCHANGED <<mutex, signal, started, stopped, stop_loop, queue, main>>

\* eventOS_scheduler_dispatch_event: the first event, or FALSE.
Dispatch ==
    /\ LoopAt("dispatch")
    /\ IF queue = << >>
       THEN LoopTo("idle") /\ UNCHANGED queue
       ELSE /\ loop' = [loop EXCEPT !.at = "lookup", !.id = Head(queue)]
            /\ queue' = Tail(queue)
    /\ UNCHANGED <<mutex, signal, started, stopped, stop_loop, main>>

\* eventOS_scheduler_idle.
Idle ==
    /\ LoopAt("idle")
    /\ eventOS_scheduler_mutex_release
    /\ LoopTo("wait")
    /\ UNCHANGED <<signal, started, stopped, stop_loop, queue, main>>

LoopWakes ==
    /\ LoopAt("wait")
    /\ signal > 0
    /\ signal' = signal - 1
    /\ LoopTo("relock")
    /\ UNCHANGED <<mutex, started, stopped, stop_loop, queue, main>>

\* The thread stops the tick timer and ends; it does not release the mutex.
LoopEnds ==
    /\ LoopAt("stopping")
    /\ stopped' = stopped + 1
    /\ LoopTo("ended")
    /\ UNCHANGED <<mutex, signal, started, stop_loop, queue, main>>

ThreadOfLoop == \/ LoopBegins \/ LoopStarts \/ LoopLocks \/ LoopChecks
                \/ Dispatch \/ Idle \/ LoopWakes \/ LoopEnds

ThreadOfMain == \/ ns_event_loop_thread_create \/ ns_event_loop_thread_start
                \/ RequestStop \/ SignalStop \/ Join

Stopping == main.at \in {"stop_signal", "join", "down"}
=============================================================================
