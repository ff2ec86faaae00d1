------------------------------- MODULE M2MTimer -------------------------------
(***************************************************************************)
(* The timers of the LWM2M client (m2mtimerpimpl.cpp) on the event loop and *)
(* its thread. A timer is known to the event loop by its number; an        *)
(* interval that is too long for one request is counted down in pieces.     *)
(* The event loop is used through what EventLoop checks: requests expire    *)
(* in order, none early, and become events of the queue.                    *)
(*                                                                         *)
(* Timers are made and destroyed by the application's thread, and started   *)
(* and stopped on the loop's thread, by observers and by other tasklets.    *)
(***************************************************************************)
EXTENDS EventLoopThread

CONSTANTS
    Timers,         \* objects
    MaxPiece,       \* INT32_MAX, the longest interval of one request
    Period,         \* TIMER_SYS_TICK_PERIOD, in milliseconds
    IdMod,          \* the numbers of timers, 256 of an 8 bit counter
    MaxCreated,     \* bound on the timers made
    Modes           \* how each timer is started: single shot, periodic or DTLS

ASSUME TimerAssumption ==
    /\ MaxPiece \in Nat \ {0} /\ Period \in Nat \ {0} /\ IdMod \in Nat \ {0}
    /\ MaxCreated \in Nat
    /\ \A t \in Timers : \A m \in Modes[t] :
          /\ m \in [kind : {"single", "periodic", "dtls"}, ms : Nat, total : Nat]
          /\ m.ms <= m.total

VARIABLES
    timers,         \* the objects
    impl_list,      \* timer_impl_list
    created,        \* how many timers were made: _next_timer_id
    requests,       \* the requests that the event loop counts down: [id, ticks]
    due             \* ticks until the observer is to be told, or Never

vars == <<threads, timers, impl_list, created, requests, due>>

Never     == [running |-> FALSE, ticks |-> 0]
After(ms) == [running |-> TRUE, ticks |-> (ms + Period - 1) \div Period]

InitEvent == -1     \* the first event of the tasklet, of another type than the timers'

\* A timer's number is an int8_t, an event's a uint8_t.
Int8(n)  == LET u == n % IdMod IN IF u >= IdMod \div 2 THEN u - IdMod ELSE u
UInt8(n) == n % IdMod

NoTimer == [is |-> "none", id |-> 0, single |-> TRUE, dtls |-> FALSE, interval |-> 0,
            rest |-> 0, left |-> 0, status |-> 0]

MaxInterval == Max({m.total : m \in UNION {Modes[t] : t \in Timers}})

TypeOK ==
    /\ mutex.owner \in {"none", "main", "loop"}
    /\ mutex.depth \in 0..1
    /\ signal \in 0..MaxSignals
    /\ loop.at \in LoopPlaces
    /\ main.at \in MainPlaces
    /\ timers \in [Timers -> [is : {"none", "live", "dying", "gone"}, id : -IdMod..IdMod,
            single : BOOLEAN, dtls : BOOLEAN, interval : 0..MaxInterval,
            rest : 0..MaxInterval, left : 0..MaxInterval, status : 0..2]]
    /\ \A k \in 1..Len(requests) : requests[k].ticks > 0
    /\ created \in 0..MaxCreated

Init == /\ ThreadInit
        /\ timers = [t \in Timers |-> NoTimer]
        /\ impl_list = << >>
        /\ created = 0
        /\ requests = << >>
        /\ due = [t \in Timers |-> Never]

-----------------------------------------------------------------------------
(* Requests to the event loop.                                             *)

\* eventOS_event_timer_request: milliseconds become ticks.
Ticks(ms) == IF ms > 2 * Period THEN ms \div Period + 1 ELSE 2

Requested(r, id, ms) == Append(r, [id |-> UInt8(id), ticks |-> Ticks(ms)])

\* eventOS_event_timer_cancel: the first request of that number, or else the
\* first event; only one of them.
eventOS_event_timer_cancel(id) ==
    LET mine    == {r \in ToSet(requests) : r.id = UInt8(id)}
        soonest == CHOOSE r \in mine : \A s \in mine : r.ticks <= s.ticks
    IN  IF mine # {}
        THEN [requests |-> RemoveFirst(requests, soonest), queue |-> queue]
        ELSE [requests |-> requests, queue |-> RemoveFirst(queue, UInt8(id))]

-----------------------------------------------------------------------------
(* start_timer, start_dtls_timer and stop_timer of an object, and what      *)
(* they request.                                                           *)

\* start_timer and start_dtls_timer, up to start.
Set(o, mode) ==
    [o EXCEPT !.dtls = (mode.kind = "dtls"), !.single = (mode.kind = "single"), !.status = 0,
              !.interval = mode.ms, !.rest = mode.total - mode.ms,
              !.left = IF mode.kind = "dtls" THEN @ ELSE 0]


\* start: the first piece of the interval; the rest is left.
start(o) == [o EXCEPT !.left = IF o.interval > MaxPiece THEN o.interval - MaxPiece ELSE @]
FirstPiece(o) == IF o.interval > MaxPiece THEN MaxPiece ELSE o.interval

Started(t, o, r) ==
    /\ timers' = [timers EXCEPT ![t] = start(o)]
    /\ requests' = Requested(r, o.id, FirstPiece(o))
    /\ due' = [due EXCEPT ![t] = After(o.interval)]

Cleared(o) == [o EXCEPT !.interval = 0, !.single = TRUE, !.left = 0]

stop_timer(t) ==
    LET c == eventOS_event_timer_cancel(timers[t].id)
    IN  /\ timers' = [timers EXCEPT ![t] = Cleared(@)]
        /\ requests' = c.requests
        /\ queue' = c.queue
        /\ due' = [due EXCEPT ![t] = Never]

\* stop_timer and start_timer in a row, as most callers do.
restart_timer(t, mode) ==
    LET c == eventOS_event_timer_cancel(timers[t].id)
    IN  /\ Started(t, Set(Cleared(timers[t]), mode), c.requests)
        /\ queue' = c.queue

-----------------------------------------------------------------------------
(* The constructor and the destructor, on the application's thread.        *)

Construct(t) ==
    /\ MainAt("up")
    /\ timers[t].is = "none"
    /\ created < MaxCreated
    /\ main' = [at |-> "ctor", timer |-> t]
    /\ UNCHANGED <<mutex, signal, started, stopped, stop_loop, queue, loop,
                   timers, impl_list, created, requests, due>>

\* The first timer makes the tasklet, which sends it an event.
CtorLocks ==
    /\ MainAt("ctor")
    /\ eventOS_scheduler_mutex_wait("main")
    /\ IF created = 0 THEN queue' = Append(queue, InitEvent) /\ MainTo("ctor_signal")
                      ELSE UNCHANGED queue /\ MainTo("ctor_add")
    /\ UNCHANGED <<signal, started, stopped, stop_loop, loop,
                   timers, impl_list, created, requests, due>>

\* Mutant: the event of the new tasklet is queued, and the loop is not woken.
CtorSignalsNot ==
    /\ MainAt("ctor_signal")
    /\ MainTo("ctor_add")
    /\ UNCHANGED <<mutex, signal, started, stopped, stop_loop, queue, loop,
                   timers, impl_list, created, requests, due>>

CtorSignals ==
    /\ MainAt("ctor_signal")
    /\ signal' = Raised(signal)
    /\ MainTo("ctor_add")
    /\ UNCHANGED <<mutex, started, stopped, stop_loop, queue, loop,
                   timers, impl_list, created, requests, due>>

CtorAdds ==
    /\ MainAt("ctor_add")
    /\ timers' = [timers EXCEPT ![main.timer] =
                     [NoTimer EXCEPT !.is = "live", !.id = Int8(created + 1)]]
    /\ created' = created + 1
    /\ impl_list' = Append(impl_list, main.timer)
    /\ eventOS_scheduler_mutex_release
    /\ MainGoesOn
    /\ UNCHANGED <<signal, started, stopped, stop_loop, queue, loop, requests, due>>

Destroy(t) ==
    /\ MainAt("up") \/ (MainAt("down") /\ "use_after_stop" \in Careless)
    /\ timers[t].is = "live"
    /\ LET c == eventOS_event_timer_cancel(timers[t].id)
       IN  requests' = c.requests /\ queue' = c.queue
    /\ timers' = [timers EXCEPT ![t].is = "dying"]
    /\ due' = [due EXCEPT ![t] = Never]
    /\ main' = [at |-> "dtor", timer |-> t]
    /\ UNCHANGED <<mutex, signal, started, stopped, stop_loop, loop, impl_list, created>>

\* Mutant: the list is changed without the mutex.
DtorErasesUnlocked ==
    /\ MainAt("dtor")
    /\ impl_list' = RemoveFirstMatch(impl_list, LAMBDA t : timers[t].id = timers[main.timer].id)
    /\ timers' = [timers EXCEPT ![main.timer] = [NoTimer EXCEPT !.is = "gone"]]
    /\ MainGoesOn
    /\ UNCHANGED <<mutex, signal, started, stopped, stop_loop, queue, loop, created, requests, due>>

\* The object is found by its number, and its memory is free afterwards.
DtorErases ==
    /\ MainAt("dtor")
    /\ Free
    /\ impl_list' = RemoveFirstMatch(impl_list, LAMBDA t : timers[t].id = timers[main.timer].id)
    /\ timers' = [timers EXCEPT ![main.timer] = [NoTimer EXCEPT !.is = "gone"]]
    /\ MainGoesOn
    /\ UNCHANGED <<mutex, signal, started, stopped, stop_loop, queue, loop, created, requests, due>>

-----------------------------------------------------------------------------
(* tasklet_func, on the loop's thread.                                     *)

Lookup ==
    /\ LoopAt("lookup")
    /\ LET i == SelectInSeq(impl_list, LAMBDA t : timers[t].id = loop.id)
       IN  IF loop.id = InitEvent \/ i = 0
           THEN LoopGoesOn
           ELSE loop' = [loop EXCEPT !.at = "expire", !.timer = impl_list[i]]
    /\ UNCHANGED <<mutex, signal, started, stopped, stop_loop, queue, main,
                   timers, impl_list, created, requests, due>>

Mine == timers[loop.timer]

\* start_still_left_timer: the next piece of a long interval.
StartStillLeft ==
    /\ LoopAt("expire")
    /\ Mine.left > 0
    /\ LET piece == IF Mine.left > MaxPiece THEN MaxPiece ELSE Mine.left
       IN  /\ timers' = [timers EXCEPT ![loop.timer].left = @ - piece]
           /\ requests' = Requested(requests, Mine.id, piece)
    /\ LoopGoesOn
    /\ UNCHANGED <<mutex, signal, started, stopped, stop_loop, queue, main,
                   impl_list, created, due>>

\* When the observer is to be told next: a timer's mode says it, not what the
\* code does after the observer returns.
DueNext == CASE Mine.dtls /\ Mine.status = 0   -> After(Mine.rest)
             [] ~Mine.dtls /\ ~Mine.single     -> After(Mine.interval)
             [] OTHER                          -> Never

\* timer_expired, up to the call of the observer.
TimerExpired ==
    /\ LoopAt("expire")
    /\ Mine.left = 0
    /\ timers' = [timers EXCEPT ![loop.timer].status = IF @ < 2 THEN @ + 1 ELSE @]
    /\ due' = [due EXCEPT ![loop.timer] = IF Mine.is = "live" THEN DueNext ELSE Never]
    /\ LoopTo("told")
    /\ UNCHANGED <<mutex, signal, started, stopped, stop_loop, queue, main,
                   impl_list, created, requests>>

\* What an observer does with its own timer when it is told.
Observer ==
    /\ LoopAt("told")
    /\ \/ UNCHANGED <<timers, requests, queue, due>>
       \/ /\ Mine.is = "live"
          /\ ~Mine.dtls \/ "own_dtls" \in Careless
          /\ stop_timer(loop.timer)
       \/ /\ Mine.is = "live"
          /\ \E mode \in Modes[loop.timer] :
                /\ mode.kind = "single" \/ "own_periodic" \in Careless
                /\ restart_timer(loop.timer, mode)
    /\ LoopTo("after")
    /\ UNCHANGED <<mutex, signal, started, stopped, stop_loop, main, impl_list, created>>

\* The end of timer_expired. A timer that is being destroyed is started too.
StartsAgain == IF Mine.dtls THEN Mine.status <= 1 ELSE ~Mine.single

AfterObserver ==
    /\ LoopAt("after")
    /\ IF StartsAgain THEN LoopTo("restart") ELSE LoopGoesOn
    /\ UNCHANGED <<mutex, signal, started, stopped, stop_loop, queue, main,
                   timers, impl_list, created, requests, due>>

RestartTimer ==
    /\ LoopAt("restart")
    /\ LET o == IF Mine.dtls THEN [Mine EXCEPT !.interval = Mine.rest] ELSE Mine
       IN  /\ timers' = [timers EXCEPT ![loop.timer] = start(o)]
           /\ requests' = Requested(requests, o.id, FirstPiece(o))
    /\ LoopGoesOn
    /\ UNCHANGED <<mutex, signal, started, stopped, stop_loop, queue, main,
                   impl_list, created, due>>

-----------------------------------------------------------------------------
(* Other tasklets on the loop's thread, and threads that should not.       *)

Uses(t) ==
    /\ timers[t].is = "live"
    /\ \/ stop_timer(t)
       \/ \E mode \in Modes[t] : restart_timer(t, mode)
       \/ \E mode \in Modes[t] :
             /\ due[t] = Never \/ "start_twice" \in Careless
             /\ Started(t, Set(timers[t], mode), requests)
             /\ UNCHANGED queue
    /\ UNCHANGED <<mutex, signal, started, stopped, stop_loop, loop, main, impl_list, created>>

OnItsThread == LoopAt("dispatch") \/ ("other_thread" \in Careless /\ MainAt("up"))

OtherTasklet == OnItsThread /\ \E t \in Timers : Uses(t)

-----------------------------------------------------------------------------
(* The tick timer. system_timer_tick_update holds the lock until the        *)
(* events are queued and signalled.                                        *)

Over      == SelectSeq(requests, LAMBDA r : r.ticks = 1)
CountedOn == LET on == SelectSeq(requests, LAMBDA r : r.ticks > 1)
             IN  [k \in 1..Len(on) |-> [on[k] EXCEPT !.ticks = @ - 1]]
DueSooner == [t \in Timers |-> IF due[t].ticks > 0 THEN [due[t] EXCEPT !.ticks = @ - 1] ELSE due[t]]

\* Mutant: the events are queued, and the loop is not woken.
TickUnsignalled ==
    /\ ~(loop.at \in {"none", "ended"})
    /\ queue' = queue \o [k \in 1..Len(Over) |-> Over[k].id]
    /\ requests' = CountedOn
    /\ due' = DueSooner
    /\ UNCHANGED <<mutex, signal, started, stopped, stop_loop, loop, main, timers, impl_list, created>>

Tick ==
    /\ ~(loop.at \in {"none", "ended"})
    /\ queue' = queue \o [k \in 1..Len(Over) |-> Over[k].id]
    /\ signal' = CASE Over = << >>  -> signal
                   [] Len(Over) = 1 -> Raised(signal)
                   [] OTHER         -> Raised(Raised(signal))
    /\ requests' = CountedOn
    /\ due' = DueSooner
    /\ UNCHANGED <<mutex, started, stopped, stop_loop, loop, main, timers, impl_list, created>>

-----------------------------------------------------------------------------

LoopStep ==
    \/ ThreadOfLoop /\ UNCHANGED <<timers, impl_list, created, requests, due>>
    \/ Lookup \/ StartStillLeft \/ TimerExpired \/ Observer
    \/ AfterObserver \/ RestartTimer

MainStep ==
    \/ ThreadOfMain /\ UNCHANGED <<timers, impl_list, created, requests, due>>
    \/ CtorLocks \/ CtorSignals \/ CtorAdds \/ DtorErases

Next == \/ LoopStep \/ MainStep \/ Tick
        \/ OtherTasklet
        \/ \E t \in Timers : Construct(t) \/ Destroy(t)

Spec == Init /\ [][Next]_vars

\* The threads run, time passes, and who waits for the mutex gets it.
FairSpec == /\ Spec
            /\ WF_vars(LoopStep)
            /\ SF_vars(LoopLocks /\ UNCHANGED <<timers, impl_list, created, requests, due>>)
            /\ WF_vars(Tick)
            /\ WF_vars(~MainAt("up") /\ MainStep)
            /\ SF_vars(CtorLocks \/ DtorErases)

-----------------------------------------------------------------------------
(* Properties.                                                             *)

\* The loop never sleeps while an event is queued and no signal is on its way.
NoLostSignal ==
    (loop.at \in {"idle", "wait"} /\ queue # << >>) => signal > 0 \/ MainAt("ctor_signal")

\* tasklet_func and timer_expired use only timers whose memory is not free,
\* although the mutex is released as soon as the timer is found: the loop
\* still holds it once.
UsedWhileAlive ==
    loop.at \in {"expire", "told", "after", "restart"} => timers[loop.timer].is \in {"live", "dying"}

\* No observer is told before its interval is over, nor after stop_timer; the
\* pieces of a long interval add up.
NeverEarly ==
    (LoopAt("expire") /\ Mine.left = 0 /\ Mine.is = "live") => due[loop.timer] = [running |-> TRUE, ticks |-> 0]

InHand(t) == \/ LoopAt("lookup") /\ loop.id = UInt8(timers[t].id)
             \/ loop.at \in {"expire", "restart"} /\ loop.timer = t
             \/ loop.at \in {"told", "after"} /\ loop.timer = t /\ StartsAgain

\* A timer that runs has one request or one event, and a timer that does not
\* run has none.
OnePending ==
    \A t \in Timers : timers[t].is = "live" =>
        LET id == UInt8(timers[t].id)
        IN  Len(SelectSeq(requests, LAMBDA r : r.id = id)) + Len(SelectSeq(queue, LAMBDA e : e = id))
            + (IF InHand(t) THEN 1 ELSE 0) = IF due[t].running THEN 1 ELSE 0

\* An observer whose interval is over is told, or the timer is stopped, started
\* again or destroyed.
DueIsTold ==
    \A t \in Timers : due[t] = [running |-> TRUE, ticks |-> 0] ~>
                      (due[t] # [running |-> TRUE, ticks |-> 0] \/ Stopping)

\* ns_event_loop_thread_stop, the constructor and the destructor return, if the
\* loop is idle again and again: they wait for the mutex that it gives back then.
CallsReturn ==
    []<>(loop.at \in {"wait", "ended"}) =>
    main.at \in MainPlaces \ {"up", "down"} ~> main.at \in {"up", "down"}

\* stop_timer "cancels the ongoing timer". (Violated when an observer starts
\* its own timer again as a periodic one, as the registration timer's does: the
\* timer has two requests then, and one is cancelled.)
StopCancels ==
    \A t \in Timers : timers[t].is = "live" /\ due[t] = Never =>
        ~(LoopAt("expire") /\ loop.timer = t /\ Mine.left = 0)
=============================================================================
