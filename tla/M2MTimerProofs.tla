--------------------------- MODULE M2MTimerProofs ---------------------------
(***************************************************************************)
(* The threads of the event loop and of the application, and the timers    *)
(* they share: no event waits without a signal, and no timer is used after *)
(* its memory is free, for any timers and intervals, and whatever rules    *)
(* their users break, as long as the numbers of timers do not wrap.        *)
(*                                                                         *)
(* The argument is about who holds the mutex.  The loop holds it from when *)
(* it locks it until it is idle, a constructor from when it locks it until *)
(* the timer is on impl_list.  A destructor takes its timer off the list,  *)
(* by its number, while nobody holds the mutex, so that the loop, which    *)
(* found its timer on the list, has not lost it meanwhile.                 *)
(***************************************************************************)
EXTENDS M2MTimer, ListLemmas

LEMMA PositiveConstants ==
  MaxPiece \in Nat \ {0} /\ IdMod \in Nat \ {0} /\ MaxCreated \in Nat /\ MaxSignals \in Nat \ {0}
BY TimerAssumption, BoundsAssumption

-----------------------------------------------------------------------------
(* Signals *)

LEMMA RaisedIsPositive ==
  ASSUME NEW s \in Nat
  PROVE  Raised(s) \in Nat /\ Raised(s) > 0
BY PositiveConstants DEF Raised

\* Cancelling takes nothing but events off the queue.
LEMMA CancelLeavesEmpty ==
  ASSUME NEW id, queue = << >>
  PROVE  eventOS_event_timer_cancel(id).queue = << >>
<1>1. \A e : RemoveFirst(<< >>, e) = << >>
  BY DEF RemoveFirst
<1> QED
  BY <1>1 DEF eventOS_event_timer_cancel

SignalInv ==
    /\ signal \in Nat /\ "at" \in DOMAIN loop /\ "at" \in DOMAIN main
    /\ NoLostSignal

\* A step that takes nothing from the semaphore, and puts an event in an empty
\* queue only with a signal.
LEMMA BesideKeeps ==
  ASSUME SignalInv, UNCHANGED <<signal, main>>, queue = << >> => queue' = << >>,
         "at" \in DOMAIN loop', loop'.at \in {"idle", "wait"} => loop.at \in {"idle", "wait"}
  PROVE  SignalInv'
BY DEF SignalInv, NoLostSignal, MainAt

LEMMA ThreadKeepsSignal ==
  ASSUME SignalInv, ThreadOfLoop \/ ThreadOfMain
  PROVE  SignalInv'
<1> USE DEF SignalInv, NoLostSignal, LoopAt, MainAt, LoopTo, MainTo
<1>1. CASE ThreadOfMain
  BY <1>1, RaisedIsPositive
     DEF ThreadOfMain, ns_event_loop_thread_create, ns_event_loop_thread_start, RequestStop, SignalStop, Join
<1>2. CASE LoopWakes
  BY <1>2 DEF LoopWakes
<1>3. CASE LoopBegins \/ LoopStarts \/ LoopLocks \/ LoopChecks
  BY <1>3 DEF LoopBegins, LoopStarts, LoopLocks, LoopChecks
<1>4. CASE Dispatch \/ Idle \/ LoopEnds
  BY <1>4 DEF Dispatch, Idle, LoopEnds
<1> QED
  BY <1>1, <1>2, <1>3, <1>4 DEF ThreadOfLoop

LEMMA TickKeepsSignal ==
  ASSUME SignalInv, Tick
  PROVE  SignalInv'
<1>1. UNCHANGED <<loop, main>>
  BY DEF Tick
<1>2. signal \in Nat /\ Raised(signal) \in Nat /\ Raised(signal) > 0
      /\ Raised(Raised(signal)) \in Nat /\ Raised(Raised(signal)) > 0
  BY RaisedIsPositive DEF SignalInv
<1>3. CASE Over = << >>
  <2>1. signal' = signal /\ queue' = queue \o [k \in 1 .. Len(Over) |-> Over[k].id]
    BY <1>3 DEF Tick
  <2>2. [k \in 1 .. Len(<< >>) |-> Over[k].id] = << >>
    OBVIOUS
  <2>3. queue = << >> => queue' = << >>
    BY <1>3, <2>1, <2>2
  <2> QED
    BY <1>1, <2>1, <2>3, BesideKeeps DEF SignalInv
<1>4. CASE Over # << >>
  <2>1. signal' \in Nat /\ signal' > 0
    BY <1>2, <1>4 DEF Tick
  <2> QED
    BY <1>1, <2>1 DEF SignalInv, NoLostSignal
<1> QED
  BY <1>3, <1>4

LEMMA SignalStep == SignalInv /\ [Next]_vars => SignalInv'
<1> SUFFICES ASSUME SignalInv, [Next]_vars PROVE SignalInv'
  OBVIOUS
<1>1. \A t : (stop_timer(t) \/ \E mode : restart_timer(t, mode)) => (queue = << >> => queue' = << >>)
  BY CancelLeavesEmpty DEF stop_timer, restart_timer
<1>2. CASE OtherTasklet
  <2>1. UNCHANGED <<signal, main, loop>> /\ (queue = << >> => queue' = << >>)
    BY <1>1, <1>2 DEF OtherTasklet, Uses
  <2> QED
    BY <2>1, BesideKeeps DEF SignalInv
<1>3. CASE Lookup \/ StartStillLeft \/ TimerExpired \/ Observer \/ AfterObserver \/ RestartTimer
  <2>1. UNCHANGED <<signal, main>> /\ (queue = << >> => queue' = << >>)
    BY <1>1, <1>3 DEF Lookup, StartStillLeft, TimerExpired, Observer, AfterObserver, RestartTimer
  <2> DEFINE Goes == "at" \in DOMAIN loop' /\ loop'.at \in {"check", "expire", "told", "after", "restart"}
  <2>2. CASE Lookup
    <3>1. PICK t : LoopGoesOn \/ loop' = [loop EXCEPT !.at = "expire", !.timer = t]
      BY <2>2 DEF Lookup
    <3>2. ASSUME LoopGoesOn PROVE Goes
      BY <3>2 DEF LoopGoesOn
    <3>3. ASSUME loop' = [loop EXCEPT !.at = "expire", !.timer = t] PROVE Goes
      <4> DEFINE l == [loop EXCEPT !.at = "expire"]
      <4>1. "at" \in DOMAIN l /\ l.at = "expire"
        BY DEF SignalInv
      <4> HIDE DEF l
      <4>2. "at" \in DOMAIN [l EXCEPT !.timer = t] /\ [l EXCEPT !.timer = t].at = "expire"
        BY <4>1
      <4> QED
        BY <3>3, <4>2 DEF l
    <3>4. Goes
      BY <3>1, <3>2, <3>3
    <3> QED
      BY <2>1, <3>4, BesideKeeps
  <2>3. CASE StartStillLeft \/ RestartTimer
    <3>1. Goes
      BY <2>3 DEF StartStillLeft, RestartTimer, LoopGoesOn, LoopTo, SignalInv
    <3> QED
      BY <2>1, <3>1, BesideKeeps
  <2>4. CASE TimerExpired \/ Observer \/ AfterObserver
    <3>1. Goes
      BY <2>4 DEF TimerExpired, Observer, AfterObserver, LoopGoesOn, LoopTo, SignalInv
    <3> QED
      BY <2>1, <3>1, BesideKeeps
  <2> QED
    BY <1>3, <2>2, <2>3, <2>4
<1>4. CASE CtorLocks \/ CtorSignals \/ CtorAdds \/ DtorErases
  BY <1>4, RaisedIsPositive DEF CtorLocks, CtorSignals, CtorAdds, DtorErases, MainTo, MainGoesOn, MainAt,
                                SignalInv, NoLostSignal
<1>5. CASE \E t \in Timers : Construct(t) \/ Destroy(t)
  <2>1. /\ UNCHANGED <<signal, loop>> /\ main.at \in {"up", "down"} /\ "at" \in DOMAIN main'
        /\ queue = << >> => queue' = << >>
    BY <1>5, CancelLeavesEmpty DEF Construct, Destroy, MainAt
  <2> QED
    BY <2>1 DEF SignalInv, NoLostSignal, MainAt
<1>6. CASE UNCHANGED vars
  BY <1>6 DEF vars, threads, SignalInv, NoLostSignal, MainAt
<1> QED
  BY <1>2, <1>3, <1>4, <1>5, <1>6, ThreadKeepsSignal, TickKeepsSignal DEF Next, LoopStep, MainStep

\* The loop's thread never sleeps on its semaphore while an event is queued
\* and no signal is on its way, however many timers there are and whatever
\* rules their users break.
THEOREM NoSignalIsLost == Spec => []NoLostSignal
<1>1. Init => SignalInv
  BY DEF Init, ThreadInit, SignalInv, NoLostSignal
<1>2. SignalInv => NoLostSignal
  BY DEF SignalInv
<1> QED
  BY <1>1, <1>2, SignalStep, PTL DEF Spec

-----------------------------------------------------------------------------
(* Timers *)

\* The numbers of timers are not used twice.
NumbersAreUnique == MaxCreated <= IdMod

LoopHolds == {"check", "dispatch", "idle", "stopping", "ended",
              "lookup", "expire", "told", "after", "restart"}
MainHolds == {"ctor_signal", "ctor_add"}
UsePlaces == {"expire", "told", "after", "restart"}

\* The fields of an object that the argument is about.
IsObject(o) == {"is", "id"} \subseteq DOMAIN o

Types ==
    /\ created \in Nat
    /\ DOMAIN loop = {"at", "id", "timer"} /\ loop.at \in LoopPlaces
    /\ DOMAIN main = {"at", "timer"} /\ main.at \in MainPlaces
    /\ DOMAIN timers = Timers /\ \A t \in Timers : IsObject(timers[t])
    /\ impl_list \in Seq(Timers)

Mutual ==
    /\ mutex \in [owner : {"none", "main", "loop"}, depth : 0 .. 1]
    /\ mutex.owner = "none" <=> mutex.depth = 0
    /\ mutex.owner = "loop" <=> loop.at \in LoopHolds
    /\ mutex.owner = "main" <=> main.at \in MainHolds
    /\ main.at = "init" => loop.at = "none"

Alive(t) == timers[t].is \in {"live", "dying"}

Numbered ==
    /\ \A t \in Timers : Alive(t) => \E n \in 1 .. created : timers[t].id = Int8(n)
    /\ \A t, u \in Timers : Alive(t) /\ Alive(u) /\ timers[t].id = timers[u].id => t = u
    /\ created <= MaxCreated

Listed ==
    /\ \A i \in DOMAIN impl_list : Alive(impl_list[i])
    /\ \A i, j \in DOMAIN impl_list : impl_list[i] = impl_list[j] => i = j

MakesOne ==
    /\ main.at \in {"ctor", "ctor_signal", "ctor_add"} =>
         main.timer \in Timers /\ timers[main.timer].is = "none" /\ created < MaxCreated
    /\ main.at = "dtor" => main.timer \in Timers /\ timers[main.timer].is = "dying"

UsesOne == loop.at \in UsePlaces => loop.timer \in Timers /\ Alive(loop.timer)

TimerIInv == Types /\ Mutual /\ Numbered /\ Listed /\ MakesOne /\ UsesOne

-----------------------------------------------------------------------------
(* What the operators do to an object *)

LEMMA StartKeeps ==
  ASSUME NEW o, IsObject(o)
  PROVE  IsObject(start(o)) /\ start(o).is = o.is /\ start(o).id = o.id
BY DEF IsObject, start

LEMMA ClearedKeeps ==
  ASSUME NEW o, IsObject(o)
  PROVE  IsObject(Cleared(o)) /\ Cleared(o).is = o.is /\ Cleared(o).id = o.id
BY DEF IsObject, Cleared

LEMMA SetKeeps ==
  ASSUME NEW mode, NEW o, IsObject(o)
  PROVE  IsObject(Set(o, mode)) /\ Set(o, mode).is = o.is /\ Set(o, mode).id = o.id
BY DEF IsObject, Set

\* The numbers 1 .. IdMod are told apart by what an int8_t keeps of them.
LEMMA Int8IsInjective ==
  ASSUME NEW m \in 1 .. IdMod, NEW n \in 1 .. IdMod, Int8(m) = Int8(n)
  PROVE  m = n
<1>1. IdMod \in Nat \ {0}
  BY PositiveConstants
<1>2. \A k \in 1 .. IdMod : k % IdMod = IF k = IdMod THEN 0 ELSE k
  BY <1>1
<1>3. m % IdMod \in 0 .. IdMod - 1 /\ n % IdMod \in 0 .. IdMod - 1
  BY <1>1, <1>2
<1>4. m % IdMod = n % IdMod
  <2> DEFINE u == m % IdMod
             v == n % IdMod
             h == IdMod \div 2
  <2>1. (IF u >= h THEN u - IdMod ELSE u) = (IF v >= h THEN v - IdMod ELSE v)
    BY DEF Int8
  <2> HIDE DEF u, v, h
  <2>2. u \in 0 .. IdMod - 1 /\ v \in 0 .. IdMod - 1
    BY <1>3 DEF u, v
  <2>3. u = v
    BY <1>1, <2>1, <2>2
  <2> QED
    BY <2>3 DEF u, v
<1> QED
  BY <1>1, <1>2, <1>4

\* Steps that leave the numbers of timers, and which are alive, as they are.
SameTimers ==
  /\ DOMAIN timers' = Timers /\ \A t \in Timers : IsObject(timers'[t])
  /\ \A t \in Timers : timers'[t].is = timers[t].is /\ timers'[t].id = timers[t].id
  /\ UNCHANGED <<impl_list, created>>

LEMMA SameTimersKeep ==
  ASSUME TimerIInv, SameTimers
  PROVE  /\ Numbered' /\ Listed' /\ \A t \in Timers : Alive(t)' <=> Alive(t)
         /\ created' \in Nat /\ impl_list' \in Seq(Timers)
         /\ DOMAIN timers' = Timers /\ \A t \in Timers : IsObject(timers'[t])
<1>1. \A t \in Timers : Alive(t)' <=> Alive(t)
  BY DEF SameTimers, Alive
<1>2. \A i \in DOMAIN impl_list : impl_list[i] \in Timers
  BY DEF TimerIInv, Types
<1>3. Numbered'
  BY <1>1 DEF TimerIInv, Numbered, SameTimers
<1>4. Listed'
  BY <1>1, <1>2 DEF TimerIInv, Listed, SameTimers
<1> QED
  BY <1>1, <1>3, <1>4 DEF SameTimers, TimerIInv, Types

LEMMA UnchangedTimers ==
  ASSUME TimerIInv, UNCHANGED <<timers, impl_list, created>>
  PROVE  SameTimers
BY DEF SameTimers, TimerIInv, Types

-----------------------------------------------------------------------------
(* The threads, apart from the timers *)

LEMMA ThreadStepKeeps ==
  ASSUME TimerIInv, ThreadOfLoop \/ ThreadOfMain, UNCHANGED <<timers, impl_list, created>>
  PROVE  TimerIInv'
<1>1. SameTimers
  BY UnchangedTimers
<1>2. /\ Numbered' /\ Listed' /\ \A t \in Timers : Alive(t)' <=> Alive(t)
      /\ created' \in Nat /\ impl_list' \in Seq(Timers)
      /\ DOMAIN timers' = Timers /\ \A t \in Timers : IsObject(timers'[t])
  BY <1>1, SameTimersKeep
<1> USE DEF TimerIInv, Types, Mutual, MakesOne, UsesOne, LoopAt, MainAt, LoopTo,
            MainTo, LoopHolds, MainHolds, UsePlaces, LoopPlaces, MainPlaces, NoOne,
            eventOS_scheduler_mutex_wait, eventOS_scheduler_mutex_release
<1>3. CASE ns_event_loop_thread_create
  BY <1>2, <1>3 DEF ns_event_loop_thread_create
<1>4. CASE ns_event_loop_thread_start
  BY <1>2, <1>4 DEF ns_event_loop_thread_start
<1>5. CASE RequestStop
  BY <1>2, <1>5 DEF RequestStop
<1>6. CASE SignalStop
  BY <1>2, <1>6 DEF SignalStop
<1>7. CASE Join
  BY <1>2, <1>7 DEF Join
<1>8. CASE LoopBegins
  BY <1>2, <1>8 DEF LoopBegins
<1>9. CASE LoopStarts
  BY <1>2, <1>9 DEF LoopStarts
<1>10. CASE LoopLocks
  BY <1>2, <1>10 DEF LoopLocks
<1>11. CASE LoopChecks
  BY <1>2, <1>11 DEF LoopChecks
<1>12. CASE Dispatch
  BY <1>2, <1>12 DEF Dispatch
<1>13. CASE Idle
  BY <1>2, <1>13 DEF Idle
<1>14. CASE LoopWakes
  BY <1>2, <1>14 DEF LoopWakes
<1>15. CASE LoopEnds
  BY <1>2, <1>15 DEF LoopEnds
<1> QED
  BY <1>3, <1>4, <1>5, <1>6, <1>7, <1>8, <1>9, <1>10, <1>11, <1>12, <1>13, <1>14, <1>15
     DEF ThreadOfLoop, ThreadOfMain

-----------------------------------------------------------------------------
(* The timers *)

LEMMA StartedKeeps ==
  ASSUME TimerIInv, NEW t \in Timers, NEW o, IsObject(o), o.is = timers[t].is, o.id = timers[t].id,
         NEW r, Started(t, o, r), UNCHANGED <<impl_list, created>>
  PROVE  SameTimers
<1>1. IsObject(start(o)) /\ start(o).is = timers[t].is /\ start(o).id = timers[t].id
  BY StartKeeps
<1>2. timers' = [timers EXCEPT ![t] = start(o)]
  BY DEF Started
<1> QED
  BY <1>1, <1>2 DEF SameTimers, TimerIInv, Types

LEMMA StopKeeps ==
  ASSUME TimerIInv, NEW t \in Timers, stop_timer(t), UNCHANGED <<impl_list, created>>
  PROVE  SameTimers
<1>1. IsObject(Cleared(timers[t])) /\ Cleared(timers[t]).is = timers[t].is /\ Cleared(timers[t]).id = timers[t].id
  BY ClearedKeeps DEF TimerIInv, Types
<1>2. timers' = [timers EXCEPT ![t] = Cleared(timers[t])]
  BY DEF stop_timer, TimerIInv, Types
<1> QED
  BY <1>1, <1>2 DEF SameTimers, TimerIInv, Types

LEMMA RestartKeeps ==
  ASSUME TimerIInv, NEW t \in Timers, NEW mode, restart_timer(t, mode), UNCHANGED <<impl_list, created>>
  PROVE  SameTimers
<1> DEFINE o == Set(Cleared(timers[t]), mode)
           c == eventOS_event_timer_cancel(timers[t].id)
<1>1. IsObject(timers[t])
  BY DEF TimerIInv, Types
<1>2. IsObject(o) /\ o.is = timers[t].is /\ o.id = timers[t].id
  BY <1>1, ClearedKeeps, SetKeeps
<1>3. Started(t, o, c.requests)
  BY DEF restart_timer
<1> HIDE DEF o
<1> QED
  BY <1>2, <1>3, StartedKeeps

LEMMA UsesKeeps ==
  ASSUME TimerIInv, NEW t \in Timers, Uses(t)
  PROVE  SameTimers
<1>1. UNCHANGED <<impl_list, created>>
  BY DEF Uses
<1>2. CASE stop_timer(t)
  BY <1>1, <1>2, StopKeeps
<1>3. CASE \E mode \in Modes[t] : restart_timer(t, mode)
  BY <1>1, <1>3, RestartKeeps
<1>4. ASSUME NEW mode \in Modes[t], Started(t, Set(timers[t], mode), requests)
      PROVE  SameTimers
  <2> DEFINE o == Set(timers[t], mode)
  <2>1. IsObject(timers[t])
    BY DEF TimerIInv, Types
  <2>2. IsObject(o) /\ o.is = timers[t].is /\ o.id = timers[t].id
    BY <2>1, SetKeeps
  <2>3. Started(t, o, requests)
    BY <1>4
  <2> HIDE DEF o
  <2> QED
    BY <1>1, <1>4, <2>2, <2>3, StartedKeeps
<1> QED
  BY <1>2, <1>3, <1>4 DEF Uses

\* A step of the loop that keeps the mutex.
LEMMA LoopStepKeeps ==
  ASSUME TimerIInv, SameTimers, UNCHANGED <<mutex, main>>,
         loop.at \in LoopHolds, loop'.at \in LoopHolds, DOMAIN loop' = {"at", "id", "timer"},
         loop'.at \in UsePlaces => loop'.timer \in Timers /\ Alive(loop'.timer)
  PROVE  TimerIInv'
<1>1. /\ Numbered' /\ Listed' /\ \A t \in Timers : Alive(t)' <=> Alive(t)
      /\ created' \in Nat /\ impl_list' \in Seq(Timers)
      /\ DOMAIN timers' = Timers /\ \A t \in Timers : IsObject(timers'[t])
  BY SameTimersKeep
<1>2. Types'
  BY <1>1 DEF TimerIInv, Types, LoopHolds, LoopPlaces
<1>3. Mutual'
  BY DEF TimerIInv, Mutual, LoopHolds
<1>4. MakesOne'
  BY DEF TimerIInv, MakesOne, SameTimers
<1>5. UsesOne'
  <2> SUFFICES ASSUME loop'.at \in UsePlaces
               PROVE  loop'.timer \in Timers /\ timers'[loop'.timer].is \in {"live", "dying"}
    BY DEF UsesOne, Alive
  <2> QED
    BY DEF SameTimers, Alive
<1> QED
  BY <1>1, <1>2, <1>3, <1>4, <1>5 DEF TimerIInv

LEMMA LookupKeeps == TimerIInv /\ Lookup => TimerIInv'
<1> SUFFICES ASSUME TimerIInv, Lookup PROVE TimerIInv'
  OBVIOUS
<1> DEFINE I == {k \in 1 .. Len(impl_list) : timers[impl_list[k]].id = loop.id}
           i == IF I # {} THEN Min(I) ELSE 0
<1>1. /\ LoopAt("lookup") /\ UNCHANGED <<mutex, main, timers, impl_list, created>>
      /\ IF loop.id = InitEvent \/ i = 0 THEN LoopGoesOn
         ELSE loop' = [loop EXCEPT !.at = "expire", !.timer = impl_list[i]]
  BY DEF Lookup, SelectInSeq
<1>2. SameTimers
  BY <1>1, UnchangedTimers
<1>3. CASE LoopGoesOn
  BY <1>1, <1>2, <1>3, LoopStepKeeps DEF LoopAt, LoopGoesOn, LoopHolds, UsePlaces
<1>4. CASE i # 0 /\ loop' = [loop EXCEPT !.at = "expire", !.timer = impl_list[i]]
  <2>1. i \in I
    <3>1. I # {} /\ I \in SUBSET Nat /\ i = Min(I)
      BY <1>4
    <3> HIDE DEF I, i
    <3>2. \E k \in I : \A l \in I : k <= l
      BY <3>1, LeastNumber
    <3> QED
      BY <3>1, <3>2 DEF Min
  <2>2. i \in DOMAIN impl_list /\ impl_list[i] \in Timers /\ Alive(impl_list[i])
    BY <2>1 DEF TimerIInv, Types, Listed
  <2> HIDE DEF i
  <2>3. loop'.at = "expire" /\ loop'.timer = impl_list[i] /\ DOMAIN loop' = {"at", "id", "timer"}
    BY <1>4 DEF TimerIInv, Types
  <2> QED
    BY <1>1, <1>2, <2>2, <2>3, LoopStepKeeps DEF LoopAt, LoopHolds, UsePlaces
<1> QED
  BY <1>1, <1>3, <1>4

\* The loop's other steps with the timer that it found.
LEMMA ExpireKeeps ==
  TimerIInv /\ (StartStillLeft \/ TimerExpired \/ Observer \/ AfterObserver \/ RestartTimer) => TimerIInv'
<1> SUFFICES ASSUME TimerIInv, StartStillLeft \/ TimerExpired \/ Observer \/ AfterObserver \/ RestartTimer
             PROVE  TimerIInv'
  OBVIOUS
<1>1. loop.at \in UsePlaces /\ loop.at \in LoopHolds /\ UNCHANGED <<mutex, main, impl_list, created>>
  BY DEF StartStillLeft, TimerExpired, Observer, AfterObserver, RestartTimer, LoopAt, UsePlaces, LoopHolds
<1>2. loop.timer \in Timers /\ Alive(loop.timer) /\ IsObject(Mine) /\ DOMAIN timers = Timers
  BY <1>1 DEF TimerIInv, UsesOne, Types, Mine
<1>3. SameTimers
  <2>1. CASE \E n : timers' = [timers EXCEPT ![loop.timer] = n]
                    /\ IsObject(n) /\ n.is = Mine.is /\ n.id = Mine.id
    BY <1>1, <1>2, <2>1 DEF SameTimers, Mine, TimerIInv, Types
  <2>2. CASE StartStillLeft
    <3> DEFINE left == Mine.left - (IF Mine.left > MaxPiece THEN MaxPiece ELSE Mine.left)
               n == [Mine EXCEPT !.left = left]
    <3>1. timers' = [timers EXCEPT ![loop.timer] = n]
      BY <1>2, <2>2 DEF StartStillLeft, Mine
    <3>2. IsObject(n) /\ n.is = Mine.is /\ n.id = Mine.id
      BY <1>2 DEF IsObject
    <3> QED
      BY <2>1, <3>1, <3>2
  <2>3. CASE TimerExpired
    <3> DEFINE status == IF Mine.status < 2 THEN Mine.status + 1 ELSE Mine.status
               n == [Mine EXCEPT !.status = status]
    <3>1. timers' = [timers EXCEPT ![loop.timer] = n]
      BY <1>2, <2>3 DEF TimerExpired, Mine
    <3>2. IsObject(n) /\ n.is = Mine.is /\ n.id = Mine.id
      BY <1>2 DEF IsObject
    <3> QED
      BY <2>1, <3>1, <3>2
  <2>4. CASE Observer
    <3>1. CASE UNCHANGED timers
      BY <1>1, <3>1, UnchangedTimers
    <3> QED
      BY <1>1, <1>2, <2>4, <3>1, StopKeeps, RestartKeeps DEF Observer
  <2>5. CASE AfterObserver
    BY <1>1, <2>5, UnchangedTimers DEF AfterObserver
  <2>6. CASE RestartTimer
    <3> DEFINE o == IF Mine.dtls THEN [Mine EXCEPT !.interval = Mine.rest] ELSE Mine
    <3>1. IsObject(o) /\ o.is = Mine.is /\ o.id = Mine.id
      BY <1>2 DEF IsObject
    <3>2. timers' = [timers EXCEPT ![loop.timer] = start(o)]
      BY <2>6 DEF RestartTimer
    <3> HIDE DEF o
    <3>3. IsObject(start(o)) /\ start(o).is = Mine.is /\ start(o).id = Mine.id
      BY <3>1, StartKeeps
    <3> QED
      BY <2>1, <3>2, <3>3
  <2> QED
    BY <2>2, <2>3, <2>4, <2>5, <2>6
<1>4. \/ loop' = [at |-> "check", id |-> 0, timer |-> 0]
      \/ \E p \in {"told", "after", "restart"} : loop' = [loop EXCEPT !.at = p]
  BY DEF StartStillLeft, TimerExpired, Observer, AfterObserver, RestartTimer, LoopTo, LoopGoesOn
<1>5. /\ DOMAIN loop' = {"at", "id", "timer"} /\ loop'.at \in {"check", "told", "after", "restart"}
      /\ loop'.at \in UsePlaces => loop'.timer = loop.timer
  BY <1>4 DEF TimerIInv, Types, UsePlaces
<1> QED
  BY <1>1, <1>2, <1>3, <1>5, LoopStepKeeps DEF LoopHolds

LEMMA OtherTaskletKeeps == TimerIInv /\ OtherTasklet => TimerIInv'
<1> SUFFICES ASSUME TimerIInv, NEW t \in Timers, OnItsThread, Uses(t) PROVE TimerIInv'
  BY DEF OtherTasklet
<1>1. UNCHANGED <<mutex, loop, main, impl_list, created>>
  BY DEF Uses
<1>2. SameTimers
  BY UsesKeeps
<1>3. /\ Numbered' /\ Listed' /\ \A u \in Timers : Alive(u)' <=> Alive(u)
      /\ created' \in Nat /\ impl_list' \in Seq(Timers)
      /\ DOMAIN timers' = Timers /\ \A u \in Timers : IsObject(timers'[u])
  BY <1>2, SameTimersKeep
<1>4. MakesOne' /\ UsesOne'
  BY <1>1, <1>2 DEF TimerIInv, MakesOne, UsesOne, Alive, SameTimers
<1>5. Types' /\ Mutual'
  BY <1>1, <1>3 DEF TimerIInv, Types, Mutual
<1> QED
  BY <1>3, <1>4, <1>5 DEF TimerIInv

-----------------------------------------------------------------------------
(* The constructor and the destructor *)

LEMMA ConstructKeeps ==
  ASSUME TimerIInv, \/ \E t \in Timers : Construct(t)
                    \/ CtorLocks \/ CtorSignals
  PROVE  TimerIInv'
<1>1. SameTimers
  BY UnchangedTimers DEF Construct, CtorLocks, CtorSignals
<1>2. /\ Numbered' /\ Listed' /\ \A t \in Timers : Alive(t)' <=> Alive(t)
      /\ created' \in Nat /\ impl_list' \in Seq(Timers)
      /\ DOMAIN timers' = Timers /\ \A t \in Timers : IsObject(timers'[t])
  BY <1>1, SameTimersKeep
<1>3. CASE \E t \in Timers : Construct(t)
  <2>1. PICK t \in Timers : Construct(t)
    BY <1>3
  <2>2. /\ main.at = "up" /\ main' = [at |-> "ctor", timer |-> t] /\ UNCHANGED <<mutex, loop, timers, created>>
        /\ timers[t].is = "none" /\ created < MaxCreated
    BY <2>1 DEF Construct, MainAt
  <2>3. Types'
    BY <1>2, <2>2 DEF TimerIInv, Types, MainPlaces
  <2>4. MakesOne'
    BY <2>2 DEF MakesOne
  <2>5. Mutual'
    BY <2>2 DEF TimerIInv, Mutual, MainHolds
  <2>6. UsesOne'
    BY <2>2 DEF TimerIInv, UsesOne, Alive
  <2> QED
    BY <1>2, <2>3, <2>4, <2>5, <2>6 DEF TimerIInv
<1> USE DEF TimerIInv, Types, Mutual, MakesOne, UsesOne, LoopAt, MainAt, LoopTo,
            MainTo, LoopHolds, MainHolds, UsePlaces, LoopPlaces, MainPlaces, NoOne,
            eventOS_scheduler_mutex_wait
<1>4. CASE CtorLocks
  BY <1>2, <1>4 DEF CtorLocks
<1>5. CASE CtorSignals
  BY <1>2, <1>5 DEF CtorSignals
<1> QED
  BY <1>3, <1>4, <1>5

LEMMA CtorAddsKeeps ==
  ASSUME NumbersAreUnique, TimerIInv, CtorAdds
  PROVE  TimerIInv'
<1> DEFINE t == main.timer
           o == [NoTimer EXCEPT !.is = "live", !.id = Int8(created + 1)]
<1>1. /\ t \in Timers /\ timers[t].is = "none" /\ ~ Alive(t) /\ created < MaxCreated
      /\ created \in Nat /\ MaxCreated \in Nat /\ MaxCreated <= IdMod /\ IdMod \in Nat
  BY PositiveConstants DEF CtorAdds, MainAt, TimerIInv, MakesOne, Types, Alive, NumbersAreUnique
<1>2. /\ timers' = [timers EXCEPT ![t] = o] /\ created' = created + 1
      /\ impl_list' = Append(impl_list, t) /\ main' = [at |-> "up", timer |-> 0]
      /\ UNCHANGED loop
  BY DEF CtorAdds, MainGoesOn
<1>3. IsObject(o) /\ o.is = "live" /\ o.id = Int8(created + 1)
  BY DEF IsObject, NoTimer
<1> HIDE DEF o, t
<1>4. \A u \in Timers : timers'[u] = IF u = t THEN o ELSE timers[u]
  BY <1>1, <1>2 DEF TimerIInv, Types
<1>5. Types'
  BY <1>1, <1>2, <1>3, <1>4 DEF TimerIInv, Types, MainPlaces
<1>6. Mutual'
  BY <1>2 DEF CtorAdds, eventOS_scheduler_mutex_release, NoOne, MainAt, MainHolds, TimerIInv, Mutual
<1>7. \A u \in Timers : Alive(u)' <=> (Alive(u) \/ u = t)
  BY <1>3, <1>4 DEF Alive
<1>8. Numbered'
  <2>1. \A u \in Timers : Alive(u)' => \E n \in 1 .. created' : timers'[u].id = Int8(n)
    <3> SUFFICES ASSUME NEW u \in Timers, Alive(u)'
                 PROVE  \E n \in 1 .. created + 1 : timers'[u].id = Int8(n)
      BY <1>2
    <3>1. CASE u = t
      BY <1>1, <1>3, <1>4, <3>1
    <3>2. CASE u # t
      <4>1. PICK n \in 1 .. created : timers[u].id = Int8(n)
        BY <1>7, <3>2 DEF TimerIInv, Numbered
      <4> QED
        BY <1>1, <1>4, <3>2, <4>1
    <3> QED
      BY <3>1, <3>2
  <2>2. \A u \in Timers : Alive(u) => timers[u].id # Int8(created + 1)
    <3> SUFFICES ASSUME NEW u \in Timers, Alive(u), timers[u].id = Int8(created + 1) PROVE FALSE
      OBVIOUS
    <3>1. PICK n \in 1 .. created : timers[u].id = Int8(n)
      BY DEF TimerIInv, Numbered
    <3>2. n \in 1 .. IdMod /\ created + 1 \in 1 .. IdMod /\ n # created + 1
      BY <1>1
    <3> QED
      BY <3>1, <3>2, Int8IsInjective
  <2>3. \A u, v \in Timers : Alive(u)' /\ Alive(v)' /\ timers'[u].id = timers'[v].id => u = v
    <3> TAKE u, v \in Timers
    <3>1. CASE u # t /\ v # t
      BY <1>4, <1>7, <3>1 DEF TimerIInv, Numbered
    <3>2. CASE u = t \/ v = t
      BY <1>3, <1>4, <1>7, <2>2, <3>2
    <3> QED
      BY <3>1, <3>2
  <2>4. created' <= MaxCreated
    BY <1>1, <1>2
  <2> QED
    BY <2>1, <2>3, <2>4 DEF Numbered
<1>9. Listed'
  <2> DEFINE l == impl_list
  <2>1. /\ l \in Seq(Timers) /\ \A i \in DOMAIN l : l[i] \in Timers /\ l[i] # t
        /\ \A i \in DOMAIN l : Alive(l[i])
    BY <1>1 DEF TimerIInv, Types, Listed
  <2>2. /\ Len(Append(l, t)) = Len(l) + 1 /\ DOMAIN Append(l, t) = 1 .. Len(l) + 1
        /\ Append(l, t)[Len(l) + 1] = t /\ DOMAIN l = 1 .. Len(l) /\ Len(l) \in Nat
        /\ \A i \in 1 .. Len(l) : Append(l, t)[i] = l[i]
    BY <1>1, <2>1
  <2>3. \A i \in 1 .. Len(l) + 1 : timers'[Append(l, t)[i]].is \in {"live", "dying"}
    BY <1>1, <1>3, <1>4, <2>1, <2>2 DEF Alive
  <2>4. \A i, j \in 1 .. Len(l) + 1 : Append(l, t)[i] = Append(l, t)[j] => i = j
    BY <2>1, <2>2 DEF TimerIInv, Listed
  <2> QED
    BY <1>2, <2>2, <2>3, <2>4 DEF Listed, Alive
<1>10. MakesOne'
  BY <1>2 DEF MakesOne
<1>11. UsesOne'
  BY <1>2, <1>7 DEF TimerIInv, UsesOne
<1> QED
  BY <1>5, <1>6, <1>8, <1>9, <1>10, <1>11 DEF TimerIInv

LEMMA DestroyKeeps ==
  ASSUME TimerIInv, NEW t \in Timers, Destroy(t)
  PROVE  TimerIInv'
<1> DEFINE o == [timers[t] EXCEPT !.is = "dying"]
<1>1. /\ timers[t].is = "live" /\ main.at \in {"up", "down"} /\ main' = [at |-> "dtor", timer |-> t]
      /\ UNCHANGED <<mutex, loop, impl_list, created>>
  BY DEF Destroy, MainAt
<1>2. timers' = [timers EXCEPT ![t] = o] /\ DOMAIN timers = Timers
  BY DEF Destroy, TimerIInv, Types
<1>3. IsObject(o) /\ o.is = "dying" /\ o.id = timers[t].id
  BY DEF IsObject, TimerIInv, Types
<1> HIDE DEF o
<1>4. \A u \in Timers : timers'[u] = IF u = t THEN o ELSE timers[u]
  BY <1>2
<1>5. \A u \in Timers : (Alive(u)' <=> Alive(u)) /\ timers'[u].id = timers[u].id
  BY <1>1, <1>3, <1>4 DEF Alive
<1>6. Types'
  BY <1>1, <1>2, <1>3, <1>4 DEF TimerIInv, Types, MainPlaces
<1>7. Mutual'
  BY <1>1 DEF TimerIInv, Mutual, MainHolds
<1>8. Numbered'
  BY <1>1, <1>5 DEF TimerIInv, Numbered
<1>9. Listed'
  <2>1. \A i \in DOMAIN impl_list : impl_list[i] \in Timers
    BY DEF TimerIInv, Types
  <2>2. \A i \in DOMAIN impl_list' : Alive(impl_list[i])'
    BY <1>1, <1>5, <2>1 DEF TimerIInv, Listed
  <2> QED
    BY <1>1, <2>2 DEF TimerIInv, Listed
<1>10. MakesOne'
  BY <1>1, <1>3, <1>4 DEF MakesOne
<1>11. UsesOne'
  BY <1>1, <1>5 DEF TimerIInv, UsesOne
<1> QED
  BY <1>6, <1>7, <1>8, <1>9, <1>10, <1>11 DEF TimerIInv

LEMMA RemoveAtFacts ==
  ASSUME NEW S, NEW l \in Seq(S), NEW p \in 1 .. Len(l)
  PROVE  /\ RemoveAt(l, p) \in Seq(S) /\ Len(RemoveAt(l, p)) = Len(l) - 1
         /\ \A k \in 1 .. Len(l) - 1 : RemoveAt(l, p)[k] = IF k < p THEN l[k] ELSE l[k + 1]
<1>1. /\ SubSeq(l, 1, p - 1) \in Seq(S) /\ Len(SubSeq(l, 1, p - 1)) = p - 1
      /\ \A k \in 1 .. p - 1 : SubSeq(l, 1, p - 1)[k] = l[k]
  OBVIOUS
<1>2. /\ SubSeq(l, p + 1, Len(l)) \in Seq(S) /\ Len(SubSeq(l, p + 1, Len(l))) = Len(l) - p
      /\ \A k \in 1 .. Len(l) - p : SubSeq(l, p + 1, Len(l))[k] = l[p + k]
  OBVIOUS
<1> DEFINE a == SubSeq(l, 1, p - 1)
           b == SubSeq(l, p + 1, Len(l))
<1> HIDE DEF a, b
<1>3. a \in Seq(S) /\ b \in Seq(S) /\ Len(a) = p - 1 /\ Len(b) = Len(l) - p
  BY <1>1, <1>2 DEF a, b
<1>4. /\ a \o b \in Seq(S) /\ Len(a \o b) = Len(l) - 1
      /\ \A k \in 1 .. Len(l) - 1 : (a \o b)[k] = IF k < p THEN a[k] ELSE b[k - (p - 1)]
  BY <1>3
<1>5. \A k \in 1 .. Len(l) - 1 : (a \o b)[k] = IF k < p THEN l[k] ELSE l[k + 1]
  <2> TAKE k \in 1 .. Len(l) - 1
  <2>1. CASE k < p
    BY <1>1, <1>4, <2>1 DEF a
  <2>2. CASE k >= p
    <3> DEFINE j == k - (p - 1)
    <3>1. j \in 1 .. Len(l) - p /\ p + j = k + 1 /\ ~ (k < p)
      BY <2>2
    <3>2. (a \o b)[k] = b[j]
      BY <1>4, <3>1
    <3> HIDE DEF j
    <3>3. b[j] = l[p + j]
      BY <1>2, <3>1 DEF b
    <3> QED
      BY <3>1, <3>2, <3>3
  <2>3. k \in Int /\ p \in Int
    OBVIOUS
  <2>4. k < p \/ k >= p
    BY <2>3
  <2> QED
    BY <2>1, <2>2, <2>4, Zenon
<1> QED
  BY <1>4, <1>5 DEF RemoveAt, a, b

LEMMA DtorErasesKeeps ==
  ASSUME TimerIInv, DtorErases
  PROVE  TimerIInv'
<1> DEFINE t == main.timer
           l == impl_list
           I == {k \in 1 .. Len(l) : timers[l[k]].id = timers[t].id}
           p == IF I # {} THEN Min(I) ELSE 0
           o == [NoTimer EXCEPT !.is = "gone"]
<1>1. /\ t \in Timers /\ Alive(t) /\ mutex.owner = "none" /\ l \in Seq(Timers)
      /\ \A i \in 1 .. Len(l) : l[i] \in Timers /\ Alive(l[i])
      /\ DOMAIN timers = Timers
  BY DEF DtorErases, MainAt, Free, TimerIInv, MakesOne, Types, Alive, Listed
<1>2. /\ timers' = [timers EXCEPT ![t] = o] /\ main' = [at |-> "up", timer |-> 0]
      /\ UNCHANGED <<mutex, loop, created>>
  BY DEF DtorErases, MainGoesOn
<1>3. l' = IF \E i \in 1 .. Len(l) : timers[l[i]].id = timers[t].id THEN RemoveAt(l, p) ELSE l
  BY DEF DtorErases, RemoveFirstMatch, SelectInSeq
<1>4. IsObject(o) /\ o.is = "gone"
  BY DEF IsObject, NoTimer
<1> HIDE DEF o, t
<1>5. \A i \in 1 .. Len(l) : timers[l[i]].id = timers[t].id <=> l[i] = t
  BY <1>1 DEF TimerIInv, Numbered
<1>6. \A u \in Timers : timers'[u] = IF u = t THEN o ELSE timers[u]
  BY <1>1, <1>2
<1>7. /\ l' \in Seq(Timers)
      /\ \A i \in 1 .. Len(l') : l'[i] \in Timers /\ l'[i] # t /\ Alive(l'[i])
      /\ \A i, j \in 1 .. Len(l') : l'[i] = l'[j] => i = j
  <2>1. \A i, j \in 1 .. Len(l) : l[i] = l[j] => i = j
    BY <1>1 DEF TimerIInv, Listed
  <2>2. CASE I = {}
    BY <1>1, <1>3, <1>5, <2>1, <2>2
  <2>3. CASE I # {}
    <3>1. p \in I
      <4>1. I # {} /\ I \in SUBSET Nat /\ p = Min(I)
        BY <2>3
      <4> HIDE DEF I, p
      <4>2. \E k \in I : \A m \in I : k <= m
        BY <4>1, LeastNumber
      <4> QED
        BY <4>1, <4>2 DEF Min
    <3> HIDE DEF p
    <3>2. p \in 1 .. Len(l) /\ l[p] = t /\ l' = RemoveAt(l, p) /\ Len(l) \in Nat
      BY <1>1, <1>3, <1>5, <2>3, <3>1
    <3>3. /\ l' \in Seq(Timers) /\ Len(l') = Len(l) - 1
          /\ \A k \in 1 .. Len(l) - 1 : l'[k] = IF k < p THEN l[k] ELSE l[k + 1]
      BY <1>1, <3>2, RemoveAtFacts
    <3>4. \A k \in 1 .. Len(l') : l'[k] \in Timers /\ l'[k] # t /\ Alive(l'[k])
      BY <1>1, <2>1, <3>2, <3>3
    <3>5. \A i, j \in 1 .. Len(l') : l'[i] = l'[j] => i = j
      BY <2>1, <3>2, <3>3
    <3> QED
      BY <3>3, <3>4, <3>5
  <2> QED
    BY <2>2, <2>3
<1>8. Types'
  BY <1>2, <1>4, <1>6, <1>7 DEF TimerIInv, Types, MainPlaces
<1>9. Mutual'
  BY <1>1, <1>2 DEF TimerIInv, Mutual, MainHolds
<1>10. \A u \in Timers : timers'[u].is \in {"live", "dying"} => u # t /\ Alive(u) /\ timers'[u] = timers[u]
  BY <1>4, <1>6 DEF Alive
<1>11. Numbered'
  BY <1>2, <1>10 DEF TimerIInv, Numbered, Alive
<1>12. Listed'
  BY <1>6, <1>7 DEF Listed, Alive
<1>13. MakesOne'
  BY <1>2 DEF MakesOne
<1>14. UsesOne'
  BY <1>1, <1>2 DEF TimerIInv, Mutual, UsesOne, UsePlaces, LoopHolds
<1> QED
  BY <1>8, <1>9, <1>11, <1>12, <1>13, <1>14 DEF TimerIInv

-----------------------------------------------------------------------------

LEMMA TimerInitEstablishes == Init => TimerIInv
<1> SUFFICES ASSUME Init PROVE TimerIInv
  OBVIOUS
<1> USE PositiveConstants DEF Init, ThreadInit
<1>1. Types
  BY DEF Types, NoTimer, IsObject, LoopPlaces, MainPlaces
<1>2. Mutual
  BY DEF Mutual, NoOne, LoopHolds, MainHolds
<1>3. Numbered /\ Listed
  BY DEF Numbered, Listed, Alive, NoTimer
<1>4. MakesOne /\ UsesOne
  BY DEF MakesOne, UsesOne, UsePlaces
<1> QED
  BY <1>1, <1>2, <1>3, <1>4 DEF TimerIInv

LEMMA UnchangedKeeps ==
  ASSUME TimerIInv, UNCHANGED <<mutex, loop, main, timers, impl_list, created>>
  PROVE  TimerIInv'
<1>1. Types'
  BY DEF TimerIInv, Types
<1>2. Mutual'
  BY DEF TimerIInv, Mutual
<1>3. Numbered' /\ Listed'
  BY UnchangedTimers, SameTimersKeep
<1>4. MakesOne' /\ UsesOne'
  BY DEF TimerIInv, MakesOne, UsesOne, Alive
<1> QED
  BY <1>1, <1>2, <1>3, <1>4 DEF TimerIInv

LEMMA TimerInvariance ==
  ASSUME NumbersAreUnique
  PROVE  Spec => []TimerIInv
<1>1. TimerIInv /\ [Next]_vars => TimerIInv'
  <2> SUFFICES ASSUME TimerIInv, [Next]_vars PROVE TimerIInv'
    OBVIOUS
  <2>1. CASE LoopStep
    BY <2>1, ThreadStepKeeps, LookupKeeps, ExpireKeeps DEF LoopStep
  <2>2. CASE MainStep
    BY <2>2, ThreadStepKeeps, ConstructKeeps, CtorAddsKeeps, DtorErasesKeeps DEF MainStep
  <2>3. CASE Tick
    BY <2>3, UnchangedKeeps DEF Tick
  <2>4. CASE OtherTasklet
    BY <2>4, OtherTaskletKeeps
  <2>5. CASE \E t \in Timers : Construct(t) \/ Destroy(t)
    BY <2>5, ConstructKeeps, DestroyKeeps
  <2>6. CASE UNCHANGED vars
    BY <2>6, UnchangedKeeps DEF vars, threads
  <2> QED
    BY <2>1, <2>2, <2>3, <2>4, <2>5, <2>6 DEF Next
<1> QED
  BY <1>1, TimerInitEstablishes, PTL DEF Spec

\* tasklet_func and timer_expired use only timers whose memory is not free,
\* although a destructor may run at any time on the application's thread.
THEOREM TimersAreUsedWhileAlive ==
  ASSUME NumbersAreUnique
  PROVE  Spec => []UsedWhileAlive
<1>1. TimerIInv => UsedWhileAlive
  BY DEF TimerIInv, UsesOne, UsePlaces, Alive, UsedWhileAlive
<1> QED
  BY <1>1, TimerInvariance, PTL
=============================================================================
