---------------------------- MODULE ReportHandler ----------------------------
(***************************************************************************)
(* Notifications of an observed resource or object (m2mreporthandler.cpp),  *)
(* with the calls of the object model around it. A resource of a number     *)
(* reports its value, an object reports which of its instances changed.     *)
(* The timers are used as m2mtimerpimpl.cpp implements them: starting a     *)
(* timer adds a request, stopping it takes the first one away. Time is in   *)
(* seconds, and the loop handles what is due before a second passes.        *)
(***************************************************************************)
EXTENDS Integers, Sequences, SequencesExt, FiniteSets

CONSTANTS
    Numbers,        \* values that a numeric resource is set to
    Instances,      \* instances of an observed object
    Queries,        \* write attributes: sequences of [attr, to]
    MaxNumber,      \* 2^24, where _observation_number wraps
    MaxSent,        \* 2^16, where the number that is sent wraps
    MaxWrites,      \* bound on the writes of attributes
    LongAgo,        \* time is counted up to here
    Exempt          \* what the application and the server do not do

Exemptions == {"first", "failed_write", "revert", "sibling"}

ASSUME ReportAssumption ==
    /\ Numbers \subseteq Int /\ MaxNumber \in Nat \ {0} /\ MaxSent \in Nat \ {0}
    /\ Exempt \subseteq Exemptions

VARIABLES
    kind,           \* "number" or "object"
    value,          \* of the resource
    handler,        \* the report handler
    requests,       \* of its two timers, in the order of their expiry: [type, left]
    told,           \* the value the server has
    stale,          \* the instances whose change the server is to be told
    attached,       \* _observation_handler of the object, which its resources share
    writes,         \* of attributes, counted
    sent,           \* what this step sent: [is, number, gap]
    since           \* seconds since the last notification or write of attributes

vars == <<kind, value, handler, requests, told, stale, attached, writes, sent, since>>

Attributes == {"pmin", "pmax", "gt", "lt", "st"}

\* M2MReportHandler::M2MReportHandler; on is FALSE when there is no object.
NoHandler == [on |-> FALSE, observed |-> FALSE, level |-> FALSE, attr |-> {},
              pmin |-> 1, pmax |-> -1, gt |-> 0, lt |-> 0, st |-> 0, high |-> 0, low |-> 0,
              notify |-> FALSE, pmin_exceeded |-> FALSE, pmax_exceeded |-> FALSE,
              number |-> 0, current |-> 0, last |-> -1, ids |-> {}]

NewHandler == [NoHandler EXCEPT !.on = TRUE]

\* What a call works on: the handler, the timers and what is sent.
State   == [h |-> handler, r |-> requests, out |-> "none", of |-> {}]
Nothing == [is |-> "none", number |-> 0, gap |-> 0]

Init ==
    /\ kind \in {"number", "object"}
    /\ value \in Numbers
    /\ handler = NoHandler
    /\ requests = << >>
    /\ told = value
    /\ stale = {}
    /\ attached = TRUE
    /\ writes = 0
    /\ sent = Nothing
    /\ since = 0

-----------------------------------------------------------------------------
(* The timers.                                                             *)

start_timer(r, type, left) ==
    LET sooner == SelectSeq(r, LAMBDA q : q.left <= left)
        later  == SelectSeq(r, LAMBDA q : q.left > left)
    IN  sooner \o <<[type |-> type, left |-> left]>> \o later

stop_timer(r, type) == RemoveFirstMatch(r, LAMBDA q : q.type = type)

-----------------------------------------------------------------------------
(* The private operations of the report handler.                           *)

PminTimer(s) ==
    IF ~("pmin" \in s.h.attr) THEN s
    ELSE IF s.h.pmin = s.h.pmax THEN [s EXCEPT !.h.pmin_exceeded = TRUE]
    ELSE [s EXCEPT !.h.pmin_exceeded = FALSE, !.r = start_timer(@, "pmin", s.h.pmin)]

PmaxTimer(s) ==
    IF "pmax" \in s.h.attr /\ s.h.pmax > 0
    THEN [s EXCEPT !.r = start_timer(@, "pmax", s.h.pmax)] ELSE s

handle_timers(s) == PmaxTimer(PminTimer(s))

stop_timers(s) ==
    [s EXCEPT !.h.pmin_exceeded = FALSE, !.h.pmax_exceeded = FALSE,
              !.r = stop_timer(stop_timer(@, "pmin"), "pmax")]

\* The number 1 is not used, it would mean the end of the observation.
NextNumber(n) == LET next == (n + 1) % MaxNumber IN IF next = 1 THEN 2 ELSE next

report(s) ==
    LET changed == s.h.current # s.h.last /\ s.h.notify
        sending ==
            IF changed
            THEN [s EXCEPT !.h.notify = FALSE, !.h.pmin_exceeded = FALSE, !.h.pmax_exceeded = FALSE,
                           !.h.number = NextNumber(@), !.out = "changed", !.of = s.h.ids, !.h.ids = {},
                           !.r = stop_timer(@, "pmax")]
            ELSE IF s.h.pmax_exceeded
            THEN [s EXCEPT !.h.number = NextNumber(@), !.out = "all", !.of = Instances, !.h.ids = {}]
            ELSE s
    IN  [handle_timers(sending) EXCEPT !.h.last = s.h.current]

\* Mutant: pmin is not waited for.
schedule_report_now(s) == report([s EXCEPT !.h.notify = TRUE])

schedule_report(s) ==
    LET noted == [s EXCEPT !.h.notify = TRUE]
    IN  IF ~("pmin" \in s.h.attr) \/ s.h.pmin_exceeded THEN report(noted) ELSE noted

check_gt_lt_params(h) ==
    CASE {"gt", "lt"} \subseteq h.attr -> h.current > h.gt \/ h.current < h.lt
      [] "lt" \in h.attr               -> h.current < h.lt
      [] "gt" \in h.attr               -> h.current > h.gt
      [] OTHER                         -> TRUE

check_threshold_values(h) ==
    IF "st" \in h.attr
    THEN \/ h.current >= h.high \/ h.current <= h.low
         \/ h.attr \cap {"gt", "lt"} # {} /\ check_gt_lt_params(h)
    ELSE check_gt_lt_params(h)

-----------------------------------------------------------------------------
(* The public operations.                                                  *)

set_value(s, v) ==
    LET now == [s EXCEPT !.h.current = v]
        out == [now EXCEPT !.h.notify = FALSE, !.h.last = v]
        res == CASE check_threshold_values(now.h) -> schedule_report(now)
                 [] s.h.attr \cap {"gt", "lt", "st"} # {} ->
                       [out EXCEPT !.r = stop_timer(@, "pmin"), !.h.pmin_exceeded = TRUE]
                 [] OTHER -> out
    IN  IF v = s.h.last THEN now
        ELSE [res EXCEPT !.h.high = v + s.h.st, !.h.low = v - s.h.st]

\* Mutant: only the last instance that changed is kept.
set_notification_trigger_last(s, i) ==
    schedule_report([s EXCEPT !.h.ids = {i}, !.h.current = 0, !.h.last = 1])

set_notification_trigger(s, i) ==
    schedule_report([s EXCEPT !.h.ids = @ \cup {i}, !.h.current = 0, !.h.last = 1])

set_default_values(s) ==
    [s EXCEPT !.h = [NewHandler EXCEPT !.observed = s.h.observed, !.level = s.h.level,
                     !.notify = s.h.notify, !.number = s.h.number, !.current = s.h.current]]

set_under_observation(s, observed) ==
    LET stopped == stop_timers([s EXCEPT !.h.observed = observed])
    IN  IF observed THEN handle_timers(stopped) ELSE set_default_values(stopped)

\* set_notification_attribute: one attribute of a query. Thresholds are for
\* numeric resources only.
set_notification_attribute(h, o) ==
    CASE o.attr = "pmin" -> [h EXCEPT !.attr = @ \cup {"pmin"}, !.pmin = o.to]
      [] o.attr = "pmax" -> [h EXCEPT !.attr = @ \cup {"pmax"}, !.pmax = o.to]
      [] o.attr = "gt"   -> [h EXCEPT !.attr = @ \cup {"gt"}, !.gt = o.to]
      [] o.attr = "lt"   -> [h EXCEPT !.attr = @ \cup {"lt"}, !.lt = o.to]
      [] o.attr = "st"   -> [h EXCEPT !.attr = @ \cup {"st"}, !.st = o.to,
                                      !.high = h.current + o.to, !.low = h.current - o.to]
      [] OTHER           -> h

Understood(o) == o.attr \in (IF kind = "number" THEN Attributes ELSE {"pmin", "pmax"})

check_attribute_validity(h) ==
    /\ ~("pmax" \in h.attr /\ h.pmax >= -1 /\ h.pmin > h.pmax)
    /\ ~("gt" \in h.attr /\ h.lt + 2 * h.st >= h.gt)

Parsed(h, q) == FoldLeft(set_notification_attribute, h, q)

parse_notification_attribute(h, q) ==
    (\A k \in 1..Len(q) : Understood(q[k])) /\ check_attribute_validity(Parsed(h, q))

\* timer_expired
pmin_expired(s) ==
    LET over == [s EXCEPT !.h.pmin_exceeded = TRUE]
    IN  IF s.h.notify \/ (s.h.pmin > 0 /\ ~("pmax" \in s.h.attr)) THEN report(over) ELSE over

pmax_expired(s) ==
    LET over == [s EXCEPT !.h.pmax_exceeded = TRUE]
    IN  IF s.h.pmin_exceeded \/ ~("pmin" \in s.h.attr) THEN report(over) ELSE over

-----------------------------------------------------------------------------
(* What reaches the server.                                                *)

\* The end of a call: the handler and the timers as it leaves them, and the
\* notification, which is sent if the object has an observation handler. The
\* instances in late have changed.
Done(s, late) ==
    LET goes == s.out # "none" /\ attached
    IN  /\ handler' = s.h
        /\ requests' = s.r
        /\ sent' = IF goes THEN [is |-> s.out, number |-> s.h.number % MaxSent, gap |-> since]
                   ELSE Nothing
        /\ since' = IF goes THEN 0 ELSE since
        /\ told' = IF goes THEN value' ELSE told
        /\ stale' = CASE ~goes           -> late
                     [] kind = "number" -> {}
                     [] OTHER           -> late \ s.of

Quiet == sent' = Nothing

One == CHOOSE i \in Instances : TRUE

-----------------------------------------------------------------------------
(* The application.                                                        *)

\* Whether the server is to be told a value: it differs from the one it has,
\* and is beyond the thresholds. (Steps are left out: they are counted from
\* the value before.)
ToTell(v) ==
    /\ handler.level /\ v # value /\ v # told /\ ~("st" \in handler.attr)
    /\ check_gt_lt_params([handler EXCEPT !.current = v])
    /\ ~("first" \in Exempt /\ (handler.current # value \/ v = -1))

\* A value is set back while its change is waiting.
Back(v) == handler.notify /\ v = handler.last

\* M2MResourceBase::set_value, report_value_change and report; clear_value is
\* a value of 0, which is reported although nothing changed.
SetValue(v) ==
    /\ kind = "number"
    /\ value # v \/ v = 0
    /\ ~("revert" \in Exempt /\ Back(v))
    /\ value' = v
    /\ LET late == IF ToTell(v) THEN {One} ELSE {}
       IN  IF handler.level THEN Done(set_value(State, v), late)
           ELSE Quiet /\ UNCHANGED <<handler, requests, told, stale, since>>
    /\ UNCHANGED <<kind, attached, writes>>

\* M2MObject::notification_update, for an instance of which a value changed.
Change(i) ==
    /\ kind = "object"
    /\ UNCHANGED <<kind, value, attached, writes>>
    /\ IF handler.level /\ handler.observed
       THEN Done(set_notification_trigger(State, i), stale \cup {i})
       ELSE Quiet /\ UNCHANGED <<handler, requests, told, stale, writes, since>>

-----------------------------------------------------------------------------
(* The server.                                                             *)

\* M2MBase::set_under_observation, with an observation handler or NULL.
BaseUnderObservation(s, observed, attach) ==
    LET first == IF s.h.on THEN set_under_observation(s, observed) ELSE s
        made  == [first EXCEPT !.h.on = @ \/ observed]
    IN  CASE ~attach   -> [s EXCEPT !.h = NoHandler, !.r = << >>]
          [] made.h.on -> set_under_observation(made, observed)
          [] OTHER     -> made

ObservationChanges(s) ==
    /\ handler' = s.h
    /\ requests' = s.r
    /\ stale' = {}
    /\ since' = 0
    /\ Quiet
    /\ UNCHANGED <<kind, value, writes>>

\* handle_get_request with the observe option, and the answer.
Observe ==
    /\ LET s == BaseUnderObservation(State, TRUE, TRUE)
       IN  ObservationChanges([s EXCEPT !.h.level = TRUE])
    /\ attached' = TRUE
    /\ told' = value

\* handle_get_request with the option of value 1: the handler is deleted.
Cancel ==
    /\ ObservationChanges(BaseUnderObservation(State, FALSE, FALSE))
    /\ attached' = FALSE
    /\ told' = told

\* received_from_server_callback: a notification is answered with RESET.
Reset ==
    /\ handler.observed
    /\ ObservationChanges(BaseUnderObservation([State EXCEPT !.h.level = FALSE], FALSE, TRUE))
    /\ attached' = TRUE
    /\ told' = told

\* handle_put_request with a query.
WriteAttributes(q) ==
    LET s == [State EXCEPT !.h.on = TRUE]
        w == [s EXCEPT !.h = Parsed(@, q)]
    IN  /\ writes < MaxWrites
        /\ writes' = writes + 1
        /\ \/ /\ parse_notification_attribute(s.h, q)
              /\ LET t == IF s.h.observed THEN set_under_observation(w, TRUE) ELSE w
                 IN  handler' = t.h /\ requests' = t.r
              /\ stale' = IF w.h.attr \subseteq {"pmin", "pmax"} THEN stale ELSE {}
           \/ /\ ~parse_notification_attribute(s.h, q)
              /\ LET t == set_default_values(s)
                 IN  handler' = t.h /\ requests' = t.r
              /\ stale' = IF "failed_write" \in Exempt /\ kind = "object" THEN {} ELSE stale
        /\ since' = 0
        /\ Quiet
        /\ UNCHANGED <<kind, value, told, attached>>

\* The observation of another resource of the object ends or begins, or a
\* registration lists the object again (create_nsdl_resource).
Sibling ==
    /\ \/ attached' = TRUE
       \/ attached' = FALSE /\ ~("sibling" \in Exempt /\ handler.level)
    /\ attached' # attached
    /\ Quiet
    /\ UNCHANGED <<kind, value, handler, requests, told, stale, writes, since>>

-----------------------------------------------------------------------------
(* Time.                                                                   *)

Due == requests # << >> /\ Head(requests).left = 0

Expire ==
    /\ Due
    /\ UNCHANGED <<kind, value, attached, writes>>
    /\ LET s == [State EXCEPT !.r = Tail(@)]
       IN  Done(IF Head(requests).type = "pmin" THEN pmin_expired(s) ELSE pmax_expired(s), stale)

Tick ==
    /\ ~Due
    /\ requests' = [k \in 1..Len(requests) |-> [requests[k] EXCEPT !.left = @ - 1]]
    /\ since' = IF since < LongAgo THEN since + 1 ELSE since
    /\ Quiet
    /\ UNCHANGED <<kind, value, handler, told, stale, attached, writes>>

Next ==
    \/ \E v \in Numbers : SetValue(v)
    \/ \E i \in Instances : Change(i)
    \/ Observe \/ Cancel \/ Reset \/ Sibling
    \/ \E q \in Queries : WriteAttributes(q)
    \/ Expire \/ Tick

Spec == Init /\ [][Next]_vars

\* Time passes and the loop runs.
FairSpec == Spec /\ WF_vars(Expire) /\ WF_vars(Tick)

-----------------------------------------------------------------------------
(* Properties.                                                             *)

TypeOK ==
    /\ handler.attr \subseteq Attributes
    /\ handler.number \in 0..(MaxNumber - 1) \ {1}
    /\ \A k \in 1..Len(requests) : requests[k].type \in {"pmin", "pmax"} /\ requests[k].left >= 0
    /\ stale \subseteq Instances
    /\ since \in 0..LongAgo
    /\ ~handler.on => handler = NoHandler /\ requests = << >>

Thresholds == handler.attr \cap {"gt", "lt", "st"}

\* Two notifications are at least pmin apart, "if the pmin is exceeded then
\* report immediately else store the state to be reported once the time fires".
PminKept ==
    (sent.is # "none" /\ "pmin" \in handler.attr /\ Thresholds = {} /\ handler.pmin # handler.pmax)
    => sent.gap >= handler.pmin

\* An observed resource is notified at least every pmax seconds.
PmaxKept ==
    (handler.observed /\ attached /\ "pmax" \in handler.attr /\ handler.pmax > 0)
    => since <= handler.pmax

\* Notifications are neither too close nor too far apart.
IntervalsKept == PminKept /\ PmaxKept

\* A timer is not started while it runs.
OneRequest == \A k, j \in 1..Len(requests) : requests[k].type = requests[j].type => k = j

\* Nothing is sent to a server that ended the observation.
SilentUnlessObserved == sent.is # "none" => handler.observed

\* A change beyond the thresholds is told to the server in the end, unless the
\* server ends the observation. (Each write of attributes starts pmin again, so
\* a server that goes on writing is not told.)
ToldInTheEnd == stale # {} ~> stale = {}

\* "CoAP specification has reserved 1 for DEREGISTER notification"
NeverDeregister == sent.is # "none" => sent.number # 1
=============================================================================
