----------------------------- MODULE NvmHelper -----------------------------
(***************************************************************************)
(* ns_nvm_helper.c: requests to read, write and delete keys, served one    *)
(* after the other by the platform's non-volatile memory, which does one   *)
(* operation at a time and may refuse to start one.  The callback of a     *)
(* request may make another.  A request is known by the client's context.  *)
(***************************************************************************)
EXTENDS Lists

CONSTANTS NvmRequests,   \* the requests, each made at most once
          NvmOps,        \* what they ask for: a subset of AllOps
          NvmCareless    \* the places, of Refusals, where the platform may
                         \* refuse besides the call of a client

AllOps == {"read", "write", "delete"}
Refusals == {"queued", "after_init", "next"}

ASSUME NvmAssumption == NvmOps \subseteq AllOps /\ NvmCareless \subseteq Refusals

None == "none"
ASSUME NoneAssumption == None \notin NvmRequests

VARIABLE nvm
(* initialized, in_progress, list: ns_nvm_initialized, ns_nvm_operation_in_progress  *)
(* and ns_nvm_request_list; op: the operation of each request, None before the call; *)
(* flight: the operations that the platform works on, each with its request;         *)
(* accepted: the requests whose call returned NS_NVM_OK, in order;                   *)
(* answered: those whose callback was called, with its status, in order;             *)
(* stored: the requests whose change reached the memory.                             *)

NvmInit == nvm = [initialized |-> FALSE, in_progress |-> FALSE, list |-> <<>>,
                  op |-> [q \in NvmRequests |-> None], flight |-> <<>>,
                  accepted |-> <<>>, answered |-> <<>>, stored |-> {}]

\* The platform starts an operation for q, or refuses.
PlatformStarts(s, q, op, ok) == IF ok THEN [s EXCEPT !.flight = Append(@, [req |-> q, op |-> op])] ELSE s

FirstOperation(op) == IF op = "write" THEN "create" ELSE op

ns_nvm_operation_continue(s, q, ok) ==
  [PlatformStarts(s, q, FirstOperation(s.op[q]), ok) EXCEPT !.in_progress = ok]

\* ns_nvm_data_read, ns_nvm_data_write and ns_nvm_key_delete with the start of
\* the request; op is what q asks for, ok says whether the platform takes the
\* operation that the call starts at once.
ns_nvm_operation_start(s, q, op, ok) ==
  LET called == [s EXCEPT !.op[q] = op]
      taken == [called EXCEPT !.accepted = Append(@, q)]
  IN  IF s.initialized /\ s.in_progress THEN [taken EXCEPT !.list = Append(@, q)]
      ELSE IF ~ ok THEN called
      ELSE IF s.initialized THEN ns_nvm_operation_continue(taken, q, TRUE)
      ELSE [PlatformStarts(taken, q, "init", TRUE) EXCEPT !.initialized = TRUE, !.in_progress = TRUE]

\* The client's callback; it may call with a request of its own, again.
ClientCallback(s, q, status, again) ==
  LET told == [s EXCEPT !.answered = Append(@, <<q, status>>)]
  IN  IF again.req = None \/ told.op[again.req] # None THEN told
      ELSE ns_nvm_operation_start(told, again.req, again.op, again.ok)

RECURSIVE ns_nvm_operation_end(_, _, _, _, _)
RECURSIVE ServePending(_, _, _, _)

\* ns_list_foreach_safe: the request behind is looked up before the body.
ServePending(s, q, refused, again) ==
  LET places == {i \in DOMAIN s.list : s.list[i] = q}
      behind == IF places # {} /\ First(places) < Len(s.list) THEN s.list[First(places) + 1] ELSE None
      next == ns_nvm_operation_continue([s EXCEPT !.list = Unlink(@, q)], q, q \notin refused)
  IN  IF q = None THEN s
      ELSE IF q \notin refused THEN next
      ELSE ServePending(ns_nvm_operation_end(next, q, "error", refused, again), behind, refused, again)

\* Mutant: only the call of a client starts a request.
ns_nvm_operation_end_idle(s, q, status, refused, again) ==
  [ClientCallback(s, q, status, again) EXCEPT !.in_progress = FALSE]

ns_nvm_operation_end(s, q, status, refused, again) ==
  LET idle == [ClientCallback(s, q, status, again) EXCEPT !.in_progress = FALSE]
  IN  ServePending(idle, IF idle.list = <<>> THEN None ELSE Head(idle.list), refused, again)

\* Mutant: a deletion is not flushed.
ns_nvm_callback_func_unflushed(s, o, status, refused, again) ==
  CASE o.op = "init" -> ns_nvm_operation_continue(s, o.req, "after_init" \notin refused)
    [] o.op = "create" /\ status = "ok" -> PlatformStarts(s, o.req, "write", "next" \notin refused)
    [] o.op = "write" /\ status = "ok" -> PlatformStarts(s, o.req, "flush", "next" \notin refused)
    [] OTHER -> ns_nvm_operation_end(s, o.req, status, refused, again)

\* ns_nvm_callback_func: operation o of the platform ended with status.
ns_nvm_callback_func(s, o, status, refused, again) ==
  CASE o.op = "init" -> ns_nvm_operation_continue(s, o.req, "after_init" \notin refused)
    [] o.op = "create" /\ status = "ok" -> PlatformStarts(s, o.req, "write", "next" \notin refused)
    [] o.op \in {"write", "delete"} /\ status = "ok" -> PlatformStarts(s, o.req, "flush", "next" \notin refused)
    [] OTHER -> ns_nvm_operation_end(s, o.req, status, refused, again)

-----------------------------------------------------------------------------
\* "error" stands for every status but that of success, all handled alike.
Statuses == {"ok", "error"}

Again == [req : NvmRequests \cup {None}, op : NvmOps, ok : BOOLEAN]

NvmCall(q, op, ok) == nvm.op[q] = None /\ nvm' = ns_nvm_operation_start(nvm, q, op, ok)

MayRefuse == ({"after_init", "next"} \cap NvmCareless)
             \cup IF "queued" \in NvmCareless THEN NvmRequests ELSE {}

OperationEnds(status, refused, again) ==
  /\ nvm.flight # <<>>
  /\ LET o == Head(nvm.flight)
         s == [nvm EXCEPT !.flight = Tail(@),
                          !.stored = IF o.op = "flush" /\ status = "ok" THEN @ \cup {o.req} ELSE @]
     IN  nvm' = ns_nvm_callback_func(s, o, status, refused, again)

NvmNext ==
  \/ \E q \in NvmRequests, op \in NvmOps, ok \in BOOLEAN : NvmCall(q, op, ok)
  \/ \E status \in Statuses, refused \in SUBSET MayRefuse, again \in Again :
       OperationEnds(status, refused, again)

\* The platform ends what it started.
NvmFairness ==
  WF_nvm(/\ nvm.flight # <<>>
         /\ \E status \in Statuses, refused \in SUBSET MayRefuse, again \in Again :
              OperationEnds(status, refused, again))

NvmSpec == NvmInit /\ [][NvmNext]_nvm /\ NvmFairness

\* The platform is never asked to start an operation before the last one ended.
OneOperation == Len(nvm.flight) <= 1

\* Callbacks come in the order of the calls, one for each, and none for a call
\* that failed.
AnswersInOrder ==
  /\ Len(nvm.answered) <= Len(nvm.accepted)
  /\ \A i \in DOMAIN nvm.answered : nvm.answered[i][1] = nvm.accepted[i]

\* A client that is told its key was written or deleted finds it so after a
\* restart: the change was flushed.
OkIsStored ==
  \A i \in DOMAIN nvm.answered :
    nvm.answered[i][2] = "ok" /\ nvm.op[nvm.answered[i][1]] # "read" => nvm.answered[i][1] \in nvm.stored

\* The helper serves its clients one at a time and in order, and what it tells
\* them is so.
AnswersAreTrue == OneOperation /\ AnswersInOrder /\ OkIsStored

\* Every accepted request is answered in the end.
NvmAnswers ==
  \A q \in NvmRequests : q \in Range(nvm.accepted) ~> \E i \in DOMAIN nvm.answered : nvm.answered[i][1] = q
=============================================================================
