---------------------------- MODULE ClientSession ----------------------------
(***************************************************************************)
(* What the application may rely on: the callbacks of MbedCloudClient.     *)
(* Nothing happens before the first setup, and registered, updated and     *)
(* unregistered are told only because of a confirmation of the server that *)
(* was not told before, so no callback is made up or repeated.             *)
(***************************************************************************)
VARIABLES
    begun,       \* setup was called
    told,        \* the last callback
    confirmed    \* confirmations of the server that were not told yet

vars == <<begun, told, confirmed>>

Kinds == {"register", "update", "unregister"}
Callback(k) ==
    CASE k = "register" -> "registered" [] k = "update" -> "updated"
      [] k = "unregister" -> "unregistered"

Init == begun = FALSE /\ told = "nothing" /\ confirmed = {}

(* setup; it may be refused at once, and it may repeat that the client is  *)
(* registered                                                              *)
Setup ==
    /\ begun' = TRUE
    /\ told' \in {told, "error"} \cup (IF told \in {"registered", "updated"} THEN {"registered"} ELSE {})
    /\ UNCHANGED confirmed

Confirm(k) ==
    /\ begun /\ confirmed' = confirmed \cup {k}
    /\ UNCHANGED <<begun, told>>

(* A handler that tells something may also send a request, so that a new   *)
(* confirmation is there at once.                                          *)
PerhapsMore(rest) == \E more \in Kinds : confirmed' \in {rest, rest \cup {more}}

\* an error that follows in the same handler may hide the callback
Announce(k) ==
    /\ begun /\ k \in confirmed
    /\ PerhapsMore(confirmed \ {k})
    /\ told' \in {Callback(k), "error"}
    /\ UNCHANGED begun

Fail ==
    /\ begun /\ told' = "error" /\ PerhapsMore(confirmed)
    /\ UNCHANGED begun

Next == Setup \/ Fail \/ \E k \in Kinds : Confirm(k) \/ Announce(k)

Spec == Init /\ [][Next]_vars
=============================================================================
