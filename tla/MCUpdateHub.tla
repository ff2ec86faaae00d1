---------------------------- MODULE MCUpdateHub ----------------------------
(* Instances of the update client for TLC.                                 *)
EXTENDS UpdateHub, TLC

CONSTANTS m1, m2

(* Two manifests, the second newer; images of two and of one fragment, the *)
(* second encrypted; then an empty image, and a cipher mode that the hub   *)
(* does not support.                                                       *)
TwoTimestamps == (m1 :> 2) @@ (m2 :> 3)
SmallSizes == (m1 :> 2) @@ (m2 :> 1)
OneEmpty == (m1 :> 2) @@ (m2 :> 0)
Plain == (m1 :> "none") @@ (m2 :> "psk")
Unsupported == (m1 :> "none") @@ (m2 :> "other")

(* Scenarios: all goes well but for a power cut; the storage, the network   *)
(* and the data may fail; manifests come at any time; and a device with no  *)
(* authority handler and no reboot, where every operation may fail.         *)
Usual == [size |-> SmallSizes, faults |-> {}, push |-> "quiet", authority |-> TRUE,
          async_init |-> FALSE, reboots |-> TRUE, pushes |-> 2, crashes |-> 0]
Flow == [Usual EXCEPT !.crashes = 1]
Faulty ==
  [Usual EXCEPT !.faults = {"reject", "write", "finalize", "read", "activate", "corrupt",
                            "http", "http_reject", "manifest", "uri"}]
Busy ==
  [Usual EXCEPT !.faults = {"reject", "write", "read", "activate", "corrupt", "http",
                            "manifest", "activate_reject", "alloc"},
                !.push = "always", !.pushes = 3]
Headless ==
  [Usual EXCEPT !.size = OneEmpty, !.faults = FaultKinds, !.authority = FALSE,
                !.async_init = TRUE, !.reboots = FALSE, !.pushes = 3, !.crashes = 1]

FlowAndFaults == {Flow, Faulty}
BusyAndHeadless == {Busy, Headless}

(* One scenario for each of the violated configurations.                   *)
LatePrepare == {[Usual EXCEPT !.faults = {"prepare_late"}, !.pushes = 1]}
AsyncStart == {[Usual EXCEPT !.async_init = TRUE, !.pushes = 1]}
Details == {[Usual EXCEPT !.faults = {"details"}, !.pushes = 1]}
Leftover == {[Usual EXCEPT !.faults = {"http"}, !.push = "idle"]}
LostHeader ==
  {[Usual EXCEPT !.faults = {"prepare_late", "http", "write", "reject"}, !.push = "idle",
                 !.pushes = 3]}
StaleGrant == {[Usual EXCEPT !.faults = {"alloc"}, !.push = "always", !.pushes = 3]}
Notified == {[Usual EXCEPT !.push = "always"]}
OnePush == {[Usual EXCEPT !.pushes = 1]}

=============================================================================
