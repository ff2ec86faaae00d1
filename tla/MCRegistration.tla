--------------------------- MODULE MCRegistration ---------------------------
EXTENDS Registration

Device(tcp, bootstrap, creds, unlikely) ==
  [tcp |-> tcp, bootstrap |-> bootstrap, provisioned |-> TRUE, creds |-> creds,
   app |-> "careful", unlikely |-> unlikely]

\* A device that is bootstrapped, and a registered one with a worse network
mUsual == {Device(tcp, TRUE, c, {}) : tcp \in BOOLEAN, c \in {"none", "partial", "stored"}}
          \cup {Device(tcp, FALSE, "stored", {"reorder", "repeat", "close_on_send", "memory"}) :
                    tcp \in BOOLEAN}

\* One device at a time, for the configurations that show a disagreement
mPlain == {Device(FALSE, FALSE, "stored", {})}
mPlainTcp == {Device(TRUE, FALSE, "stored", {})}
mUnprovisioned == {Device(FALSE, FALSE, "none", {})}
mClosedOnSend == {Device(FALSE, TRUE, "none", {"close_on_send"})}
mRepeat == {Device(FALSE, TRUE, "none", {"repeat"})}
mMemory == {Device(FALSE, TRUE, "none", {"memory"})}
mAckLost == {Device(TRUE, TRUE, "none", {"ack_lost"})}
mHasty == {[Device(FALSE, FALSE, "stored", {}) EXCEPT !.app = "hasty"]}
=============================================================================
