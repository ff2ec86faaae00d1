----------------------------- MODULE Credentials -----------------------------
(***************************************************************************)
(* The credentials of the connector client (ConnectorClient.cpp) in the    *)
(* encrypted storage, over restarts and power cuts. The factory stores the *)
(* bootstrap credentials as factory items; the bootstrap server hands out  *)
(* the credentials of the LWM2M server, one generation after the other.    *)
(* The connector client stores them item by item, and deletes them item by *)
(* item when the LWM2M server refuses them.                                *)
(*                                                                         *)
(* Left out: the items that no decision depends on (internal endpoint name, *)
(* account, time), and the network, which Registration models.             *)
(***************************************************************************)
EXTENDS Esfs, Sequences

CONSTANTS
    MaxCuts,        \* power cuts
    MaxRefusals,    \* refusals by the LWM2M server, and redirections
    MaxResets,      \* factory resets by the user
    MaxRestarts,    \* restarts by the user
    AppResets       \* the application answers unreadable credentials by a factory reset

VARIABLES
    client,         \* where the client is, and the calls it is about to make
    provisioned,    \* the factory has stored the bootstrap credentials
    used            \* how often each of the bounded events has happened

vars == <<store, client, provisioned, used>>

BootstrapItems == {"bs_key", "bs_uri"}
ServerItems    == {"ca", "cert", "key", "uri"}

ASSUME ItemsAssumption == Items = BootstrapItems \cup ServerItems

\* At every start the storage is initialized up to three times, one after the
\* other; the model leaves out what follows when all of them fail.
ASSUME FaultsAssumption == MaxFaults \in 0..2

\* A call of a script. With "if_ok" it is made only if the last store succeeded.
Step(op, i, if_ok) == [op |-> op, item |-> i, if_ok |-> if_ok]

set_bootstrap_credentials == <<
    Step("delete", "bs_key", FALSE), Step("store", "bs_key", FALSE),
    Step("delete", "bs_uri", TRUE),  Step("store", "bs_uri", TRUE) >>

\* Mutant: the key is stored although the certificate was not.
set_connector_unchecked == <<
    Step("delete", "ca", FALSE), Step("store", "ca", FALSE),
    Step("store", "cert", TRUE), Step("store", "key", FALSE), Step("store", "uri", TRUE) >>

set_connector_credentials == <<
    Step("delete", "ca", FALSE), Step("store", "ca", FALSE),
    Step("store", "cert", TRUE), Step("store", "key", TRUE), Step("store", "uri", TRUE) >>

delete_connector_credentials == <<
    Step("delete", "uri", FALSE),  Step("delete", "ca", FALSE),
    Step("delete", "cert", FALSE), Step("delete", "key", FALSE) >>

\* The factory empties the storage and stores the bootstrap credentials.
provision == << Step("init", "bs_key", FALSE), Step("wipe", "bs_key", FALSE),
    Step("store_factory", "bs_key", FALSE), Step("store_factory", "bs_uri", TRUE) >>

initialize_storage == << Step("init", "bs_key", FALSE) >>
kcm_factory_reset  == << Step("reset", "bs_key", FALSE) >>

Places == {"off", "factory", "boot", "bootstrap", "register", "registered",
           "failed", "reset"}

TypeOK ==
    /\ StoreTypeOK
    /\ client.at \in Places
    /\ client.ok \in BOOLEAN
    /\ client.instance \in BOOLEAN
    /\ Len(client.script) <= 9
    /\ provisioned \in BOOLEAN
    /\ used \in [cuts : 0..MaxCuts, refusals : 0..MaxRefusals, resets : 0..MaxResets,
                 restarts : 0..MaxRestarts, bootstraps : 0..MaxGen]

Off == [at |-> "off", script |-> << >>, ok |-> TRUE, instance |-> FALSE]

Init == /\ StoreInit
        /\ client = Off
        /\ provisioned = FALSE
        /\ used = [cuts |-> 0, refusals |-> 0, resets |-> 0, restarts |-> 0,
                   bootstraps |-> 0]

-----------------------------------------------------------------------------
(* Running a script.                                                       *)

\* The script is done, and the client is at place p.
Ready(p) == client.at = p /\ Idle /\ client.script = << >>

Run(script, p) == client' = [client EXCEPT !.at = p, !.script = script]

Count(e) == used' = [used EXCEPT ![e] = @ + 1]

\* The status that the last store returned.
StatusOk == IF call.op \in {"store", "store_factory"} THEN call.status = "success"
                                                     ELSE client.ok

\* The next call of the script is made or left out.
MakeCall ==
    /\ Idle
    /\ client.script # << >>
    /\ LET s == Head(client.script)
       IN  IF s.if_ok /\ ~StatusOk
           THEN UNCHANGED store
           ELSE /\ call' = Calls(s.op, s.item, used.bootstraps)
                /\ UNCHANGED <<disk, initialized, faults>>
    /\ client' = [client EXCEPT !.script = Tail(@), !.ok = StatusOk]
    /\ UNCHANGED <<provisioned, used>>

-----------------------------------------------------------------------------
(* The device is switched on. The constructor of the connector client      *)
(* initializes the storage, and so do the first reads if that failed.      *)

PowerOn ==
    /\ Ready("off")
    /\ IF provisioned
       THEN Run(initialize_storage \o initialize_storage \o initialize_storage, "boot")
       ELSE Run(provision, "factory")
    /\ UNCHANGED <<store, provisioned, used>>

Reads(i) == initialized /\ Readable(i)

Provisioned ==
    /\ Ready("factory")
    /\ provisioned' = StatusOk
    /\ StoreCut
    /\ client' = Off
    /\ UNCHANGED used

\* connector_credentials_available looks at the private key only.
Decide ==
    /\ Ready("boot")
    /\ Run(initialize_storage, IF Reads("key") THEN "register" ELSE "bootstrap")
    /\ UNCHANGED <<store, provisioned, used>>

-----------------------------------------------------------------------------
(* Bootstrap.                                                              *)

\* create_bootstrap_object: the security instance is made once.
CanBootstrap == client.instance \/ (Reads("bs_uri") /\ Reads("bs_key"))

BootstrapDone ==
    /\ Ready("bootstrap")
    /\ CanBootstrap
    /\ used.bootstraps < MaxGen
    /\ client' = [client EXCEPT !.at = "registered", !.instance = TRUE,
                    !.script = set_bootstrap_credentials \o set_connector_credentials]
    /\ Count("bootstraps")
    /\ UNCHANGED <<store, provisioned>>

\* The bootstrap server wrote no LWM2M server: the client bootstraps again.
BootstrapRedirected ==
    /\ Ready("bootstrap")
    /\ CanBootstrap
    /\ used.refusals < MaxRefusals
    /\ client' = [client EXCEPT !.instance = TRUE,
                    !.script = set_bootstrap_credentials \o delete_connector_credentials]
    /\ Count("refusals")
    /\ UNCHANGED <<store, provisioned>>

BootstrapImpossible ==
    /\ Ready("bootstrap")
    /\ ~CanBootstrap
    /\ Run(<< >>, "failed")
    /\ UNCHANGED <<store, provisioned, used>>

-----------------------------------------------------------------------------
(* Registration with the stored credentials.                               *)

\* create_register_object reads all items; the handshake needs a certificate
\* that belongs to the key.
CanRegister == /\ \A i \in ServerItems : Reads(i)
               /\ working["cert"].gen = working["key"].gen

Register ==
    /\ Ready("register")
    /\ CanRegister
    /\ Run(<< >>, "registered")
    /\ UNCHANGED <<store, provisioned, used>>

\* ConnectorClient::error deletes the credentials and bootstraps again.
Refused ==
    /\ Ready("register")
    /\ IF CanRegister THEN used.refusals < MaxRefusals /\ Count("refusals")
                      ELSE UNCHANGED used
    /\ client' = [client EXCEPT !.at = "bootstrap", !.instance = FALSE,
                                !.script = delete_connector_credentials]
    /\ UNCHANGED <<store, provisioned>>

-----------------------------------------------------------------------------
(* The user and the power.                                                 *)

\* A factory reset by the user, or by an application that was told that the
\* credentials cannot be read.
ResetToFactory ==
    /\ \/ Ready("registered") /\ used.resets < MaxResets /\ Count("resets")
       \/ Ready("failed") /\ AppResets /\ UNCHANGED used
    /\ Run(kcm_factory_reset, "reset")
    /\ UNCHANGED <<store, provisioned>>

SwitchOff == StoreCut /\ client' = Off /\ UNCHANGED provisioned

\* Mutant: the device goes on without a restart.
GoOnAfterReset == /\ Ready("reset")
                  /\ Run(initialize_storage, "boot")
                  /\ UNCHANGED <<store, provisioned, used>>

RestartAfterReset == Ready("reset") /\ SwitchOff /\ UNCHANGED used

Restart == /\ Ready("registered")
           /\ used.restarts < MaxRestarts
           /\ Count("restarts")
           /\ SwitchOff

PowerCut == /\ client.at # "off"
            /\ used.cuts < MaxCuts
            /\ Count("cuts")
            /\ SwitchOff

-----------------------------------------------------------------------------

System == \/ StoreStep /\ UNCHANGED <<client, provisioned, used>>
          \/ MakeCall \/ PowerOn \/ Provisioned \/ Decide
          \/ BootstrapDone \/ BootstrapImpossible \/ Register
          \/ RestartAfterReset
          \/ Ready("failed") /\ ResetToFactory
          \/ ~CanRegister /\ Refused

Next == \/ System
        \/ BootstrapRedirected \/ Refused \/ ResetToFactory
        \/ Restart \/ PowerCut

Spec == Init /\ [][Next]_vars

\* The processor goes on; a device that is off is switched on.
FairSpec == Spec /\ WF_vars(System)

-----------------------------------------------------------------------------
(* Properties.                                                             *)

Visible(i) == IF fr_on THEN backup[i] ELSE working[i]

\* A certificate and a private key that can both be read are of the same
\* bootstrap, and so are the key and the server's address, wherever the power
\* was cut in set_connector_credentials, in error or in a factory reset. A
\* delete that fails is not noticed, and may leave an old item beside new ones.
CredentialsMatch ==
    "delete" \notin faults =>
    \A i \in {"cert", "uri"} : Readable(i) /\ Readable("key") => working[i].gen = working["key"].gen

\* The bootstrap credentials of the factory are never lost: what the connector
\* client stores at each bootstrap goes to the working directory only.
FactoryKept == provisioned => \A i \in BootstrapItems : backup[i] = Whole(0)

\* A call that returns success has taken effect for every later reader, also
\* for one after a power cut: kcm_item_store, kcm_item_delete and
\* kcm_factory_reset.
SuccessIsKept ==
    [][(~Idle /\ Idle' /\ call'.status = "success") =>
        /\ call.op \in {"store", "store_factory"} => Visible(call.item)' = Whole(call.gen)
        /\ call.op = "delete" => Visible(call.item)' = Absent
        /\ call.op \in {"init", "reset"} => ~fr_on']_vars

\* The connector client calls the storage carefully: in particular it makes no
\* call between a factory reset that failed and the restart.
CallsCarefully == StoreSpec


\* The same without that exception. (Violated.)
CredentialsAlwaysMatch ==
    Readable("cert") /\ Readable("key") => working["cert"].gen = working["key"].gen

\* What bootstrap_done reports: a device that was bootstrapped and registered
\* has stored its credentials. (Violated: the status of a store that failed is
\* overwritten.)
BootstrapIsStored == Ready("registered") => \A i \in ServerItems : Readable(i)
=============================================================================
