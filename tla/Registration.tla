---------------------------- MODULE Registration ----------------------------
(***************************************************************************)
(* How the client gets and keeps its registration: ServiceClient and       *)
(* ConnectorClient, the state machine of M2MInterfaceImpl, the requests of *)
(* M2MNsdlInterface and the socket of M2MConnectionHandlerPimpl.           *)
(*                                                                         *)
(* All of it runs on the event loop.  A handler and the callbacks nested   *)
(* in it are one step, so the client is one record and every function of   *)
(* the code is an operator from the record it finds to the one it leaves.  *)
(* Certificate mode, DNS without a thread, no queue mode.                  *)
(***************************************************************************)
EXTENDS Naturals, Sequences, FiniteSets, SequencesExt

CONSTANTS
    Configs,     \* the settings to start from, see ConfigType
    MaxCalls,    \* how often the application calls
    MaxFaults,   \* how often something fails
    MaxTls       \* MBED_CONF_MBED_CLIENT_TLS_MAX_RETRY

VARIABLES
    config,      \* the settings of this device and of this run
    client,      \* the client and what the network holds for it
    peer,        \* does the server hold a registration of this client?
    calls, faults

vars == <<config, client, peer, calls, faults>>

(***************************************************************************)
(* tcp: TCP instead of UDP.  bootstrap: use_bootstrap().  provisioned: the *)
(* bootstrap credentials are stored.  creds: the LWM2M credentials that    *)
(* are stored.  app: "careful" calls only when no event is queued, and     *)
(* update and close only when it was told of the registration.             *)
(* unlikely: what else may happen.                                         *)
(***************************************************************************)
ConfigType == [tcp : BOOLEAN, bootstrap : BOOLEAN, provisioned : BOOLEAN,
               creds : {"none", "partial", "stored"},
               app : {"careful", "hasty"},
               unlikely : SUBSET {"reorder", "repeat", "close_on_send", "memory", "ack_lost"}]
ASSUME ConfigsAssumption == Configs \subseteq ConfigType
ASSUME BoundsAssumption == MaxCalls \in Nat /\ MaxFaults \in Nat /\ MaxTls \in Nat

Requests == {"bootstrap", "register", "update", "unregister"}
Message(k, code) == [kind |-> k, code |-> code]

\* What can be read: answers, requests of the server, the end of the connection
Readable == [kind : Requests, code : {"ok", "bad", "gone", "other"}]
            \cup [kind : {"put", "bad_put", "finish", "get", "old", "closed", "fail"}, code : {"ok"}]

ClientType ==
  [service : {"init", "bootstrap", "register", "success", "failure", "unregister"},
   connector : {"bootstrap", "registration"},    \* before and from Registration_Start
   told : {"nothing", "registered", "updated", "unregistered", "error"},
   state : {"idle", "bootstrap", "bs_created", "bs_wait", "bs_error_wait",
            "bootstrapped", "register", "reg_resolved", "registered", "update", "waiting"},
   security : BOOLEAN,       \* _security is set
   address : {"none", "bootstrap", "lwm2m"},     \* whose _server_ip_address
   reconnecting : BOOLEAN,
   reconnection : {"none", "update", "full", "unregistration"},
   bootstrapped : BOOLEAN,
   timers : SUBSET {"retry", "flow_bootstrap", "flow_registration", "rebootstrap",
                    "registration", "nsdl", "tls"},
   creds : {"none", "partial", "stored"},
   m2m : {"none", "bad", "good"},                \* the M2MServer instance
   bs : BOOLEAN,                                 \* the Bootstrap instance
   bs_id : BOOLEAN, unregister_ongoing : BOOLEAN,
   registered : BOOLEAN,                         \* sn_nsdl_endpoint_registered
   ids : SUBSET Requests,                        \* ids that an answer can match
   resend : SUBSET Requests,                     \* the resending queue
   socket : {"disconnected", "resolving", "connecting", "handshaking", "secure"},
   type : {"bootstrap", "lwm2m"},
   events : Seq({"dns", "callback", "send", "close"}),
   in_flight : BOOLEAN,                          \* _suppressable_event_in_flight
   reading : BOOLEAN,                            \* in the loop of receive_handler
   queue : Seq(Requests \cup {"reply"}),         \* _linked_list_send_data
   tries : 0..MaxTls + 1,                        \* _handshake_retry
   memory : BOOLEAN,                             \* can send_data allocate?
   net : Seq(Readable),                          \* under way to the socket
   rx : Seq(Readable),                           \* to be read from the socket
   serving : {"no", "put", "finish", "close"},   \* what the bootstrap server does next
   grants : SUBSET Requests,                     \* confirmed by the server, not told yet
   session : BOOLEAN]                            \* setup, and not told unregistered since

TypeOK ==
    /\ config \in Configs
    /\ client \in ClientType
    /\ peer \in BOOLEAN
    /\ calls \in 0..MaxCalls
    /\ faults \in 0..MaxFaults
-----------------------------------------------------------------------------
(* Timers and events *)

Start(c, t) == [c EXCEPT !.timers = @ \cup {t}]

Stop(c, ts) == [c EXCEPT !.timers = @ \ ts]

Flow == {"flow_bootstrap", "flow_registration"}

StartFlow(c, t) == IF config.tcp THEN Start(Stop(c, Flow), t) ELSE c

SendEvent(c, e) == [c EXCEPT !.events = Append(@, e)]

\* send_socket_event: a callback is dropped when one is under way
SendSocketEvent(c, e) ==
    IF e # "callback" THEN SendEvent(c, e)
    ELSE IF c.in_flight THEN c
    ELSE SendEvent([c EXCEPT !.in_flight = TRUE], e)

StopListening(c) == SendSocketEvent(c, "close")

(* close_socket *)
CloseSocket(c) ==
    [c EXCEPT !.in_flight = FALSE, !.socket = "disconnected", !.queue = <<>>,
              !.net = <<>>, !.rx = <<>>, !.serving = "no"]
-----------------------------------------------------------------------------
(* What the application is told: ServiceClient *)

\* connector_error
ServiceError(c) == [c EXCEPT !.service = "failure", !.told = "error"]

\* ConnectorClient::error
ConnectorError(c, error) ==
    IF c.connector = "registration" /\ config.bootstrap /\ error \in {"secure", "invalid"}
    THEN Start([c EXCEPT !.creds = "none", !.m2m = "none", !.bs = FALSE], "rebootstrap")
    ELSE ServiceError(c)

\* Mutant: the id of the bootstrap request is kept
StateIdleKeepsId(c) ==
    Stop([c EXCEPT !.state = "idle", !.unregister_ongoing = FALSE], {"registration", "nsdl"})

(* state_idle, with M2MNsdlInterface::stop_timers *)
StateIdle(c) ==
    Stop([c EXCEPT !.state = "idle", !.bs_id = FALSE, !.unregister_ongoing = FALSE],
         {"registration", "nsdl"})

ResolveServerAddress(c, type) ==
    SendEvent([c EXCEPT !.socket = "resolving", !.type = type], "dns")

(* state_bootstrap; data: the event carries the security object *)
StateBootstrap(c, data) ==
    LET b == [c EXCEPT !.state = "bootstrap", !.bootstrapped = FALSE]
        s == IF c.security THEN b
             ELSE [b EXCEPT !.security = data, !.address = "bootstrap"]
    IN IF c.security \/ (data /\ c.bs)
       THEN ResolveServerAddress(StartFlow(s, "flow_bootstrap"), "bootstrap")
       ELSE ConnectorError(StateIdle([b EXCEPT !.security = data]), "invalid")

(* state_register; the address is read only when _security is not set yet *)
StateRegister(c, data) ==
    LET r == [c EXCEPT !.state = "register"]
        s == IF c.security THEN r
             ELSE [r EXCEPT !.security = data, !.address = "lwm2m"]
    IN IF c.security \/ (data /\ c.m2m = "good")
       THEN ResolveServerAddress(
                StartFlow([s EXCEPT !.reconnection = "full"], "flow_registration"), "lwm2m")
       ELSE ConnectorError(StateIdle([r EXCEPT !.security = data]), "invalid")
-----------------------------------------------------------------------------
(* Asking for a registration *)

Bootstrap(c) ==
    LET n == [Stop(c, {"retry"}) EXCEPT !.security = FALSE]
    IN IF c.state \in {"idle", "bootstrapped"} THEN StateBootstrap(n, TRUE)
       ELSE ConnectorError(n, "not_allowed")

RegisterObject(c) ==
    IF c.state \in {"idle", "bootstrapped", "registered", "waiting"}
    THEN StateRegister(c, TRUE)
    ELSE ConnectorError(c, "not_allowed")

StartBootstrap(c) ==
    LET s == Stop(c, {"rebootstrap"})
    IN IF config.provisioned
       THEN Bootstrap([s EXCEPT !.bs = TRUE, !.connector = "bootstrap"])
       ELSE ServiceError(s)

CreateRegisterObject(c) ==
    CASE c.m2m # "none"       -> c
      [] c.creds = "stored"   -> [c EXCEPT !.m2m = "good"]
      [] OTHER                -> ServiceError([c EXCEPT !.m2m = "bad"])

StartRegistration(c) ==
    RegisterObject([CreateRegisterObject(c) EXCEPT !.connector = "registration"])

ServiceRegister(c) == StartRegistration([c EXCEPT !.service = "register"])

ServiceBootstrap(c) ==
    LET s == [c EXCEPT !.service = "bootstrap"]
    IN IF c.creds # "none" \/ ~config.bootstrap THEN ServiceRegister(s)
       ELSE StartBootstrap(s)

\* ConnectorClient::bootstrap_done
ConnectorBootstrapDone(c) ==
    IF c.m2m = "none" THEN Start([c EXCEPT !.creds = "none"], "rebootstrap")
    ELSE ServiceRegister([c EXCEPT !.creds = "stored"])

\* M2MInterfaceImpl::bootstrap_done
BootstrapDone(c) ==
    ConnectorBootstrapDone(
        Stop([c EXCEPT !.reconnecting = FALSE, !.reconnection = "none",
                       !.bootstrapped = TRUE, !.state = "bootstrapped"], Flow))
-----------------------------------------------------------------------------
(* Errors *)

Reconnect(c) == Start(StopListening([c EXCEPT !.reconnecting = TRUE]), "retry")

BootstrapError(c) ==
    Reconnect(StateIdle(ConnectorError(
        Stop([c EXCEPT !.bootstrapped = FALSE, !.reconnection = "none"], Flow), "bootstrap")))

\* Mutant: _security is not reset when the bootstrap is done
SocketErrorKeepsSecurity(c, error) ==
    IF c.state = "bs_wait" /\ error = "closed" THEN BootstrapDone(c)
    ELSE LET i == StateIdle(Stop(c, Flow))
             r == Reconnect([i EXCEPT !.reconnection =
                      IF @ \in {"unregistration", "full"} THEN @ ELSE "update"])
         IN IF error = "closed" THEN r ELSE ConnectorError(r, error)

(* socket_error with retry, as it is called everywhere *)
SocketError(c, error) ==
    IF c.state = "bs_wait" /\ error = "closed"
    THEN BootstrapDone([c EXCEPT !.security = FALSE])
    ELSE LET i == StateIdle(Stop(c, Flow))
             r == Reconnect([i EXCEPT !.reconnection =
                      IF @ \in {"unregistration", "full"} THEN @ ELSE "update"])
         IN IF error = "closed" THEN r ELSE ConnectorError(r, error)

RegistrationError(c, error, retry) ==
    IF retry
    THEN SocketError([c EXCEPT !.reconnection =
                          IF error = "unregister" THEN "unregistration" ELSE @], "network")
    ELSE ConnectorError(StateIdle([c EXCEPT !.security = FALSE]), error)
-----------------------------------------------------------------------------
(* Requests: M2MNsdlInterface *)

\* state_sending_coap_data
Sending(c) == Start([c EXCEPT !.state = "waiting"], "nsdl")

CoapMessageReady(c, item) ==
    CASE c.state = "idle" -> c
      [] c.state # "idle" /\ c.socket = "secure" /\ c.memory ->
             SendEvent([Sending(c) EXCEPT !.queue = Append(@, item)], "send")
      [] OTHER -> SocketError(StateIdle(Sending(c)), "network")

(* sn_nsdl_internal_coap_send: the message is kept for resending, then     *)
(* sent.  Its id is new, so answers to the last request of its kind do not *)
(* match any more.                                                         *)
Outdated(messages, k) ==
    [i \in DOMAIN messages |-> IF messages[i].kind = k THEN Message("old", "ok") ELSE messages[i]]

Request(c, k) ==
    CoapMessageReady([c EXCEPT !.resend = @ \cup {k}, !.ids = @ \cup {k},
                               !.net = Outdated(@, k), !.rx = Outdated(@, k)], k)

SendRegisterMessage(c) == Request([c EXCEPT !.resend = {}], "register")

\* a client that is not registered sends nothing, and that counts as success
SendUpdateRegistration(c, clear) ==
    LET s == Stop([c EXCEPT !.resend = IF clear THEN {} ELSE @], {"registration"})
    IN Start(IF c.registered THEN Request(s, "update") ELSE s, "registration")

SendUnregisterMessage(c) ==
    LET s == [c EXCEPT !.unregister_ongoing = TRUE]
    IN IF c.unregister_ongoing THEN c
       ELSE IF c.registered THEN Request(s, "unregister") ELSE s

CreateBootstrapResource(c) ==
    Request([c EXCEPT !.resend = {}], "bootstrap")

StateUpdateRegistration(c, data) ==
    SendUpdateRegistration([c EXCEPT !.state = "update"], ~data)

StateUnregister(c) == SendUnregisterMessage(Sending(c))

StateRegistered(c) ==
    LET s == Stop([c EXCEPT !.state = "registered", !.reconnecting = FALSE], Flow)
    IN [(IF c.reconnection = "unregistration" THEN StateUnregister(s) ELSE s)
           EXCEPT !.reconnection = "none"]

(* address_ready, with the states it enters *)
BootstrapAddressResolved(c) ==
    IF c.bs_id THEN ConnectorError(StateIdle(c), "invalid")
    ELSE [CreateBootstrapResource([c EXCEPT !.state = "bs_created"])
             EXCEPT !.bs_id = TRUE, !.state = "bs_created"]

RegisterAddressResolved(c) ==
    IF c.reconnection \in {"none", "full"}
    THEN SendRegisterMessage([c EXCEPT !.state = "reg_resolved"])
    ELSE StateUpdateRegistration(c, FALSE)

AddressReady(c) ==
    IF c.type = "bootstrap" THEN BootstrapAddressResolved(c) ELSE RegisterAddressResolved(c)
-----------------------------------------------------------------------------
(* Messages that arrive *)

Tell(c, k, service, told) ==
    [c EXCEPT !.service = service, !.told = told, !.grants = @ \ {k}]

ClientRegistered(c) == Tell(StateRegistered(c), "register", "success", "registered")

RegistrationUpdated(c) ==
    LET s == StateRegistered(c) IN Tell(s, "update", s.service, "updated")

\* state_unregistered
ClientUnregistered(c) ==
    [Tell(StateIdle(StopListening(c)), "unregister", "unregister", "unregistered")
        EXCEPT !.session = FALSE]

HandleBootstrapError(c, wait) ==
    LET s == [c EXCEPT !.m2m = "none"]
    IN IF wait THEN [s EXCEPT !.state = "bs_error_wait"] ELSE BootstrapError(s)

\* received_from_server_callback for the answer to a request of kind k
Answered(c, k, code) ==
    CASE k = "register" /\ code = "ok" -> ClientRegistered(Start(c, "registration"))
      [] k = "register" /\ code = "bad" -> RegistrationError(c, "invalid", FALSE)
      [] k = "register" /\ code \notin {"ok", "bad"} -> RegistrationError(c, "network", TRUE)
      [] k = "unregister" /\ code = "ok" ->
             ClientUnregistered(Stop([c EXCEPT !.unregister_ongoing = FALSE], {"registration"}))
      [] k = "unregister" /\ code # "ok" ->
             RegistrationError([c EXCEPT !.unregister_ongoing = FALSE], "unregister", code # "gone")
      [] k = "update" /\ code = "ok" -> RegistrationUpdated(c)
      [] k = "update" /\ code # "ok" /\ ~config.tcp /\ code # "gone" ->
             RegistrationError(Stop(c, {"registration"}), "network", TRUE)
      [] k = "update" /\ code # "ok" /\ (config.tcp \/ code = "gone") ->
             Request([Stop(c, {"registration"}) EXCEPT !.resend = {}], "register")
      [] k = "bootstrap" /\ code = "ok" -> [c EXCEPT !.bs_id = FALSE]
      [] k = "bootstrap" /\ code # "ok" -> HandleBootstrapError([c EXCEPT !.bs_id = FALSE], FALSE)

\* Mutant: the message id is not compared
MatchedAll(c, k, code) ==
    [Answered([c EXCEPT !.registered = @ \/ (k = "register" /\ code = "ok")], k, code)
        EXCEPT !.ids = @ \ {k}]

(* sn_nsdl_local_rx_function: only a registration that was created and an  *)
(* update that was made clear their ids, the other two always do.          *)
Matched(c, k, code) ==
    LET r == [c EXCEPT !.registered = @ \/ (k = "register" /\ code = "ok")]
    IN IF k \notin c.ids THEN c
       ELSE [Answered(r, k, code) EXCEPT !.ids =
                IF code = "ok" \/ k \in {"unregister", "bootstrap"} THEN @ \ {k} ELSE @]

\* handle_bootstrap_put_message
BootstrapPut(c, good) ==
    IF good THEN CoapMessageReady([c EXCEPT !.m2m = "good"], "reply")
    ELSE HandleBootstrapError(CoapMessageReady(c, "reply"), TRUE)

\* handle_bootstrap_finished
BootstrapFinished(c) ==
    LET s == CoapMessageReady(c, "reply")
    IN IF c.m2m = "none" THEN HandleBootstrapError(s, TRUE)
       ELSE [s EXCEPT !.state = "bs_wait"]

(* data_available, down to the callbacks of the message *)
Received(c, m) ==
    LET w == [c EXCEPT !.state = "waiting", !.resend = @ \ {m.kind}]
    IN CASE m.kind \in Requests -> Matched(w, m.kind, m.code)
         [] m.kind \in {"put", "bad_put"} -> BootstrapPut(w, m.kind = "put")
         [] m.kind = "finish" -> BootstrapFinished(w)
         [] m.kind = "get" -> CoapMessageReady(w, "reply")
         [] m.kind = "old" -> w

(* receive_handler, one turn of its loop *)
Read(c) ==
    LET m == Head(c.rx)
        r == [c EXCEPT !.rx = Tail(@), !.reading = (Len(c.rx) > 1)]
    IN CASE m.kind = "closed" -> SocketError([r EXCEPT !.reading = FALSE], "closed")
         [] m.kind = "fail" -> CloseSocket(SocketError([r EXCEPT !.reading = FALSE], "network"))
         [] m.kind \notin {"closed", "fail"} -> Received(r, m)
-----------------------------------------------------------------------------
(* The socket *)

DataSent(c) ==
    CASE c.state = "bs_error_wait" -> BootstrapError(c)
      [] c.state = "bs_wait" -> c
      [] OTHER -> [c EXCEPT !.state = "waiting"]

(* send_socket_data; the outcome is that of the send *)
SendSocketData(c, outcome) ==
    LET s == [c EXCEPT !.queue = Tail(@)]
    IN CASE c.queue = <<>> \/ c.socket # "secure" \/ outcome = "would_block" -> c
         [] OTHER -> CASE outcome = "sent" -> DataSent(s)
                       [] outcome = "fail" -> CloseSocket(SocketError(s, "network"))
                       [] outcome = "closed" -> CloseSocket(SocketError(s, "closed"))

Handshake(c) ==
    SendSocketEvent([c EXCEPT !.socket = "handshaking"], "callback")

(* socket_connect_handler from ESocketStateConnectBeingCalled on *)
Connect(c, outcome) ==
    CASE outcome = "ok" -> Handshake(c)
      [] outcome = "in_progress" -> [c EXCEPT !.socket = "connecting"]
      [] outcome = "fail" -> SocketError(CloseSocket(c), "network")
      [] outcome = "insecure" -> SocketError(CloseSocket(c), "secure")

(* receive_handshake_handler *)
ReceiveHandshake(c, outcome) ==
    LET first == [c EXCEPT !.tries = 0]
    IN CASE outcome = "ok" -> AddressReady([first EXCEPT !.socket = "secure"])
         [] outcome = "closed" -> CloseSocket(SocketError(first, "closed"))
         [] outcome = "fail" -> CloseSocket(SocketError(first, "secure"))
         [] outcome = "wants_read" /\ c.tries > MaxTls ->
                Start(CloseSocket(SocketError(first, "network")), "tls")
         [] outcome = "wants_read" /\ c.tries <= MaxTls ->
                Start([c EXCEPT !.tries = @ + 1], "tls")
-----------------------------------------------------------------------------
(* The server and the network *)

\* The answers of a server that works, and of one that does not
Codes(k) ==
    CASE k \in {"bootstrap", "register"} -> {"ok"}
      [] k = "update" -> IF peer THEN {"ok"} ELSE {"gone"}
      [] k = "unregister" -> IF peer THEN {"ok"} ELSE {"ok", "gone"}
Refusals(k) == IF k = "register" THEN {"bad", "other"} ELSE {"other"}

Faulty(n) == faults + n <= MaxFaults /\ faults' = faults + n

\* Request k reaches the server.  The answer may get lost; c is the client after the send.
Served(c, k) ==
    \E code \in Codes(k) \cup Refusals(k), arrives \in BOOLEAN :
      LET ok == code = "ok"
          goes_on == arrives \/ "ack_lost" \in config.unlikely
          s == [c EXCEPT !.grants = IF ok THEN @ \cup ({k} \ {"bootstrap"}) ELSE @,
                         !.serving = IF ok /\ k = "bootstrap" /\ goes_on THEN "put" ELSE @]
      IN /\ Faulty((IF code \in Codes(k) THEN 0 ELSE 1) + (IF arrives THEN 0 ELSE 1))
         /\ client' = IF arrives THEN [s EXCEPT !.net = Append(@, Message(k, code))] ELSE s
         /\ peer' = IF ok /\ k = "register" THEN TRUE
                    ELSE IF ok /\ k = "unregister" THEN FALSE ELSE peer

SendOutcomes == {"would_block", "fail"}
                \cup (IF "close_on_send" \in config.unlikely THEN {"closed"} ELSE {})

\* The server, or the network, has ended the connection
Closed(c) == \E m \in Range(c.net \o c.rx) : m.kind \in {"closed", "fail"}

\* send_socket_data as the last thing a handler does
AndSend(c, n) ==
    \/ /\ c.queue = <<>> \/ c.socket # "secure"
       /\ client' = c /\ Faulty(n) /\ UNCHANGED peer
    \/ /\ c.queue # <<>> /\ c.socket = "secure"
       /\ \/ /\ Head(c.queue) \in Requests /\ n = 0 /\ ~Closed(c)
             /\ Served(SendSocketData(c, "sent"), Head(c.queue))
          \/ /\ Head(c.queue) = "reply" /\ Faulty(n)
             /\ client' = SendSocketData(c, "sent") /\ UNCHANGED peer
          \/ /\ Head(c.queue) \in Requests        \* lost on the way
             /\ Faulty(n + IF Closed(c) THEN 0 ELSE 1)
             /\ client' = SendSocketData(c, "sent") /\ UNCHANGED peer
          \/ \E outcome \in SendOutcomes :
                /\ Faulty(n + 1) /\ client' = SendSocketData(c, outcome) /\ UNCHANGED peer

Deliver ==
    \E i \in 1..Len(client.net) :
      LET c == SendSocketEvent([client EXCEPT !.rx = Append(@, client.net[i])], "callback")
      IN /\ i = 1 \/ "reorder" \in config.unlikely
         /\ client.socket = "secure"
         /\ \/ client' = [c EXCEPT !.net = RemoveAt(@, i)] /\ UNCHANGED faults
            \/ "repeat" \in config.unlikely /\ client' = c /\ Faulty(1)
    /\ UNCHANGED <<config, peer, calls>>

\* The connection ends, reading it fails, or the server asks for a resource
NetworkActs ==
    /\ client.socket = "secure"
    /\ \E k \in {"closed", "fail", "get"} :
         /\ k = "get" => client.type = "lwm2m" \/ "repeat" \in config.unlikely
         /\ client' = [client EXCEPT !.net = Append(@, Message(k, "ok"))]
    /\ Faulty(1)
    /\ UNCHANGED <<config, peer, calls>>

\* The bootstrap server goes on when it has the answer to its last message
BootstrapServerActs ==
    /\ client.serving # "no" /\ client.queue = <<>> /\ client.net = <<>> /\ client.rx = <<>>
    /\ \E k \in {"put", "bad_put", "finish", "closed"} :
         /\ k \in CASE client.serving = "put" -> {"put", "bad_put"}
                     [] client.serving = "finish" -> {"finish"}
                     [] client.serving = "close" ->
                          {"closed"} \cup (IF "repeat" \in config.unlikely THEN {"finish"} ELSE {})
         /\ client' = [client EXCEPT !.net = Append(@, Message(k, "ok")),
                                     !.serving = CASE k = "put" -> "finish" [] k = "finish" -> "close"
                                                   [] k \in {"bad_put", "closed"} -> "no"]
         /\ IF k = "bad_put" \/ (k = "finish" /\ client.serving = "close") THEN Faulty(1)
            ELSE UNCHANGED faults
    /\ UNCHANGED <<config, peer, calls>>

ServerForgets ==
    /\ peer /\ peer' = FALSE /\ Faulty(1)
    /\ UNCHANGED <<config, client, calls>>

MemoryRunsOut ==
    /\ "memory" \in config.unlikely /\ client.memory
    /\ client' = [client EXCEPT !.memory = FALSE] /\ Faulty(1)
    /\ UNCHANGED <<config, peer, calls>>

MemoryReturns ==
    /\ ~client.memory /\ client' = [client EXCEPT !.memory = TRUE]
    /\ UNCHANGED <<config, peer, calls, faults>>
-----------------------------------------------------------------------------
(* The handlers that the event loop runs *)

Next1(e) == ~client.reading /\ client.events # <<>> /\ Head(client.events) = e

Popped == [client EXCEPT !.events = Tail(@)]

\* event_handler, ESocketCallback
HandleCallback ==
    LET c == [Popped EXCEPT !.in_flight = FALSE]
    IN /\ Next1("callback")
       /\ CASE c.socket = "handshaking" ->
                 \E outcome \in {"ok", "closed", "fail", "wants_read"} :
                   AndSend(ReceiveHandshake(c, outcome), IF outcome = "ok" THEN 0 ELSE 1)
            [] c.socket = "secure" /\ c.rx = <<>> -> AndSend(c, 0)
            [] c.socket = "secure" /\ c.rx # <<>> ->
                 client' = [c EXCEPT !.reading = TRUE] /\ UNCHANGED <<peer, faults>>
            [] c.socket = "connecting" ->
                 \E outcome \in {"ok", "in_progress", "fail", "insecure"} :
                   AndSend(Connect(c, outcome), IF outcome = "ok" THEN 0 ELSE 1)
            [] OTHER -> AndSend(c, 0)
       /\ UNCHANGED <<config, calls>>

\* the loop of receive_handler, and send_socket_data after it
HandleRead ==
    LET r == Read(client)
    IN /\ client.reading
       /\ IF r.reading THEN client' = r /\ UNCHANGED <<peer, faults>> ELSE AndSend(r, 0)
       /\ UNCHANGED <<config, calls>>

HandleSend ==
    /\ Next1("send")
    /\ AndSend(Popped, 0)
    /\ UNCHANGED <<config, calls>>

\* handle_dns_result, and socket_connect_handler from EsocketStateInitializeConnection on
HandleDns ==
    /\ Next1("dns")
    /\ IF client.socket # "resolving" THEN client' = Popped /\ UNCHANGED faults
       ELSE \/ client' = SocketError(Popped, "dns") /\ Faulty(1)
            \/ \E outcome \in {"ok", "in_progress", "fail", "insecure"} :
                 /\ outcome = "in_progress" => config.tcp
                 /\ client' = Connect(CloseSocket(Popped), outcome)
                 /\ Faulty(IF outcome = "ok" THEN 0 ELSE 1)
    /\ UNCHANGED <<config, peer, calls>>

HandleClose ==
    /\ Next1("close")
    /\ client' = CloseSocket(Popped)
    /\ UNCHANGED <<config, peer, calls, faults>>

\* The socket is connected, readable or writable
SocketSignals ==
    /\ \/ client.socket \in {"connecting", "handshaking"}
       \/ client.socket = "secure" /\ client.queue # <<>> /\ client.events = <<>>
    /\ client' = SendSocketEvent(client, "callback")
    /\ client' # client
    /\ client.socket = "handshaking" => "tls" \in client.timers
    /\ UNCHANGED <<config, peer, calls, faults>>
-----------------------------------------------------------------------------
(* Timers.  The events that are queued run before a timer of 100 ms, and   *)
(* that before the retry timer, which waits two seconds or more.           *)

Expires(t) == ~client.reading /\ t \in client.timers

RetryExpires ==
    LET c == Stop(client, {"retry"})
    IN /\ Expires("retry") /\ ~Contains(client.events, "close") /\ ~Expires("rebootstrap")
       /\ client' = IF c.bootstrapped THEN StateRegister(c, FALSE) ELSE StateBootstrap(c, FALSE)
       /\ UNCHANGED <<config, peer, calls, faults>>

RebootstrapExpires ==
    /\ Expires("rebootstrap") /\ ~Contains(client.events, "close")
    /\ client' = StartBootstrap(client)
    /\ UNCHANGED <<config, peer, calls, faults>>

\* The flow timer waits long: it is a fault when it does not wait for something lost
FlowExpires ==
    /\ IF Expires("flow_bootstrap") THEN client' = BootstrapError(Stop(client, Flow))
       ELSE Expires("flow_registration")
            /\ client' = RegistrationError(Stop(client, Flow), "timeout", TRUE)
    /\ IF /\ client.events = <<>> /\ client.net = <<>> /\ client.rx = <<>>
          /\ client.resend = {} \/ ~Expires("nsdl") \/ client.socket # "secure"
          /\ client.serving = "no"
       THEN UNCHANGED faults ELSE Faulty(1)
    /\ UNCHANGED <<config, peer, calls>>

TlsTimerExpires ==
    /\ Expires("tls")
    /\ client' = SendEvent(Stop(client, {"tls"}), "callback")
    /\ UNCHANGED <<config, peer, calls, faults>>

RegistrationExpires ==
    /\ Expires("registration") /\ ~client.unregister_ongoing
    /\ calls < MaxCalls /\ calls' = calls + 1
    /\ client' = SendUpdateRegistration(client, FALSE)
    /\ UNCHANGED <<config, peer, faults>>

\* sn_nsdl_exec: a request that is not answered is sent again, in the end it fails.
\* That it is due just while the client connects again happens as often as a fault.
Retransmit ==
    /\ Expires("nsdl")
    /\ \E k \in client.resend :
         /\ ~Contains(client.queue, k)
         /\ \/ ("repeat" \in config.unlikely \/ client.socket # "secure") /\ Faulty(1)
            \/ /\ client.socket = "secure"
               /\ \A m \in Range(client.net \o client.rx) : m.kind # k
               /\ UNCHANGED faults
         /\ client' = CoapMessageReady(client, k)
    /\ UNCHANGED <<config, peer, calls>>

GiveUp ==
    /\ Expires("nsdl")
    /\ \E k \in client.resend :
         LET c == [client EXCEPT !.resend = @ \ {k}, !.state = "waiting"]
         IN client' = IF k \in c.ids THEN Answered(c, k, "other") ELSE c
    /\ Faulty(1)
    /\ UNCHANGED <<config, peer, calls>>
-----------------------------------------------------------------------------
(* The application *)

Careful(condition) == config.app = "careful" => condition

Calls ==
    /\ ~client.reading /\ Careful(client.events = <<>>)
    /\ calls < MaxCalls /\ calls' = calls + 1
    /\ UNCHANGED <<config, peer, faults>>

Told == client.told \in {"registered", "updated"} /\ ~client.unregister_ongoing

Setup ==
    /\ Calls
    /\ LET c == [client EXCEPT !.session = TRUE]
       IN \/ /\ client.service \in {"init", "unregister", "failure"}
             /\ client' = ServiceBootstrap(c)
          \/ /\ client.service = "success"
             /\ client' = [c EXCEPT !.told = "registered"]

\* start_register_update
Update ==
    /\ Calls /\ Careful(Told)
    /\ client.m2m # "none" /\ ~client.reconnecting
    /\ LET c == [client EXCEPT !.reconnection = "update"]
       IN client' = CASE c.state = "idle" -> StateRegister(c, TRUE)
                      [] c.state \in {"registered", "waiting"} -> StateUpdateRegistration(c, TRUE)
                      [] OTHER -> ConnectorError(c, "not_allowed")

\* unregister_object
Close ==
    /\ Calls /\ Careful(Told)
    /\ client' = IF client.state \in {"registered", "update", "waiting"}
                 THEN StateUnregister(client) ELSE ConnectorError(client, "not_allowed")
-----------------------------------------------------------------------------
Init ==
    /\ config \in Configs
    /\ client = [service |-> "init", connector |-> "bootstrap", told |-> "nothing",
                 state |-> "idle", security |-> FALSE, address |-> "none",
                 reconnecting |-> FALSE, reconnection |-> "none", bootstrapped |-> TRUE,
                 timers |-> {}, creds |-> config.creds, m2m |-> "none", bs |-> FALSE,
                 bs_id |-> FALSE, unregister_ongoing |-> FALSE, registered |-> FALSE,
                 ids |-> {}, resend |-> {}, socket |-> "disconnected", type |-> "lwm2m",
                 events |-> <<>>, in_flight |-> FALSE, reading |-> FALSE, queue |-> <<>>,
                 tries |-> 0, memory |-> TRUE, net |-> <<>>, rx |-> <<>>, serving |-> "no",
                 grants |-> {}, session |-> FALSE]
    /\ peer = FALSE /\ calls = 0 /\ faults = 0

Loop == HandleCallback \/ HandleRead \/ HandleSend \/ HandleDns \/ HandleClose

Next ==
    \/ Loop \/ SocketSignals \/ Deliver \/ NetworkActs \/ BootstrapServerActs
    \/ ServerForgets \/ MemoryRunsOut \/ MemoryReturns
    \/ RetryExpires \/ RebootstrapExpires \/ FlowExpires \/ TlsTimerExpires
    \/ RegistrationExpires \/ Retransmit \/ GiveUp
    \/ Setup \/ Update \/ Close

Spec == Init /\ [][Next]_vars

(* The loop runs what is queued, timers expire, and the network delivers.  *)
Fairness ==
    /\ WF_vars(Loop) /\ WF_vars(SocketSignals) /\ WF_vars(Deliver)
    /\ WF_vars(BootstrapServerActs) /\ WF_vars(RetryExpires) /\ WF_vars(RebootstrapExpires)
    /\ WF_vars(FlowExpires) /\ WF_vars(TlsTimerExpires) /\ WF_vars(Retransmit)
    /\ WF_vars(MemoryReturns)

FairSpec == Spec /\ Fairness
-----------------------------------------------------------------------------
(* Somebody will do something without the application *)
InMotion ==
    \/ client.events # <<>> \/ client.reading
    \/ client.timers \cap {"retry", "rebootstrap", "tls", "flow_bootstrap", "flow_registration"} # {}
    \/ client.resend # {} /\ "nsdl" \in client.timers
    \/ client.socket = "connecting"
    \/ client.socket = "secure" /\ (client.queue # <<>> \/ client.net # <<>> \/ client.rx # <<>>
                                    \/ client.serving # "no")

\* The application waits for the client: a registration is under way or to be renewed
Busy ==
    \/ client.service \in {"bootstrap", "register"}
    \/ client.session /\ client.reconnecting /\ client.security

(* While a registration is under way or the client says that it is         *)
(* reconnecting, an event, a timer, a request to be repeated or the server *)
(* will move it on: no order of answers, timeouts and errors in            *)
(* socket_error, bootstrap_error and the handlers leaves it waiting for    *)
(* nothing.                                                                *)
NeverStranded == Busy => InMotion

(* When the client resolves an address or connects, _server_ip_address is  *)
(* the address of the server it means to reach, and the security instance  *)
(* of that server exists: state_bootstrap and state_register read it only  *)
(* when _security was reset, and the errors reset it at the right places.  *)
KnowsItsServer ==
    client.socket \in {"resolving", "connecting"} =>
      /\ client.address = client.type
      /\ IF client.type = "lwm2m" THEN client.m2m = "good" ELSE client.bs

(* A socket callback is suppressed (_suppressable_event_in_flight) only    *)
(* while another is queued, so no incoming data is left unread because of  *)
(* a flag that close_socket or an error left behind.                       *)
SuppressionIsSound == client.in_flight => Contains(client.events, "callback")

(* Whatever fails, the client comes to rest again and again: registered,   *)
(* unregistered, or with an error told to the application and nothing to   *)
(* be renewed.  timer_expired, the retries and the rebootstrap do not go   *)
(* round for ever when failures end.                                       *)
Settles == []<>~Busy

(* Each registered, updated and unregistered callback that ServiceClient   *)
(* passes on answers a confirmation of the server that was not told        *)
(* before; see ClientSession.                                              *)
Session == INSTANCE ClientSession WITH
               begun <- client.service # "init", told <- client.told,
               confirmed <- client.grants

(* See the comment above: the callbacks that ServiceClient makes implement *)
(* ClientSession, also when answers are late, lost or repeated.            *)
KeepsThePromise == Session!Spec

(* Comment of state_registered: the unregistration goes on when it had     *)
(* failed because the connection was lost.  Violated: state_register sets  *)
(* _reconnection_state to FullRegistration before the client is registered *)
(* again.                                                                  *)
UnregistrationContinues ==
    client.reconnection = "unregistration" ~> client.told = "unregistered"

(* MbedCloudClient.h: close triggers the on_unregistered callback.         *)
(* Violated, even when an error counts as an answer: a connection that the *)
(* server ends meanwhile makes socket_error register again, and silently.  *)
CloseAnswered == client.unregister_ongoing ~> client.told \in {"unregistered", "error"}

(* After unregistered nothing is confirmed to the application until setup  *)
(* is called again.  Violated: an update that fails while close waits      *)
(* makes received_from_server_callback register again.                     *)
SilentAfterClose ==
    [][client.session \/ client'.told \in {client.told, "error"} \/ client'.session]_vars
=============================================================================
