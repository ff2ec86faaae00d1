---------------------------- MODULE CoapProtocol ----------------------------
(* The CoAP protocol layer (sn_coap_protocol.c): resending of confirmable  *)
(* messages, detection of duplicates and blockwise transfer in both         *)
(* directions, between an application, its peers and a network that loses,  *)
(* repeats and reorders packets.                                            *)
(*                                                                          *)
(* Times are kept as distances to the system time: how long a record has    *)
(* been stored (age) and how long until a message is sent again (left). A    *)
(* packet under way may arrive never, once or many times, so packets are    *)
(* only ever added, until the record of a request expires.                  *)
EXTENDS Integers, Sequences, FiniteSets, SequencesExt

CONSTANTS
  None,
  Peers,          \* addresses the device talks to
  Messages,       \* what is to be transferred
  Sender,         \* [Messages -> Peers \cup {None}], None for the application
  Receiver,       \* [Messages -> Peers \cup {None}], None for the application
  Kind,           \* [Messages -> {"put", "get", "notify", "non", "ping"}]
  Length,         \* [Messages -> Nat], of the payload or of the answer
  Scenarios,      \* messages that go together, with the settings below
  BlockSize,      \* sn_coap_block_data_size
  QueueSize,      \* sn_coap_resending_queue_msgs
  ResendCount,    \* sn_coap_resending_count
  Interval,       \* sn_coap_resending_intervall
  Keep,           \* how long blocks and duplication records are stored
  MaxId,          \* the greatest message id
  StartIds,       \* the ids the first message may have
  MaxPeerId,      \* bound: requests of one peer
  MaxPayloads,    \* bound: blocks received and stored at once
  MayGiveUp,      \* a peer may abandon a blockwise transfer
  MayClear        \* the application may empty the resending queue

ASSUME ConstantsAreSound ==
  /\ BlockSize \in Nat \ {0} /\ Interval \in Nat \ {0}
  /\ {QueueSize, ResendCount, Keep, MaxId} \subseteq Nat /\ StartIds \subseteq 1..MaxId
  /\ \A m \in Messages : (Sender[m] = None) # (Receiver[m] = None)

VARIABLES
  pc,          \* "idle", "exec" in sn_coap_protocol_exec, "callback" in its rx callback
  message_id,  \* the id of the next message
  resent,      \* linked_list_resent_msgs
  dups,        \* linked_list_duplication_msgs
  stored,      \* linked_list_blockwise_sent_msgs
  config,      \* the scenario: settings of the handle
  payloads,    \* linked_list_blockwise_received_payloads
  toDevice, toPeer,  \* packets under way; a packet may arrive many times
  todo,        \* messages nobody has begun to send
  peer,        \* what each peer is sending: message, block and id
  peerId,      \* the id of the next request of each peer
  asm,         \* what the receiving peer has put together of each message
  track,       \* history: what became of the confirmable message of an id
  handed,      \* history: how often the application was handed a message, and what
  since,       \* history: other requests that came since, up to dupSize
  spoilt       \* history: peers of whom a block has been lost or left behind

device == <<pc, message_id, resent, dups, stored, config, payloads>>
network == <<toDevice, toPeer>>
peers == <<todo, peer, peerId, asm>>
history == <<track, handed, since, spoilt>>
vars == <<device, network, peers, history>>

internal == config.internal   \* sn_coap_internal_block2_resp_handling
dupSize == config.dupSize     \* sn_coap_duplication_buffer_size
Alloc(what) == IF what \in config.noMemory THEN BOOLEAN ELSE {TRUE}

-----------------------------------------------------------------------------
(* Payloads, blocks and packets.                                            *)

Whole(m) == [i \in 1..Length[m] |-> <<m, i>>]

Block(n, more) == [num |-> n, more |-> more]

(* The units of block n of a payload. Past its end the length of the block *)
(* is computed below zero, and what is sent is not part of the payload.    *)
Slice(body, n) ==
  IF n * BlockSize > Len(body) THEN << <<None, n>> >>
  ELSE SubSeq(body, n * BlockSize + 1,
              IF (n + 1) * BlockSize > Len(body) THEN Len(body) ELSE (n + 1) * BlockSize)

Packet(p, type, id, code, m, block, data) ==
  [peer |-> p, type |-> type, id |-> id, code |-> code, msg |-> m,
   block |-> block, data |-> data]

(* The first packet of a message (prepare_blockwise_message): the whole    *)
(* payload when it fits, else its first block.                             *)
First(p, type, id, code, m, body) ==
  Packet(p, type, id, code, m,
         IF Len(body) > BlockSize THEN Block(0, TRUE) ELSE None, 
         IF Len(body) > BlockSize THEN Slice(body, 0) ELSE body)

NextId(id) == IF id = MaxId THEN 1 ELSE id + 1

(* The resending time after counter resendings, relative to now.           *)
NewResendTime(counter) ==
  LET t == Interval * 2^counter IN t..((t * 150) \div 100)

-----------------------------------------------------------------------------
(* The lists of the handle.                                                 *)

FirstOf(at) == CHOOSE i \in at : \A j \in at : i <= j

(* sn_coap_protocol_linked_list_send_msg_search                            *)
Resending(list, p, id) == {i \in DOMAIN list : list[i].pkt.id = id /\ list[i].pkt.peer = p}

ResendDisabled == QueueSize = 0 \/ ResendCount = 0

(* sn_coap_protocol_linked_list_send_msg_store refuses a message when the  *)
(* queue is full or memory runs out.                                       *)
CanStore(ok) == ResendDisabled \/ (Len(resent) < QueueSize /\ ok)

Resend(pkt, left) == [pkt |-> pkt, counter |-> 0, left |-> left]

RemoveResending_FirstOfAll(list, p, id) == IF list = <<>> THEN list ELSE Tail(list)

(* An acknowledgement or a reset ends the resending of its message.        *)
RemoveResending(list, p, id) ==
  LET at == Resending(list, p, id)
  IN  IF at = {} THEN list ELSE RemoveAt(list, FirstOf(at))

(* sn_coap_protocol_linked_list_duplication_info_search                    *)
DupRecord(list, p, id) == {i \in DOMAIN list : list[i].id = id /\ list[i].peer = p}

Detected(pkt) == pkt.type \in {"CON", "NON"} /\ dupSize # 0

IsDuplicate(pkt) == Detected(pkt) /\ DupRecord(dups, pkt.peer, pkt.id) # {}

(* A new request is recorded, in place of the oldest one when the list is  *)
(* full.                                                                   *)
Remember(pkt, ok) ==
  LET kept == IF Len(dups) >= dupSize THEN Tail(dups) ELSE dups
  IN  CASE ~Detected(pkt) -> dups
        [] Detected(pkt) /\ ok -> Append(kept, [peer |-> pkt.peer, id |-> pkt.id,
                                                reply |-> None, age |-> 0])
        [] OTHER -> kept

(* sn_coap_protocol_build keeps an acknowledgement in the record of its    *)
(* request.                                                                *)
SaveReply(list, reply) ==
  [i \in DOMAIN list |->
     IF i \in DupRecord(list, reply.peer, reply.id) /\ list[i].reply = None
     THEN [list[i] EXCEPT !.reply = reply] ELSE list[i]]

WithId(list, id) == {i \in DOMAIN list : list[i].id = id}

(* A message without a block option ends the blockwise transfer of its id, *)
(* unless that is a notification, whose rest is asked for later.           *)
DropStored(id) ==
  LET at == WithId(stored, id)
  IN  IF at = {} \/ Kind[stored[FirstOf(at)].msg] = "notify" THEN stored
      ELSE RemoveAt(stored, FirstOf(at))

Stored(id, m, type, body) == [id |-> id, msg |-> m, type |-> type, body |-> body, age |-> 0]

PayloadStore_AtTheFront(pkt, ok) ==
  <<[peer |-> pkt.peer, num |-> pkt.block.num, data |-> pkt.data, age |-> 0]>> \o payloads

(* sn_coap_protocol_linked_list_blockwise_payload_store; an empty payload  *)
(* is not stored.                                                          *)
PayloadStore(pkt, ok) ==
  IF pkt.data = <<>> \/ ~ok THEN payloads
  ELSE Append(payloads, [peer |-> pkt.peer, num |-> pkt.block.num, data |-> pkt.data,
                         age |-> 0])

(* sn_coap_protocol_linked_list_blockwise_payload_compare_block_number     *)
InOrder(pkt) ==
  \/ pkt.block.num = 0
  \/ \E i \in DOMAIN payloads : /\ payloads[i].peer = pkt.peer
                                /\ payloads[i].num = pkt.block.num - 1

PayloadsOf(list, p) == {i \in DOMAIN list : list[i].peer = p}
PayloadsLen(list, p) ==
  Len(FlattenSeq([i \in DOMAIN list |-> IF i \in PayloadsOf(list, p) THEN list[i].data ELSE <<>>]))

(* The last block: each turn copies the first stored payload of the peer   *)
(* and removes the oldest of all, until there is none of the peer. The     *)
(* length was counted before.                                              *)
Gather(list, p) ==
  LET mine == PayloadsOf(list, p)
      last == CHOOSE i \in mine : \A j \in mine : j <= i
      copies == FlattenSeq([t \in 1..last |-> list[FirstOf({i \in mine : i >= t})].data])
  IN  IF mine = {} THEN [body |-> <<>>, rest |-> list]
      ELSE [body |-> SubSeq(copies, 1, PayloadsLen(list, p)), rest |-> SubSeq(list, last + 1, Len(list))]

-----------------------------------------------------------------------------
Init ==
  /\ pc = "idle"
  /\ message_id \in StartIds
  /\ resent = <<>> /\ dups = <<>> /\ stored = <<>> /\ payloads = <<>>
  /\ toDevice = {} /\ toPeer = {}
  /\ \E s \in Scenarios : config = s /\ todo = s.messages
  /\ peer = [p \in Peers |-> None]
  /\ peerId = [p \in Peers |-> 1]
  /\ asm = [m \in Messages |-> <<>>]
  /\ track = [id \in 1..MaxId |-> None]
  /\ handed = [m \in Messages |-> [count |-> 0, bodies |-> {}]]
  /\ since = [m \in Messages |-> 0]
  /\ spoilt = {}

-----------------------------------------------------------------------------
(* The application sends.                                                   *)

Code(m) == IF Kind[m] = "notify" THEN "response" ELSE "request"
Payload(m) == IF Kind[m] = "get" THEN <<>> ELSE Whole(m)

Track(id, m, fate) ==
  track' = [track EXCEPT ![id] = [msg |-> m, fate |-> fate, tx |-> IF fate = "refused" THEN 0 ELSE 1]]

(* sn_coap_protocol_build and the transmission of a confirmable message: a *)
(* message that cannot be kept for resending is not sent, but its id is    *)
(* used up. A message in blocks, or one whose answer may come in blocks,   *)
(* is kept.                                                                *)
Send(m) ==
  /\ pc \in {"idle", "callback"}
  /\ m \in todo /\ Sender[m] = None
  /\ todo' = todo \ {m}
  /\ message_id' = NextId(message_id)
  /\ \E ok \in Alloc("resend"), left \in NewResendTime(0) :
       LET pkt == First(Receiver[m], "CON", message_id, Code(m), m, Payload(m))
       IN  IF CanStore(ok)
           THEN /\ resent' = IF ResendDisabled THEN resent ELSE Append(resent, Resend(pkt, left))
                /\ stored' = IF Len(Payload(m)) > BlockSize \/ Kind[m] = "get"
                             THEN Append(stored, Stored(message_id, m, "CON", Payload(m)))
                             ELSE stored
                /\ toPeer' = toPeer \cup {pkt}
                /\ Track(message_id, m, IF ResendDisabled THEN "once" ELSE "pending")
           ELSE /\ Track(message_id, m, "refused")
                /\ UNCHANGED <<resent, stored, toPeer>>
  /\ UNCHANGED <<pc, dups, config, payloads, toDevice, peer, peerId, asm, handed, since, spoilt>>

Ids(list) == {list[i].pkt.id : i \in DOMAIN list}

(* History: what becomes of the waiting messages of these ids.             *)
Settled(ids, fate) ==
  [id \in DOMAIN track |-> IF id \in ids /\ track[id] # None /\ track[id].fate = "pending"
                           THEN [track[id] EXCEPT !.fate = fate] ELSE track[id]]

Answered(pkt) == Settled({id \in {pkt.id} : track[id] # None /\ Receiver[track[id].msg] = pkt.peer}, "acked")

(* sn_coap_protocol_clear_retransmission_buffer                            *)
ClearRetransmissionBuffer ==
  /\ MayClear /\ pc \in {"idle", "callback"} /\ resent # <<>>
  /\ resent' = <<>>
  /\ track' = Settled(1..MaxId, "cleared")
  /\ UNCHANGED <<pc, message_id, dups, stored, config, payloads, network, peers, handed, since, spoilt>>

(* sn_coap_protocol_delete_retransmission                                  *)
DeleteRetransmission(id) ==
  /\ MayClear /\ pc \in {"idle", "callback"}
  /\ id \in Ids(resent)
  /\ resent' = RemoveAt(resent, FirstOf({i \in DOMAIN resent : resent[i].pkt.id = id}))
  /\ track' = Settled({id}, "cleared")
  /\ UNCHANGED <<pc, message_id, dups, stored, config, payloads, network, peers, handed, since, spoilt>>

-----------------------------------------------------------------------------
(* sn_coap_protocol_parse, and the handling of what it returns, by the kind *)
(* of the packet. A packet stays in toDevice: it may arrive again.          *)

Receivable(pkt) == pc = "idle" /\ pkt \in toDevice /\ (pkt.block # None => Len(payloads) < MaxPayloads)

(* The application is handed a message, of which there is a record or not. *)
Hand(m, body, recorded) ==
  /\ handed' = [handed EXCEPT ![m] = [count |-> IF @.count = 2 THEN 2 ELSE @.count + 1,
                                      bodies |-> @.bodies \cup {body}]]
  /\ since' = [n \in Messages |-> CASE n = m -> IF recorded THEN 0 ELSE dupSize
                                    [] n # m -> IF since[n] = dupSize THEN dupSize ELSE since[n] + 1]

NotHanded ==
  /\ handed' = handed
  /\ since' = [n \in Messages |-> IF since[n] = dupSize THEN dupSize ELSE since[n] + 1]

(* An empty confirmable message is a ping and is reset.                    *)
ReceivePing(pkt) ==
  /\ Receivable(pkt) /\ pkt.code = "empty" /\ pkt.type = "CON"
  /\ toPeer' = toPeer \cup {Packet(pkt.peer, "RST", pkt.id, "empty", pkt.msg, None, <<>>)}
  /\ UNCHANGED <<device, toDevice, peers, history>>

(* A duplicate is answered with the saved reply, if there is one.          *)
ReceiveDuplicate(pkt) ==
  /\ Receivable(pkt) /\ pkt.code = "request" /\ IsDuplicate(pkt)
  /\ LET reply == dups[FirstOf(DupRecord(dups, pkt.peer, pkt.id))].reply
     IN  toPeer' = IF reply = None THEN toPeer ELSE toPeer \cup {reply}
  /\ UNCHANGED <<device, toDevice, peers, history>>

(* The application's answer to a request: an acknowledgement, saved for    *)
(* duplicates, or a non-confirmable message of its own id.                 *)
Answer(pkt, body, list, before, ok) ==
  LET con == pkt.type = "CON"
      reply == First(pkt.peer, IF con THEN "ACK" ELSE "NON", IF con THEN pkt.id ELSE message_id,
                     "response", pkt.msg, body)
      fits == con => (DupRecord(list, pkt.peer, pkt.id) = {} \/ ok)
  IN  /\ message_id' = IF con THEN message_id ELSE NextId(message_id)
      /\ dups' = IF con /\ ok THEN SaveReply(list, reply) ELSE list
      /\ toPeer' = IF fits THEN toPeer \cup {reply} ELSE toPeer
      /\ stored' = IF fits /\ Len(body) > BlockSize
                   THEN Append(before, Stored(reply.id, pkt.msg, reply.type, body)) ELSE before

AnswerBody(m) == IF Kind[m] = "get" THEN Whole(m) ELSE <<>>

(* A request that is not in blocks, and a request for a later block when   *)
(* nothing is stored, which is handled like the first.                     *)
ReceiveRequest(pkt) ==
  /\ Receivable(pkt) /\ pkt.code = "request" /\ ~IsDuplicate(pkt)
  /\ pkt.block = None \/ (Kind[pkt.msg] # "put" /\ stored = <<>>)
  /\ \E ok1 \in Alloc("record"), ok2 \in Alloc("reply") :
       /\ Answer(pkt, AnswerBody(pkt.msg), Remember(pkt, ok1),
                 IF pkt.block = None THEN DropStored(pkt.id) ELSE stored, ok2)
       /\ Hand(pkt.msg, pkt.data, ok1)
  /\ UNCHANGED <<pc, resent, config, payloads, toDevice, peers, track, spoilt>>

(* A block of a request, and more to come: it is stored whether or not it  *)
(* is in order, and the acknowledgement is sent without being saved.       *)
ReceiveBlock1(pkt) ==
  /\ Receivable(pkt) /\ pkt.code = "request" /\ Kind[pkt.msg] = "put" /\ ~IsDuplicate(pkt)
  /\ pkt.block # None /\ pkt.block.more
  /\ \E ok1 \in Alloc("record"), ok2 \in Alloc("payload"), ok3 \in Alloc("reply") :
       /\ dups' = Remember(pkt, ok1)
       /\ payloads' = PayloadStore(pkt, ok2)
       /\ toPeer' = IF ~ok3 THEN toPeer
                    ELSE toPeer \cup {Packet(pkt.peer, "ACK", pkt.id,
                                             IF InOrder(pkt) THEN "continue" ELSE "incomplete",
                                             pkt.msg, pkt.block, <<>>)}
       /\ spoilt' = IF ok1 /\ ok2 /\ InOrder(pkt) THEN spoilt ELSE spoilt \cup {pkt.peer}
  /\ NotHanded
  /\ UNCHANGED <<pc, message_id, resent, stored, config, toDevice, peers, track>>

(* The last block: the stored payloads of the peer are put together and    *)
(* handed to the application, which answers.                               *)
ReceiveLastBlock1(pkt) ==
  /\ Receivable(pkt) /\ pkt.code = "request" /\ Kind[pkt.msg] = "put" /\ ~IsDuplicate(pkt)
  /\ pkt.block # None /\ ~pkt.block.more
  /\ \E ok1 \in Alloc("record"), ok2, ok3 \in Alloc("payload"), ok4 \in Alloc("reply") :
       LET whole == Gather(PayloadStore(pkt, ok2), pkt.peer)
       IN  IF ok3 /\ whole.body # <<>>
           THEN /\ payloads' = whole.rest
                /\ Answer(pkt, <<>>, Remember(pkt, ok1), stored, ok4)
                /\ Hand(pkt.msg, whole.body, ok1)
                /\ spoilt' = IF ok1 /\ ok2 THEN spoilt ELSE spoilt \cup {pkt.peer}
           ELSE /\ payloads' = PayloadStore(pkt, ok2)
                /\ dups' = Remember(pkt, ok1)
                /\ NotHanded
                /\ spoilt' = spoilt \cup {pkt.peer}
                /\ UNCHANGED <<message_id, stored, toPeer>>
  /\ UNCHANGED <<pc, resent, config, toDevice, peers, track>>

(* A request for a later block of a response: it is cut from the first     *)
(* stored message, which is removed after its last block. The reply has    *)
(* the token of that message, or, for a notification, of the request.      *)
ReceiveBlock2Request(pkt) ==
  /\ Receivable(pkt) /\ pkt.code = "request" /\ Kind[pkt.msg] # "put" /\ ~IsDuplicate(pkt)
  /\ pkt.block # None /\ stored # <<>>
  /\ LET s == Head(stored)
         n == pkt.block.num
         isLast == (n + 1) * BlockSize >= Len(s.body)
         token == IF Kind[s.msg] = "notify" THEN pkt.msg ELSE s.msg
     IN  /\ toPeer' = toPeer \cup {Packet(pkt.peer, s.type, pkt.id, "response", token,
                                          Block(n, ~isLast), Slice(s.body, n))}
         /\ stored' = IF isLast THEN Tail(stored)
                      ELSE <<[s EXCEPT !.id = pkt.id]>> \o Tail(stored)
  /\ \E ok \in Alloc("record") : dups' = Remember(pkt, ok)
  /\ NotHanded
  /\ UNCHANGED <<pc, message_id, resent, config, payloads, toDevice, peers, track, spoilt>>

(* An acknowledgement or a reset of one of our messages, without a block.  *)
ReceiveResponse(pkt) ==
  /\ Receivable(pkt) /\ pkt.type \in {"ACK", "RST"} /\ pkt.block = None
  /\ stored' = DropStored(pkt.id)
  /\ resent' = RemoveResending(resent, pkt.peer, pkt.id)
  /\ track' = Answered(pkt)
  /\ UNCHANGED <<pc, message_id, dups, config, payloads, network, peers, handed, since, spoilt>>

(* The acknowledgement of a block we sent: the next block is cut from the  *)
(* stored message and sent once, under a new id.                           *)
ReceiveBlock1Response(pkt) ==
  /\ Receivable(pkt) /\ pkt.type = "ACK" /\ Kind[pkt.msg] = "put" /\ pkt.block # None
  /\ resent' = RemoveResending(resent, pkt.peer, pkt.id)
  /\ LET acked == Answered(pkt)
         at == WithId(stored, pkt.id)
     IN  IF pkt.block.more /\ at # {}
         THEN LET s == stored[FirstOf(at)]
                  n == pkt.block.num + 1
                  more == ~((n + 1) * BlockSize > Len(s.body))
              IN  /\ stored' = [stored EXCEPT ![FirstOf(at)].id = message_id]
                  /\ toPeer' = toPeer \cup {Packet(pkt.peer, "CON", message_id, "request", s.msg,
                                                   Block(n, more), Slice(s.body, n))}
                  /\ message_id' = NextId(message_id)
                  /\ track' = [acked EXCEPT ![message_id] = [msg |-> s.msg, fate |-> "once", tx |-> 1]]
         ELSE /\ track' = acked
              /\ UNCHANGED <<message_id, stored, toPeer>>
  /\ UNCHANGED <<pc, dups, config, payloads, toDevice, peers, handed, since, spoilt>>

(* A block of the answer to a request of ours. It goes to the application, *)
(* or is stored until the last; the next one is asked for under a new id.  *)
ReceiveBlock2Response(pkt) ==
  /\ Receivable(pkt) /\ pkt.type = "ACK" /\ Kind[pkt.msg] = "get" /\ pkt.block # None
  /\ internal => pkt.block.more
  /\ LET at == WithId(stored, pkt.id)
         acked == RemoveResending(resent, pkt.peer, pkt.id)
         next == Packet(pkt.peer, "CON", message_id, "request", pkt.msg,
                        Block(pkt.block.num + 1, FALSE), <<>>)
     IN  CASE ~internal ->
                /\ resent' = acked /\ track' = Answered(pkt)
                /\ Hand(pkt.msg, pkt.data, TRUE)
                /\ UNCHANGED <<message_id, stored, payloads, toPeer, spoilt>>
           [] internal /\ at = {} ->
                /\ payloads' = PayloadStore(pkt, TRUE)
                /\ spoilt' = spoilt \cup {pkt.peer}
                /\ UNCHANGED <<message_id, resent, stored, toPeer, track, handed, since>>
           [] internal /\ at # {} ->
                /\ payloads' = PayloadStore(pkt, TRUE)
                /\ stored' = Append(RemoveAt(stored, FirstOf(at)), Stored(message_id, pkt.msg, "CON", <<>>))
                /\ message_id' = NextId(message_id)
                /\ toPeer' = toPeer \cup {next}
                /\ \E ok \in Alloc("resend"), left \in NewResendTime(0) :
                     LET kept == CanStore(ok) /\ ~ResendDisabled
                     IN  /\ resent' = RemoveResending(IF kept THEN Append(resent, Resend(next, left)) ELSE resent,
                                                      pkt.peer, pkt.id)
                         /\ track' = [Answered(pkt) EXCEPT ![message_id] =
                                        [msg |-> pkt.msg, fate |-> IF kept THEN "pending" ELSE "once", tx |-> 1]]
                /\ UNCHANGED <<handed, since, spoilt>>
  /\ UNCHANGED <<pc, dups, config, toDevice, peers>>

(* The last block of an answer: all is put together and handed over. The   *)
(* stored request stays.                                                   *)
ReceiveLastBlock2Response(pkt) ==
  /\ Receivable(pkt) /\ pkt.type = "ACK" /\ Kind[pkt.msg] = "get" /\ pkt.block # None
  /\ internal /\ ~pkt.block.more
  /\ LET whole == Gather(PayloadStore(pkt, TRUE), pkt.peer)
     IN  /\ payloads' = whole.rest
         /\ Hand(pkt.msg, whole.body, TRUE)
  /\ resent' = RemoveResending(resent, pkt.peer, pkt.id)
  /\ track' = Answered(pkt)
  /\ spoilt' = IF pkt.id \in Ids(resent) THEN spoilt ELSE spoilt \cup {pkt.peer}
  /\ UNCHANGED <<pc, message_id, dups, stored, config, network, peers>>

-----------------------------------------------------------------------------
(* sn_coap_protocol_exec, once a second.                                    *)

Older(list) == [i \in DOMAIN list |-> [list[i] EXCEPT !.age = @ + 1]]
Closer_TimeNotStored(list) == list
Closer(list) == [i \in DOMAIN list |-> [list[i] EXCEPT !.left = IF @ = 0 THEN 0 ELSE @ - 1]]
Fresh(r) == r.age <= Keep
Expired(list) == {list[i] : i \in {j \in DOMAIN list : ~Fresh(list[j])}}

(* Time passes: old blocks and duplication records are removed. By the     *)
(* time a record is removed the network has no copy of its request left.   *)
Exec ==
  /\ pc = "idle"
  /\ resent # <<>> \/ dups # <<>> \/ stored # <<>> \/ payloads # <<>>
  /\ pc' = "exec"
  /\ resent' = Closer(resent)
  /\ stored' = SelectSeq(Older(stored), Fresh)
  /\ payloads' = SelectSeq(Older(payloads), Fresh)
  /\ dups' = SelectSeq(Older(dups), Fresh)
  /\ toDevice' = {pkt \in toDevice :
                    ~\E r \in Expired(Older(dups)) : pkt.type \in {"CON", "NON"} /\ r.peer = pkt.peer /\ r.id = pkt.id}
  /\ spoilt' = spoilt \cup {r.peer : r \in Expired(Older(payloads))}
  /\ UNCHANGED <<message_id, config, toPeer, peers, track, handed, since>>

Due == {i \in DOMAIN resent : resent[i].left = 0}

(* The first message that is due is sent again, or given up with a         *)
(* callback that says so.                                                  *)
ExecResend ==
  /\ pc = "exec" /\ Due # {}
  /\ LET i == FirstOf(Due)
         r == resent[i]
         id == r.pkt.id
     IN  IF r.counter + 1 > ResendCount
         THEN /\ resent' = RemoveAt(resent, i)
              /\ track' = [track EXCEPT ![id].fate = "failed"]
              /\ pc' = "callback"
              /\ UNCHANGED toPeer
         ELSE /\ \E left \in NewResendTime(r.counter + 1) :
                   resent' = [resent EXCEPT ![i] = [@ EXCEPT !.counter = @ + 1, !.left = left]]
              /\ track' = [track EXCEPT ![id].tx = @ + 1]
              /\ toPeer' = toPeer \cup {r.pkt}
              /\ UNCHANGED pc
  /\ UNCHANGED <<message_id, dups, stored, config, payloads, toDevice, peers, handed, since, spoilt>>

(* The callback returns, and the list is scanned again from its start.     *)
ExecRescan ==
  /\ pc = "callback" /\ pc' = "exec"
  /\ UNCHANGED <<message_id, resent, dups, stored, config, payloads, network, peers, history>>

ExecDone ==
  /\ pc = "exec" /\ Due = {} /\ pc' = "idle"
  /\ UNCHANGED <<message_id, resent, dups, stored, config, payloads, network, peers, history>>

-----------------------------------------------------------------------------
(* The peers, as the device meets them.                                     *)

(* A peer sends a packet to the device under the next id of its own.       *)
PeerSends(p, type, code, m, block, data) ==
  /\ peerId[p] <= MaxPeerId
  /\ toDevice' = toDevice \cup {Packet(p, type, peerId[p], code, m, block, data)}
  /\ peerId' = [peerId EXCEPT ![p] = @ + 1]

BlockOf(m, n) == Block(n, (n + 1) * BlockSize < Length[m])

(* A peer begins a request: a whole payload or its first block.            *)
PeerStart(m) ==
  /\ m \in todo /\ Sender[m] # None
  /\ LET p == Sender[m]
         inBlocks == Kind[m] = "put" /\ Length[m] > BlockSize
     IN  /\ peer[p] = None
         /\ todo' = todo \ {m}
         /\ PeerSends(p, IF Kind[m] = "non" THEN "NON" ELSE "CON",
                      IF Kind[m] = "ping" THEN "empty" ELSE "request", m,
                      IF inBlocks THEN Block(0, TRUE) ELSE None,
                      CASE inBlocks -> Slice(Whole(m), 0)
                        [] Kind[m] \in {"put", "non"} /\ ~inBlocks -> Whole(m)
                        [] OTHER -> <<>>)
         /\ peer' = [peer EXCEPT ![p] = IF Kind[m] \in {"put", "get"}
                                        THEN [msg |-> m, num |-> 0, id |-> peerId[p]] ELSE None]
  /\ UNCHANGED <<device, toPeer, asm, history>>

(* The answer to what a peer is doing: the next block is sent or asked     *)
(* for, or the transfer is over.                                           *)
PeerAcked(pkt) ==
  /\ pkt \in toPeer
  /\ LET p == pkt.peer
         t == peer[p]
         n == IF t = None THEN 0 ELSE t.num
         more == pkt.block # None /\ pkt.block.more /\ pkt.code # "incomplete"
     IN  /\ t # None /\ pkt.id = t.id /\ pkt.msg = t.msg
         /\ pkt.code # "request" /\ (pkt.block # None => pkt.block.num = n)
         /\ asm' = IF Kind[t.msg] = "put" THEN asm ELSE [asm EXCEPT ![t.msg] = @ \o pkt.data]
         /\ IF more
            THEN /\ peer' = [peer EXCEPT ![p] = [t EXCEPT !.num = n + 1, !.id = peerId[p]]]
                 /\ IF Kind[t.msg] = "put"
                    THEN PeerSends(p, "CON", "request", t.msg, BlockOf(t.msg, n + 1), Slice(Whole(t.msg), n + 1))
                    ELSE PeerSends(p, "CON", "request", t.msg, Block(n + 1, FALSE), <<>>)
            ELSE /\ peer' = [peer EXCEPT ![p] = None]
                 /\ UNCHANGED <<toDevice, peerId>>
  /\ UNCHANGED <<device, toPeer, todo, history>>

(* A peer answers a confirmable message of the device. A payload is taken  *)
(* when it is the next one.                                                *)
PeerAnswer(pkt) ==
  /\ pkt \in toPeer /\ pkt.type = "CON" /\ Sender[pkt.msg] = None
  /\ LET m == pkt.msg
         n == IF pkt.block = None THEN 0 ELSE pkt.block.num
         content == Packet(pkt.peer, "ACK", pkt.id, "response", m,
                           IF Length[m] > BlockSize THEN BlockOf(m, n) ELSE None, Slice(Whole(m), n))
         ack == Packet(pkt.peer, "ACK", pkt.id, "response", m, pkt.block, <<>>)
         empty == {Packet(pkt.peer, t, pkt.id, "empty", m, None, <<>>) : t \in {"ACK", "RST"}}
         wanted == Len(asm[m]) = n * BlockSize
     IN  /\ pkt.code = "response" => n = 0
         /\ \E a \in (CASE Kind[m] = "get" -> {content} [] Kind[m] = "put" -> {ack}
                        [] OTHER -> empty) :
              toDevice' = toDevice \cup {a}
         /\ asm' = IF Kind[m] # "get" /\ wanted THEN [asm EXCEPT ![m] = @ \o pkt.data] ELSE asm
  /\ UNCHANGED <<device, toPeer, todo, peer, peerId, history>>

(* A peer asks for the rest of a notification.                             *)
PeerFetch(m) ==
  /\ Kind[m] = "notify" /\ Length[m] > BlockSize /\ Len(asm[m]) = BlockSize
  /\ peer[Receiver[m]] = None
  /\ peer' = [peer EXCEPT ![Receiver[m]] = [msg |-> m, num |-> 1, id |-> peerId[Receiver[m]]]]
  /\ PeerSends(Receiver[m], "CON", "request", m, Block(1, FALSE), <<>>)
  /\ UNCHANGED <<device, toPeer, todo, asm, history>>

(* A peer abandons what it is sending.                                     *)
PeerGiveUp(p) ==
  /\ MayGiveUp /\ peer[p] # None
  /\ peer' = [peer EXCEPT ![p] = None]
  /\ spoilt' = spoilt \cup {p}
  /\ UNCHANGED <<device, network, todo, peerId, asm, track, handed, since>>

-----------------------------------------------------------------------------
ReceiveOne(pkt) ==
  \/ ReceivePing(pkt) \/ ReceiveDuplicate(pkt) \/ ReceiveRequest(pkt)
  \/ ReceiveBlock1(pkt) \/ ReceiveLastBlock1(pkt) \/ ReceiveBlock2Request(pkt)
  \/ ReceiveResponse(pkt) \/ ReceiveBlock1Response(pkt)
  \/ ReceiveBlock2Response(pkt) \/ ReceiveLastBlock2Response(pkt)

Next ==
  \/ \E m \in Messages : Send(m) \/ PeerStart(m) \/ PeerFetch(m)
  \/ \E id \in 1..MaxId : DeleteRetransmission(id)
  \/ \E pkt \in toDevice : ReceiveOne(pkt)
  \/ \E pkt \in toPeer : PeerAcked(pkt) \/ PeerAnswer(pkt)
  \/ \E p \in Peers : PeerGiveUp(p)
  \/ ClearRetransmissionBuffer
  \/ Exec \/ ExecResend \/ ExecRescan \/ ExecDone

Spec == Init /\ [][Next]_vars

(* The application calls exec every second, and exec ends.                 *)
FairSpec == Spec /\ WF_vars(Exec) /\ WF_vars(ExecResend \/ ExecRescan \/ ExecDone)
-----------------------------------------------------------------------------
(* Properties.                                                              *)

Fates == {"pending", "once", "acked", "failed", "cleared", "refused"}

(* Types, the bounds of the queue and of the duplication records.          *)
TypeOK ==
  /\ pc \in {"idle", "exec", "callback"} /\ message_id \in 1..MaxId
  /\ Len(resent) <= QueueSize
  /\ \A i \in DOMAIN resent : resent[i].counter \in 0..ResendCount
  /\ Len(dups) <= dupSize
  /\ \A i \in DOMAIN stored : stored[i].age \in 0..Keep
  /\ \A i \in DOMAIN payloads : payloads[i].age \in 0..Keep
  /\ \A id \in 1..MaxId : track[id] # None => track[id].fate \in Fates

(* The resending queue holds the confirmable messages that are neither     *)
(* answered by the address they were sent to, nor given up, nor cleared,   *)
(* and no other, in whatever order answers and repeated answers come and   *)
(* although the callback of a failure may change the queue. A failure is   *)
(* reported only after sn_coap_resending_count resendings.                 *)
ResendsAreCounted ==
  /\ Ids(resent) = {id \in 1..MaxId : track[id] # None /\ track[id].fate = "pending"}
  /\ Cardinality(Ids(resent)) = Len(resent)
  /\ \A i \in DOMAIN resent : track[resent[i].pkt.id].tx = resent[i].counter + 1
  /\ \A id \in 1..MaxId : track[id] # None /\ track[id].fate = "failed" => track[id].tx = 1 + ResendCount

(* A request is handed to the application a second time only when as many  *)
(* other requests came since as there are duplication records.             *)
HandedOnce ==
  [][\A m \in Messages :
       Sender[m] # None /\ Kind[m] # "get" /\ handed[m].count > 0 /\ handed'[m] # handed[m]
         => since[m] = dupSize]_vars

(* A payload that is carried in blocks stays whole and in order.  What the *)
(* application is handed of a transfer is the whole payload, when no block *)
(* of the peer was lost or left behind; what a peer has put together of    *)
(* the blocks it was sent is a beginning of the payload, and no later      *)
(* block is sent for it before.                                            *)
WholeAtDevice ==
  \A m \in Messages :
    LET p == IF Sender[m] = None THEN Receiver[m] ELSE Sender[m]
    IN  (p \notin spoilt /\ (Sender[m] # None \/ internal)) =>
           handed[m].bodies \subseteq {IF Sender[m] # None /\ Kind[m] = "get" THEN <<>> ELSE Whole(m)}

PayloadsAreWhole ==
  WholeAtDevice /\ \A m \in Messages : IsPrefix(asm[m], Whole(m))

(* The resending queue empties in the end: every message in it is          *)
(* acknowledged, given up with a report, or cleared.                       *)
EverySendEnds == resent # <<>> ~> resent = <<>>

(* A repeated confirmable request is answered: "CoAP will send             *)
(* Acknowledgement message to duplicated message sender".                  *)
DuplicateIsAnswered ==
  \A pkt \in toDevice :
    pc = "idle" /\ pkt.type = "CON" /\ pkt.code = "request" /\ IsDuplicate(pkt) =>
      dups[FirstOf(DupRecord(dups, pkt.peer, pkt.id))].reply # None
=============================================================================
