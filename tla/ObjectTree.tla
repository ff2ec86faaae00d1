----------------------------- MODULE ObjectTree -----------------------------
(***************************************************************************)
(* One LWM2M object with its instances, resources and resource instances,  *)
(* the list of paths that nsdl keeps beside it, and the requests of the    *)
(* server: sn_grs_process_coap finds the path, resource_callback calls the *)
(* handler of the node, and the handlers read and write the tree through   *)
(* the TLV serializer and deserializer.  The application creates, changes  *)
(* and removes nodes, and answers delayed POST requests.                   *)
(*                                                                         *)
(* A TLV message is a sequence of units.  The header of an element (type,  *)
(* id and length) is one unit and a value is none or one, so the length of *)
(* an element counts units and the offsets are those of the code.  A value *)
(* is in binary or in text form: an integer is kept as text and sent in    *)
(* binary, other values are sent as they are kept.                         *)
(***************************************************************************)
EXTENDS Integers, Sequences, FiniteSets, SequencesExt

CONSTANTS MaxInstance,  \* the highest id of an object instance
          ObjectOp,     \* the operations allowed on the object
          FirstTree,    \* the instances the application starts with
          Templates,    \* the resources the application may create
          AppValues,    \* the values the application may set
          Requests,     \* the requests of the server
          Careless,     \* the rules that the server and the application break
          MaxSteps,     \* bound on requests and calls
          MaxTokens     \* bound on delayed POST requests

VARIABLES obj,       \* coap_content_type and _instance_list of the object
          grs,       \* resource_root_list: the paths nsdl knows
          delayed,   \* _delayed_token of the executable resource, 0 is none
          owed,      \* the delayed requests the application has still to answer
          asked,     \* the number of delayed POST requests
          answered,  \* the tokens of their answers
          fresh,     \* paths the application created and has not registered
          steps

vars == <<obj, grs, delayed, owed, asked, answered, fresh, steps>>

NoId == -1   \* name_id() of a resource whose name is not a number
All == {"get", "put", "post", "delete"}
Ids == 0..MaxInstance

----------------------------------------------------------------------------
\* Nodes and paths

Has(list, id) == \E k \in DOMAIN list : list[k].id = id

\* The place of the node with an id, 0 if there is none.
Find(list, id) == IF Has(list, id) THEN CHOOSE k \in DOMAIN list : list[k].id = id ELSE 0

\* An instance with no resources, as create_object_instance makes it.
NewInstance(id, op) == [id |-> id, op |-> op, ct |-> "tlv", res |-> <<>>]

\* A resource as create_dynamic_resource makes it for a POST, which allows
\* everything on it.
NewResource(id, multi) ==
    [id |-> id, multi |-> multi, static |-> FALSE, kind |-> "raw",
     op |-> All, val |-> <<>>, insts |-> <<>>]

NewResourceInstance(id, op) == [id |-> id, op |-> op, val |-> <<>>]

\* The paths of a resource and its instances, and of an object instance.
ResourceNodes(i, r) ==
    {<<i, r.id>>} \cup {<<i, r.id, r.insts[k].id>> : k \in DOMAIN r.insts}

InstanceNodes(inst) ==
    {<<inst.id>>} \cup UNION {ResourceNodes(inst.id, inst.res[k]) : k \in DOMAIN inst.res}

Nodes(o) == {<<>>} \cup UNION {InstanceNodes(o.inst[k]) : k \in DOMAIN o.inst}

\* What the create_nsdl_..._structure functions put in the list of nsdl.
ResourceStructure(i, r) ==
    IF r.multi /\ r.insts = <<>> THEN {} ELSE ResourceNodes(i, r)

InstanceStructure(inst) ==
    UNION {ResourceStructure(inst.id, inst.res[k]) : k \in DOMAIN inst.res}
        \cup (IF inst.op # {} THEN {<<inst.id>>} ELSE {})

ObjectStructure(o) ==
    UNION {InstanceStructure(o.inst[k]) : k \in DOMAIN o.inst}
        \cup (IF ObjectOp # {} THEN {<<>>} ELSE {})

\* find_resource: the node of a path.
Instance(o, p) == o.inst[Find(o.inst, p[1])]
Resource(o, p) == Instance(o, p).res[Find(Instance(o, p).res, p[2])]
ResourceInstance(o, p) == Resource(o, p).insts[Find(Resource(o, p).insts, p[3])]

find_resource(o, p) == p \in Nodes(o)

Operation(o, p) ==
    CASE Len(p) = 0 -> ObjectOp
      [] Len(p) = 1 -> Instance(o, p).op
      [] Len(p) = 2 -> Resource(o, p).op
      [] Len(p) = 3 -> ResourceInstance(o, p).op

\* The tree with one node replaced.
WithInstance(o, inst) == [o EXCEPT !.inst[Find(o.inst, inst.id)] = inst]

WithResource(inst, r) == [inst EXCEPT !.res[Find(inst.res, r.id)] = r]

SetResource(o, p, r) == WithInstance(o, WithResource(Instance(o, p), r))

----------------------------------------------------------------------------
\* M2MTLVSerializer

serialize_TILV(type, id, value) ==
    <<[type |-> type, id |-> id, len |-> Len(value)]>> \o value

\* get_value_int: the number of a text, 0 when there is no value or the text
\* is not a number.
get_value_int(val) ==
    IF val # <<>> /\ val[1].form = "text" THEN val[1].n ELSE 0

\* Integers go out in binary.
TLVValue(kind, val) ==
    IF kind = "int" THEN <<[form |-> "bin", n |-> get_value_int(val)]>> ELSE val

serialize_multiple_resource(r) ==
    serialize_TILV("multi", r.id, FlattenSeq(
        [k \in DOMAIN r.insts |->
            IF "get" \in r.insts[k].op
            THEN serialize_TILV("ri", r.insts[k].id, TLVValue(r.kind, r.insts[k].val))
            ELSE <<>>]))

\* The data, which is NULL (no units) for a resource that has no id and for a
\* multiple resource that may not be read.
serialize_resource(r) ==
    IF r.id = NoId \/ (r.multi /\ "get" \notin r.op) THEN <<>>
    ELSE IF r.multi THEN serialize_multiple_resource(r)
    ELSE serialize_TILV("r", r.id, TLVValue(r.kind, r.val))

\* A resource without an id makes the whole list invalid.
serialize_resources(res) ==
    LET valid == \A k \in DOMAIN res : res[k].id # NoId
        readable == SelectSeq(res, LAMBDA r : "get" \in r.op)
    IN [valid |-> valid,
        data |-> IF valid
                 THEN FlattenSeq([k \in DOMAIN readable |-> serialize_resource(readable[k])])
                 ELSE <<>>]

\* An invalid instance is left out.
serialize_object_instances(list) ==
    FlattenSeq([k \in DOMAIN list |->
        LET s == serialize_resources(list[k].res)
        IN IF s.valid THEN serialize_TILV("oi", list[k].id, s.data) ELSE <<>>])

----------------------------------------------------------------------------
\* M2MTLVDeserializer.  Offsets count from 0, as in the code.

TypeIdLength(tlv, offset) == tlv[offset + 1]

Value(tlv, offset) ==
    SubSeq(tlv, offset + 2, offset + 1 + TypeIdLength(tlv, offset).len)

NextOffset(tlv, offset) == offset + 1 + TypeIdLength(tlv, offset).len

\* set_resource_instance_value, and clear_value for an empty element: an
\* integer is kept as text.
SetValue(node, kind, value) ==
    [node EXCEPT !.val = IF kind = "int" /\ value # <<>>
                         THEN <<[form |-> "text", n |-> value[1].n]>> ELSE value]

\* What one pass does with an element whose node is there: the first checks
\* that the node may be written, the second writes it.
Apply(node, kind, tlv, offset, update) ==
    IF update THEN [err |-> "None", node |-> SetValue(node, kind, Value(tlv, offset))]
    ELSE [err |-> IF "put" \in node.op THEN "None" ELSE "NotAllowed", node |-> node]

\* deserialize_resource_instances, for the instances in a list of resources.
\* Missing instances are created by a POST, in either pass.  The error of an
\* element counts only if it is the last, and the function runs on to the end
\* of the message, past the end of its multiple resource.
RECURSIVE deserialize_nested_instances(_, _, _, _, _)
deserialize_nested_instances(tlv, offset, r, operation, update) ==
    LET til == TypeIdLength(tlv, offset)
        k == IF til.type = "ri" THEN Find(r.insts, til.id) ELSE 0
        Put(a) == [err |-> a.err, r |-> [r EXCEPT !.insts[k] = a.node]]
        here ==
            IF k > 0 THEN Put(Apply(r.insts[k], r.kind, tlv, offset, update))
            ELSE IF operation = "put" THEN [err |-> "NotFound", r |-> r]
            ELSE [err |-> "None",
                  r |-> IF Has(r.insts, til.id) THEN r
                        ELSE [r EXCEPT !.insts = Append(@, NewResourceInstance(til.id, All))]]
        Rest(h) ==
            IF NextOffset(tlv, offset) >= Len(tlv) THEN h
            ELSE deserialize_nested_instances(tlv, NextOffset(tlv, offset), h.r, operation, update)
    IN IF til.type \notin {"multi", "ri"} THEN [err |-> "NotValid", r |-> r] ELSE Rest(here)

\* deserialize_resources with an offset.  A POST creates the resources that are
\* missing in either pass.
RECURSIVE deserialize_list(_, _, _, _, _)
deserialize_list(tlv, offset, inst, operation, update) ==
    LET til == TypeIdLength(tlv, offset)
        at == Find(inst.res, til.id)
        k == IF at > 0 /\ til.type = "multi" /\ ~inst.res[at].multi THEN 0 ELSE at
        created == [inst EXCEPT !.res = Append(@, NewResource(til.id, til.type = "multi"))]
        Put(a) == [err |-> a.err, inst |-> [inst EXCEPT !.res[k] = a.node]]
        PutAll(i, j, n) == [err |-> n.err, inst |-> [i EXCEPT !.res[j] = n.r]]
        Nested(i, j) ==
            PutAll(i, j, deserialize_nested_instances(tlv, offset + 1, i.res[j], operation, update))
        here ==
            IF k > 0 /\ til.type # "multi" THEN Put(Apply(inst.res[k], inst.res[k].kind, tlv, offset, update))
            ELSE IF k = 0 /\ operation = "put" THEN [err |-> "NotFound", inst |-> inst]
            ELSE IF k = 0 /\ til.type # "multi" THEN [err |-> "None", inst |-> created]
            ELSE IF k > 0 THEN Nested(inst, k) ELSE Nested(created, Len(created.res))
        Rest(h) ==
            IF NextOffset(tlv, offset) >= Len(tlv) THEN h
            ELSE deserialize_list(tlv, NextOffset(tlv, offset), h.inst, operation, update)
    IN IF til.type \notin {"r", "ri", "multi"} THEN [err |-> "NotValid", inst |-> inst] ELSE Rest(here)

\* The ids of the elements from an offset on, not those inside of them.
RECURSIVE ListedIds(_, _)
ListedIds(tlv, offset) ==
    IF offset >= Len(tlv) THEN {}
    ELSE {TypeIdLength(tlv, offset).id} \cup ListedIds(tlv, NextOffset(tlv, offset))


\* A PUT removes the resources that the message does not list.
remove_resources(tlv, inst) ==
    [inst EXCEPT !.res = SelectSeq(@, LAMBDA r : r.id \in ListedIds(tlv, 0))]


deserialize_resources(tlv, inst, operation) ==
    LET Remaining(i) == IF operation = "put" THEN remove_resources(tlv, i) ELSE i
        Second(check) ==
            IF check.err # "None" THEN check
            ELSE deserialize_list(tlv, 0, Remaining(check.inst), operation, TRUE)
    IN IF tlv[1].type \notin {"r", "multi"} THEN [err |-> "NotValid", inst |-> inst]
       ELSE Second(deserialize_list(tlv, 0, inst, operation, FALSE))

\* deserialize_object_instances: instances that are not there are passed over.
RECURSIVE deserialize_instances(_, _, _, _, _)
deserialize_instances(tlv, offset, list, operation, update) ==
    LET til == TypeIdLength(tlv, offset)
        k == Find(list, til.id)
        Put(d) == [err |-> d.err, list |-> [list EXCEPT ![k] = d.inst]]
        here == IF k > 0 THEN Put(deserialize_list(tlv, offset + 1, list[k], operation, update))
                ELSE [err |-> "None", list |-> list]
        Rest(h) ==
            IF NextOffset(tlv, offset) >= Len(tlv) THEN h
            ELSE deserialize_instances(tlv, NextOffset(tlv, offset), h.list, operation, update)
    IN IF til.type # "oi" THEN [err |-> "None", list |-> list] ELSE Rest(here)

deserialise_object_instances(tlv, list, operation) ==
    LET Second(check) ==
            IF check.err # "None" THEN check
            ELSE deserialize_instances(tlv, 0, check.list, operation, TRUE)
    IN Second(deserialize_instances(tlv, 0, list, operation, FALSE))

\* deserialize_resource_instances without the list of resources around it: a
\* PUT to a multiple resource itself.
RECURSIVE deserialize_instance_list(_, _, _, _)
deserialize_instance_list(tlv, offset, r, update) ==
    LET til == TypeIdLength(tlv, offset)
        k == Find(r.insts, til.id)
        Put(a) == [err |-> a.err, r |-> [r EXCEPT !.insts[k] = a.node]]
        here == IF k > 0 THEN Put(Apply(r.insts[k], r.kind, tlv, offset, update))
                ELSE [err |-> "NotFound", r |-> r]
        Rest(h) ==
            IF NextOffset(tlv, offset) >= Len(tlv) THEN h
            ELSE deserialize_instance_list(tlv, NextOffset(tlv, offset), h.r, update)
    IN IF til.type # "ri" THEN [err |-> "NotValid", r |-> r] ELSE Rest(here)

remove_resource_instances(tlv, r) ==
    [r EXCEPT !.insts = SelectSeq(@, LAMBDA i : i.id \in ListedIds(tlv, 1))]

deserialize_resource_instances(tlv, r) ==
    LET Second(check) ==
            IF check.err # "None" THEN check
            ELSE deserialize_instance_list(tlv, 1, remove_resource_instances(tlv, check.r), TRUE)
    IN IF tlv = <<>> \/ tlv[1].type # "multi" THEN [err |-> "NotValid", r |-> r]
       ELSE Second(deserialize_instance_list(tlv, 1, r, FALSE))

----------------------------------------------------------------------------
\* The handlers.  A request is a method, a path, a content format, an accept
\* option and a message body.  A handler gives the tree, the list of nsdl, the
\* code and the payload of the answer, and whether a resource was executed.

Answer(o, g, code) == [obj |-> o, grs |-> g, code |-> code, payload |-> <<>>, exec |-> FALSE]

ErrorCode(err) ==
    CASE err = "NotFound" -> "NotFound"
      [] err = "NotAllowed" -> "MethodNotAllowed"
      [] err = "NotValid" -> "BadRequest"

\* The content format that counts: without one in the request, the one kept by
\* the node.
Format(fmt, ct) == IF fmt = "none" THEN ct ELSE fmt

SetContentType(node, fmt) == IF fmt = "none" THEN node ELSE [node EXCEPT !.ct = fmt]

\* GET on the object or on an instance.
GetNode(o, g, q, ct, data) ==
    IF q.accept = "text" THEN Answer(o, g, "NotAcceptable")
    ELSE IF Format(q.accept, ct) = "text" \/ data = <<>>
    THEN Answer(o, g, "UnsupportedContentFormat")
    ELSE [Answer(o, g, "Content") EXCEPT !.payload = data]

GetObject(o, g, q) ==
    GetNode(IF q.accept = "tlv" THEN SetContentType(o, "tlv") ELSE o, g, q, o.ct,
            serialize_object_instances(o.inst))

GetInstance(o, g, q) ==
    LET inst == Instance(o, q.path)
        o2 == IF q.accept = "tlv" THEN WithInstance(o, SetContentType(inst, "tlv")) ELSE o
    IN GetNode(o2, g, q, inst.ct, serialize_resources(inst.res).data)

\* GET on a resource: a multiple resource is sent as TLV only, a single one as
\* it is kept unless TLV is asked for.
GetResource(o, g, q) ==
    LET r == Resource(o, q.path)
    IN IF r.multi /\ q.accept = "text" THEN Answer(o, g, "NotAcceptable")
       ELSE [Answer(o, g, "Content") EXCEPT !.payload =
                IF r.multi \/ q.accept = "tlv" THEN serialize_resource(r) ELSE r.val]

\* GET on a resource instance: TLV gives the whole resource.
GetResourceInstance(o, g, q) ==
    [Answer(o, g, "Content") EXCEPT !.payload =
        IF q.accept = "tlv" THEN serialize_resource(Resource(o, q.path))
        ELSE ResourceInstance(o, q.path).val]

\* PUT on the object: only attributes can be written, in a query.
PutObject(o, g, q) == Answer(SetContentType(o, q.fmt), g, "BadRequest")

\* value_updated on an instance puts all of its nodes in the list of nsdl.
PutInstance(o, g, q) ==
    LET old == SetContentType(Instance(o, q.path), q.fmt)
        Done(d) ==
            IF d.err # "None" THEN Answer(WithInstance(o, d.inst), g, ErrorCode(d.err))
            ELSE Answer(WithInstance(o, d.inst),
                        (g \ (InstanceNodes(old) \ InstanceNodes(d.inst))) \cup InstanceStructure(d.inst),
                        "Changed")
    IN IF Format(q.fmt, old.ct) # "tlv"
       THEN Answer(WithInstance(o, old), g, "UnsupportedContentFormat")
       ELSE IF q.tlv = <<>> THEN Answer(WithInstance(o, old), g, "Changed")
       ELSE Done(deserialize_resources(q.tlv, old, "put"))

\* PUT on a multiple resource: the message becomes the value of the resource.
PutMultiple(o, g, q) ==
    LET old == Resource(o, q.path)
        i == q.path[1]
        Done(d) ==
            IF d.err # "None" THEN Answer(SetResource(o, q.path, d.r), g, ErrorCode(d.err))
            ELSE Answer(SetResource(o, q.path, [d.r EXCEPT !.val = q.tlv]),
                        (g \ (ResourceNodes(i, old) \ ResourceNodes(i, d.r))) \cup ResourceStructure(i, d.r),
                        "Changed")
    IN IF q.fmt = "text" THEN Answer(o, g, "UnsupportedContentFormat")
       ELSE Done(deserialize_resource_instances(q.tlv, old))

\* PUT on a single resource or on a resource instance: the payload, unless it
\* is empty, becomes the value.
PutValue(o, g, q) ==
    LET r == Resource(o, q.path)
        new == IF Len(q.path) = 2 THEN [r EXCEPT !.val = q.tlv]
               ELSE [r EXCEPT !.insts[Find(r.insts, q.path[3])].val = q.tlv]
    IN IF q.fmt = "tlv" THEN Answer(o, g, "UnsupportedContentFormat")
       ELSE IF q.tlv = <<>> THEN Answer(o, g, "Changed")
       ELSE Answer(SetResource(o, q.path, new), g \cup {q.path}, "Changed")

\* POST on the object creates an instance, with the id of the message or the
\* first free one; it stays when the message is refused.
PostObject(o, g, q) ==
    LET o1 == SetContentType(o, q.fmt)
        free == {i \in Ids : ~Has(o.inst, i)}
        wrapped == q.tlv[1].type = "oi"
        id == IF wrapped THEN q.tlv[1].id ELSE CHOOSE i \in free : \A j \in free : i <= j
        new == NewInstance(id, {"get", "put"})
        Done(err, o2) ==
            IF err # "None" THEN Answer(o2, g, ErrorCode(err))
            ELSE Answer(o2, g \cup ObjectStructure(o2), "Created")
        DoneList(d) == Done(d.err, [o1 EXCEPT !.inst = d.list])
        DoneNew(d) == Done(d.err, [o1 EXCEPT !.inst = Append(@, d.inst)])
    IN IF q.tlv = <<>> THEN Answer(o1, g, "BadRequest")
       ELSE IF Format(q.fmt, o1.ct) # "tlv" THEN Answer(o1, g, "UnsupportedContentFormat")
       ELSE IF free = {} THEN Answer(o1, g, "MethodNotAllowed")
       ELSE IF Has(o.inst, id) THEN Answer(o1, g, "BadRequest")
       ELSE IF wrapped THEN DoneList(deserialise_object_instances(q.tlv, Append(o.inst, new), "post"))
       ELSE DoneNew(deserialize_resources(q.tlv, new, "post"))

\* POST on an instance creates the resources that are missing.  The nodes it
\* created stay when the message is refused.
PostInstance(o, g, q) ==
    LET old == SetContentType(Instance(o, q.path), q.fmt)
        Done(d) ==
            IF d.err # "None" THEN Answer(WithInstance(o, d.inst), g, ErrorCode(d.err))
            ELSE Answer(WithInstance(o, d.inst), g \cup InstanceStructure(d.inst), "Created")
    IN IF Format(q.fmt, old.ct) # "tlv"
       THEN Answer(WithInstance(o, old), g, "UnsupportedContentFormat")
       ELSE Done(deserialize_resources(q.tlv, old, "post"))

\* POST on a path nsdl does not know: an instance is created, and removed when
\* the message is refused.  When the instance is there although nsdl does not
\* know it, no answer is made.
PostUnknown(o, g, q) ==
    LET new == NewInstance(q.path[1], {"get", "put", "post"})
        Done(a) == IF a.code = "Created" THEN a ELSE Answer(o, g, a.code)
    IN IF Len(q.path) # 1 THEN Answer(o, g, "NotFound")
       ELSE IF q.tlv = <<>> THEN Answer(o, g, "BadRequest")
       ELSE IF Has(o.inst, q.path[1]) THEN Answer(o, g, "none")
       ELSE Done(PostInstance([o EXCEPT !.inst = Append(@, new)], g, q))

\* POST on a resource executes it; the answer may be left to the application.
PostResource(o, g, q) ==
    IF q.tlv # <<>> /\ q.fmt = "tlv" THEN Answer(o, g, "UnsupportedContentFormat")
    ELSE [Answer(o, g, IF Resource(o, q.path).kind = "delayed" THEN "Empty" ELSE "Changed")
            EXCEPT !.exec = TRUE,
                   !.payload = IF Resource(o, q.path).kind = "delayed" THEN <<>>
                               ELSE Resource(o, q.path).val]

\* Mutant: only the instance itself leaves the list of nsdl.
RemovePopsOne(o, g, i) ==
    [obj |-> [o EXCEPT !.inst = SelectSeq(@, LAMBDA inst : inst.id # i)], grs |-> g \ {<<i>>}]

\* remove_object_instance, with the destructors of the nodes below, each of
\* which takes its path out of the list of nsdl.
remove_object_instance(o, g, i) ==
    [obj |-> [o EXCEPT !.inst = SelectSeq(@, LAMBDA inst : inst.id # i)],
     grs |-> g \ InstanceNodes(Instance(o, <<i>>))]

DeleteNode(o, g, q) ==
    IF Len(q.path) # 1 THEN Answer(o, g, "BadRequest")
    ELSE LET d == remove_object_instance(o, g, q.path[1]) IN Answer(d.obj, d.grs, "Deleted")

\* resource_callback
Callback(o, g, q) ==
    CASE q.method = "get" /\ Len(q.path) = 0 -> GetObject(o, g, q)
      [] q.method = "get" /\ Len(q.path) = 1 -> GetInstance(o, g, q)
      [] q.method = "get" /\ Len(q.path) = 2 -> GetResource(o, g, q)
      [] q.method = "get" /\ Len(q.path) = 3 -> GetResourceInstance(o, g, q)
      [] q.method = "put" /\ Len(q.path) = 0 -> PutObject(o, g, q)
      [] q.method = "put" /\ Len(q.path) = 1 -> PutInstance(o, g, q)
      [] q.method = "put" /\ Len(q.path) = 2 ->
            IF Resource(o, q.path).multi THEN PutMultiple(o, g, q) ELSE PutValue(o, g, q)
      [] q.method = "put" /\ Len(q.path) = 3 -> PutValue(o, g, q)
      [] q.method = "post" /\ Len(q.path) = 0 -> PostObject(o, g, q)
      [] q.method = "post" /\ Len(q.path) = 1 -> PostInstance(o, g, q)
      [] q.method = "post" /\ Len(q.path) = 2 -> PostResource(o, g, q)
      [] q.method = "post" /\ Len(q.path) = 3 -> Answer(o, g, "BadRequest")
      [] q.method = "delete" -> DeleteNode(o, g, q)

Static(o, p) == Len(p) = 2 /\ Resource(o, p).static

\* sn_grs_process_coap: a path that is not known, an operation that is not
\* allowed, and a static resource are answered here.
Process(o, g, q) ==
    IF q.path \notin g
    THEN IF q.method = "post" THEN PostUnknown(o, g, q) ELSE Answer(o, g, "NotFound")
    ELSE IF q.method \notin Operation(o, q.path) \/ (Static(o, q.path) /\ q.method # "get")
    THEN Answer(o, g, "MethodNotAllowed")
    ELSE IF Static(o, q.path)
    THEN [Answer(o, g, "Content") EXCEPT !.payload = Resource(o, q.path).val]
    ELSE Callback(o, g, q)

----------------------------------------------------------------------------
\* The rules a careful server and application follow.  Careless lifts some.

\* The elements of a message, each with a value or with elements of its own.
RECURSIVE Decode(_)
Decode(tlv) ==
    IF tlv = <<>> THEN <<>>
    ELSE LET body == Value(tlv, 0)
             nests == tlv[1].type \in {"multi", "oi"}
         IN <<[type |-> tlv[1].type, id |-> tlv[1].id,
               val |-> IF nests THEN <<>> ELSE body,
               sub |-> IF nests THEN Decode(body) ELSE <<>>]>>
            \o Decode(SubSeq(tlv, NextOffset(tlv, 0) + 1, Len(tlv)))

\* A PUT or POST of a list of resources, the list, and the resources it meets.
OnList(q) == q.method \in {"put", "post"} /\ Len(q.path) < 2 /\ q.tlv # <<>> /\ q.fmt # "text"

Listed(q) ==
    LET els == Decode(q.tlv) IN IF els[1].type = "oi" THEN els[1].sub ELSE els

Met(o, q) ==
    IF Len(q.path) = 1 /\ Has(o.inst, q.path[1]) THEN Instance(o, q.path).res ELSE <<>>

\* The element would have to be refused: it may not be written, or a PUT does
\* not find it.
Refusable(list, method, e) ==
    LET k == Find(list, e.id)
    IN IF k = 0 THEN method = "put" ELSE "put" \notin list[k].op

Instances(res, e) == IF Has(res, e.id) THEN res[Find(res, e.id)].insts ELSE <<>>

RefusableParts(res, method, e) ==
    IF e.type = "r" \/ ~Has(res, e.id) THEN IF Refusable(res, method, e) THEN {Len(e.sub)} ELSE {}
    ELSE {k \in DOMAIN e.sub : Refusable(Instances(res, e), method, e.sub[k])}

Breaks(rule, o, g, q) ==
    LET els == Listed(q)
        res == Met(o, q)
        last == els[Len(els)]
        Parts(e) == RefusableParts(res, q.method, e)
    IN CASE rule = "early_error" ->    \* only the last element is refusable
              /\ OnList(q)
              /\ \/ \E k \in 1..(Len(els) - 1) : Parts(els[k]) # {}
                 \/ \E k \in Parts(last) : k < Len(last.sub)
         [] rule = "mistyped" ->       \* single and multiple are not mixed up
              OnList(q) /\ \E k \in DOMAIN els, j \in DOMAIN res :
                              els[k].id = res[j].id /\ (els[k].type = "multi") # res[j].multi
         [] rule = "partial" ->        \* a PUT lists all instances
              OnList(q) /\ q.method = "put" /\ \E k \in DOMAIN els :
                  /\ els[k].type = "multi"
                  /\ {Instances(res, els[k])[j].id : j \in DOMAIN Instances(res, els[k])}
                        # {els[k].sub[j].id : j \in DOMAIN els[k].sub}
         [] rule = "two_multiples" ->  \* a POST has no two multiple ones in a row
              OnList(q) /\ q.method = "post"
                  /\ \E k \in 1..(Len(els) - 1) : els[k].type = "multi" /\ els[k + 1].type = "multi"
         [] rule = "post_refused" ->   \* a POST lists nothing that is refusable
              OnList(q) /\ q.method = "post" /\ Parts(last) # {}
         [] rule = "format" ->         \* lists are sent as TLV
              q.method \in {"put", "post"} /\ Len(q.path) < 2 /\ q.fmt = "text"
         [] rule = "hidden" ->         \* what is not registered is not addressed
              q.method = "post" /\ q.path \in Nodes(o) \ g
         [] rule = "overlap" ->        \* one delayed request at a time
              q.method = "post" /\ Len(q.path) = 2 /\ owed # {}

RuleNames == {"early_error", "mistyped", "partial", "two_multiples", "post_refused",
              "format", "hidden", "overlap"}

\* Rules that are never broken.  A POST to an instance has a body, as the
\* deserializer reads its first byte without looking at the length; a PUT to a
\* multiple resource has a list, and one to a single resource a value.
WellFormed(q) ==
    /\ q.method = "post" /\ Len(q.path) = 1 /\ q.path \in grs => q.tlv # <<>>
    /\ q.method = "put" /\ Len(q.path) = 2 /\ q.path \in grs /\ q.tlv # <<>>
          => Resource(obj, q.path).multi = ("type" \in DOMAIN q.tlv[1])

Careful(q) == WellFormed(q) /\ \A rule \in RuleNames \ Careless : ~Breaks(rule, obj, grs, q)

----------------------------------------------------------------------------
\* Actions

Init ==
    /\ obj = [ct |-> "tlv", inst |-> FirstTree]
    /\ grs = ObjectStructure([ct |-> "tlv", inst |-> FirstTree])
    /\ delayed = 0
    /\ owed = {}
    /\ asked = 0
    /\ answered = <<>>
    /\ fresh = {}
    /\ steps = 0

Count == steps < MaxSteps /\ steps' = steps + 1

\* A request is processed.  A delayed POST keeps its token.
Respond(a) ==
    /\ a.code = "Empty" => asked < MaxTokens
    /\ obj' = a.obj
    /\ grs' = a.grs
    /\ fresh' = (fresh \cap Nodes(a.obj)) \ a.grs
    /\ IF a.code = "Empty"
       THEN delayed' = asked + 1 /\ owed' = owed \cup {asked + 1} /\ asked' = asked + 1
       ELSE UNCHANGED <<delayed, owed, asked>>
    /\ UNCHANGED answered

Request(q) == Count /\ Careful(q) /\ Respond(Process(obj, grs, q))

\* send_delayed_post_response: the application has finished a request.
SendDelayedResponse ==
    /\ \E t \in owed : owed' = owed \ {t}
    /\ answered' = Append(answered, delayed)
    /\ UNCHANGED <<obj, grs, delayed, asked, fresh, steps>>

\* A change of the tree by the application: removed nodes leave the list of
\* nsdl, and new ones are not in it yet.
Change(new) ==
    /\ Count
    /\ obj' = new
    /\ grs' = grs \ (Nodes(obj) \ Nodes(new))
    /\ fresh' = (fresh \cap Nodes(new)) \cup (Nodes(new) \ Nodes(obj))
    /\ UNCHANGED <<delayed, owed, asked, answered>>

set_value(p, v) ==
    /\ p \in Nodes(obj) /\ Len(p) = 2
    /\ ~Resource(obj, p).multi
    /\ Change(SetResource(obj, p, [Resource(obj, p) EXCEPT !.val = v]))

create_object_instance(i) ==
    /\ ~Has(obj.inst, i)
    /\ Change([obj EXCEPT !.inst = Append(@, NewInstance(i, {"get"}))])

create_resource(i, r) ==
    /\ Has(obj.inst, i) /\ ~Has(Instance(obj, <<i>>).res, r.id)
    /\ Change(WithInstance(obj, [Instance(obj, <<i>>) EXCEPT !.res = Append(@, r)]))

\* create_dynamic_resource_instance creates the resource too, if it is missing.
create_resource_instance(i, id, k) ==
    /\ Has(obj.inst, i)
    /\ LET inst == Instance(obj, <<i>>)
           all == IF Has(inst.res, id) THEN inst
                  ELSE [inst EXCEPT !.res = Append(@, [NewResource(id, TRUE) EXCEPT !.op = {"get"}])]
           r == all.res[Find(all.res, id)]
       IN /\ r.multi /\ ~Has(r.insts, k)
          /\ Change(WithInstance(obj, WithResource(all,
                [r EXCEPT !.insts = Append(@, NewResourceInstance(k, {"get"}))])))

remove_resource(i, id) ==
    /\ Has(obj.inst, i) /\ Has(Instance(obj, <<i>>).res, id)
    /\ Change(WithInstance(obj, [Instance(obj, <<i>>) EXCEPT
            !.res = SelectSeq(@, LAMBDA r : r.id # id)]))

\* remove_resource_instance removes the resource with its last instance.
remove_resource_instance(p) ==
    /\ p \in Nodes(obj) /\ Len(p) = 3
    /\ LET r == Resource(obj, p)
           rest == SelectSeq(r.insts, LAMBDA i : i.id # p[3])
           inst == Instance(obj, p)
       IN Change(WithInstance(obj,
            IF rest = <<>> THEN [inst EXCEPT !.res = SelectSeq(@, LAMBDA s : s.id # r.id)]
            ELSE WithResource(inst, [r EXCEPT !.insts = rest])))

remove_instance(i) ==
    /\ Has(obj.inst, i)
    /\ Count
    /\ LET d == remove_object_instance(obj, grs, i)
       IN obj' = d.obj /\ grs' = d.grs /\ fresh' = fresh \cap Nodes(d.obj)
    /\ UNCHANGED <<delayed, owed, asked, answered>>

\* create_nsdl_list_structure, when the application registers its objects.
RegisterObjects ==
    /\ fresh # {}
    /\ grs' = grs \cup ObjectStructure(obj)
    /\ fresh' = fresh \ ObjectStructure(obj)
    /\ UNCHANGED <<obj, delayed, owed, asked, answered, steps>>

\* The executable resource is part of an instance the application keeps.
Kept(i) == \E k \in DOMAIN obj.inst :
    obj.inst[k].id = i /\ \E j \in DOMAIN obj.inst[k].res : obj.inst[k].res[j].kind = "delayed"

AppChanges ==
    \/ \E p \in Nodes(obj), v \in AppValues : set_value(p, v)
    \/ \E i \in Ids : create_object_instance(i)
    \/ \E i \in Ids, r \in Templates : create_resource(i, r)
    \/ \E i \in Ids, r \in Templates, k \in {0, 1} : r.multi /\ create_resource_instance(i, r.id, k)
    \/ \E i \in Ids, r \in Templates : ~Kept(i) /\ remove_resource(i, r.id)
    \/ \E p \in Nodes(obj) : remove_resource_instance(p)
    \/ \E i \in Ids : ~Kept(i) /\ remove_instance(i)

Next ==
    \/ \E q \in Requests : Request(q)
    \/ SendDelayedResponse
    \/ AppChanges
    \/ RegisterObjects

Spec == Init /\ [][Next]_vars

----------------------------------------------------------------------------
\* Properties

Unique(list) == \A j, k \in DOMAIN list : list[j].id = list[k].id => j = k

\* Ids are unique at each level, operations are operations, and the tokens are
\* those that were asked.
TypeOK ==
    /\ obj.ct \in {"tlv", "text"}
    /\ Unique(obj.inst)
    /\ \A i \in DOMAIN obj.inst :
          /\ obj.inst[i].id \in Ids /\ obj.inst[i].op \subseteq All
          /\ Unique(obj.inst[i].res)
          /\ \A k \in DOMAIN obj.inst[i].res :
                LET r == obj.inst[i].res[k]
                IN r.op \subseteq All /\ Unique(r.insts) /\ (r.insts # <<>> => r.multi)
    /\ fresh \subseteq Nodes(obj)
    /\ owed \subseteq 1..asked
    /\ delayed \in 0..asked

\* nsdl keeps pointers to the nodes: every path in its list is a node that is
\* still there, whatever a PUT, a DELETE or the application removed, and the
\* server can address every node but those not registered yet.
PathsMatchTree == grs \subseteq Nodes(obj) /\ Nodes(obj) \ fresh \subseteq grs

\* For every request of a careful server in this state, and its answer.
EachAnswer(Holds(_, _)) ==
    \A q \in Requests : Careful(q) => Holds(q, Process(obj, grs, q))

Refused == {"BadRequest", "NotFound", "MethodNotAllowed", "UnsupportedContentFormat",
            "NotAcceptable"}

RefusedChangesNothing(a) == a.code # "none" /\ (a.code \in Refused => a.obj = obj /\ a.grs = grs)

NodeValue(o, p) == IF Len(p) = 2 THEN Resource(o, p).val ELSE ResourceInstance(o, p).val

ReadOnlyKept(o) ==
    o # obj =>
        \A p \in Nodes(obj) \cap Nodes(o) :
            Len(p) >= 2 /\ "put" \notin Operation(obj, p) => NodeValue(o, p) = NodeValue(obj, p)

OthersUntouched(q, o) ==
    \A k \in DOMAIN obj.inst :
        (q.path = <<>> \/ q.path[1] # obj.inst[k].id)
            => Has(o.inst, obj.inst[k].id) /\ Instance(o, <<obj.inst[k].id>>) = obj.inst[k]


\* The values in a list of elements.
Values(els) == UNION {
    IF els[k].type # "multi" THEN {<<els[k].id, els[k].val>>}
    ELSE {<<els[k].id>>} \cup {<<els[k].id, els[k].sub[j].id, els[k].sub[j].val>> : j \in DOMAIN els[k].sub}
    : k \in DOMAIN els}

ReadBack(inst) == Values(Decode(serialize_resources(inst.res).data))

\* What a list writes into an instance, as a read shows it: an integer that is
\* sent without a value is 0.
Shown(r, val) == IF r.kind = "int" /\ val = <<>> THEN <<[form |-> "bin", n |-> 0]>> ELSE val

Written(els, inst) ==
    {IF Len(v) = 1 THEN v
     ELSE [v EXCEPT ![Len(v)] = Shown(inst.res[Find(inst.res, v[1])], v[Len(v)])] :
     v \in {w \in Values(els) :
        LET r == inst.res[Find(inst.res, w[1])]
        IN "get" \in r.op /\ (Len(w) = 3 => "get" \in r.insts[Find(r.insts, w[2])].op)}}

\* A PUT of a list on an instance that is answered with Changed replaces the
\* contents: a read gives what was listed and nothing else.
PutIsRead ==
    LET Replaces(q, inst) == ReadBack(inst) = Written(Listed(q), inst)
    IN EachAnswer(LAMBDA q, a :
        q.method = "put" /\ Len(q.path) = 1 /\ OnList(q) /\ a.code = "Changed"
            => Replaces(q, Instance(a.obj, q.path)))

\* A POST of a list that is answered with Created adds what was listed: a read
\* gives it, and beside it only what was there before.
CreateIsRead ==
    LET Id(q, o) ==
            IF q.path # <<>> THEN q.path[1]
            ELSE CHOOSE i \in Ids : Has(o.inst, i) /\ ~Has(obj.inst, i)
        Before(i) == IF Has(obj.inst, i) THEN ReadBack(Instance(obj, <<i>>)) ELSE {}
        Between(lower, middle, upper) == lower \subseteq middle /\ middle \subseteq upper
        Adds(inst, written) == Between(written, ReadBack(inst), written \cup Before(inst.id))
        AddsListed(q, inst) == Adds(inst, Written(Listed(q), inst))
    IN EachAnswer(LAMBDA q, a :
        a.code = "Created" => AddsListed(q, Instance(a.obj, <<Id(q, a.obj)>>)))

Get(i) == Process(obj, grs, [method |-> "get", path |-> <<i>>, fmt |-> "none",
                             accept |-> "none", tlv |-> <<>>])

\* An instance with something to read can always be read, whatever the server
\* asked or wrote before.
StaysReadable ==
    \A k \in DOMAIN obj.inst :
        LET inst == obj.inst[k]
        IN /\ <<inst.id>> \in grs /\ "get" \in inst.op
           /\ \E j \in DOMAIN inst.res : "get" \in inst.res[j].op
           => Get(inst.id).code = "Content"

\* Writing back what was read, to an instance that may be read and written in
\* all of its parts, succeeds and changes nothing that can be read.
PutBack ==
    LET ReadWrite(node) == {"get", "put"} \subseteq node.op
        Back(inst) == Process(obj, grs, [method |-> "put", path |-> <<inst.id>>, fmt |-> "tlv",
                                         accept |-> "none", tlv |-> Get(inst.id).payload])
        Same(inst, a) == a.code = "Changed" /\ ReadBack(Instance(a.obj, <<inst.id>>)) = ReadBack(inst)
    IN \A k \in DOMAIN obj.inst :
        LET inst == obj.inst[k]
        IN /\ <<inst.id>> \in grs /\ ReadWrite(inst) /\ inst.res # <<>>
           /\ \A j \in DOMAIN inst.res :
                 LET r == inst.res[j]
                 IN ReadWrite(r) /\ (r.multi => r.insts # <<>>)
                      /\ \A i \in DOMAIN r.insts : ReadWrite(r.insts[i])
           => Same(inst, Back(inst))


\* The answers of the application to delayed POST requests carry the token of
\* each request once.
EachTokenAnswered ==
    /\ Range(answered) \cup owed = 1..asked
    /\ Len(answered) + Cardinality(owed) = asked

=============================================================================
