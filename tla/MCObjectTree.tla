--------------------------- MODULE MCObjectTree ---------------------------
(***************************************************************************)
(* An object with a writable instance of every kind of resource and a      *)
(* read-only instance with an executable resource, and the requests on it. *)
(***************************************************************************)
EXTENDS ObjectTree

Text(n) == <<[form |-> "text", n |-> n]>>
Bin(n) == <<[form |-> "bin", n |-> n]>>

Res(id, kind, op, val) == [NewResource(id, FALSE) EXCEPT !.kind = kind, !.op = op, !.val = val]

RW == {"get", "put"}

Many(id, insts) == [NewResource(id, FALSE) EXCEPT !.multi = TRUE, !.op = RW, !.insts = insts]

MCFirstTree == <<
    [NewInstance(0, All) EXCEPT !.res = <<
        Res(0, "raw", RW, Bin(1)),
        [Res(1, "raw", {"get"}, Bin(1)) EXCEPT !.static = TRUE],
        Res(2, "int", RW, Text(1)),
        Many(3, <<[id |-> 0, op |-> RW, val |-> Bin(1)], [id |-> 1, op |-> {"get"}, val |-> Bin(1)]>>)>>],
    [NewInstance(1, {"get"}) EXCEPT !.res = <<Res(4, "delayed", {"post"}, <<>>)>>] >>

MCTemplates == {Res(0, "raw", RW, Bin(1)), Many(3, <<>>)}

\* Also a resource whose name is not a number.
MCNamed == MCTemplates \cup {Res(NoId, "raw", {"get"}, Bin(1))}

MCAppValues == {Text(2)}

\* Message bodies of one or two elements.
R(id, v) == serialize_TILV("r", id, v)
M(id, subs) == serialize_TILV("multi", id, subs)
RI(id, v) == serialize_TILV("ri", id, v)

Single == {R(0, Bin(2)), R(2, <<>>), R(5, Bin(2))}
Multiple == {M(3, RI(0, Bin(2))), M(3, RI(0, <<>>) \o RI(1, Bin(2))), M(5, RI(0, Bin(2)))}

Bodies ==
    Single \cup Multiple \cup {M(0, RI(0, Bin(2)))}
      \cup {R(2, Bin(2)) \o e : e \in Multiple \cup {R(0, <<>>), R(1, Bin(2))}}
      \cup {M(3, RI(0, Bin(2))) \o e : e \in {R(0, Bin(2)), M(5, RI(1, Bin(2)))}}
      \cup {R(1, Bin(2)) \o R(0, Bin(2)), M(3, RI(1, Bin(2)) \o RI(0, Bin(2))) \o R(0, Bin(2))}

Ask(method, path, fmt, accept, tlv) ==
    [method |-> method, path |-> path, fmt |-> fmt, accept |-> accept, tlv |-> tlv]

Read ==
    {Ask("get", p, "none", a, <<>>) : p \in {<<>>, <<0>>, <<0, 3>>}, a \in {"none", "tlv", "text"}}
      \cup {Ask("get", p, "none", a, <<>>) : p \in {<<0, 0>>, <<0, 1>>, <<0, 3, 0>>}, a \in {"none", "tlv"}}

Write ==
    {Ask("put", <<i>>, "tlv", "none", b) : i \in {0, 2}, b \in Bodies}
      \cup {Ask("put", <<0, 3>>, f, "none", b) : f \in {"none", "text"}, b \in Multiple}
      \cup {Ask("put", p, "none", "none", Text(2)) : p \in {<<0, 0>>, <<0, 1>>, <<0, 2>>, <<0, 3, 0>>}}
      \cup {Ask("put", <<0, 0>>, "tlv", "none", Text(2)), Ask("put", <<0, 2>>, "none", "none", <<>>),
            Ask("put", <<0>>, "none", "none", <<>>)}
      \cup {Ask("put", p, "text", "none", Text(2)) : p \in {<<>>, <<0>>}}

Create ==
    {Ask("post", p, "tlv", "none", b) : p \in {<<>>, <<0>>, <<2>>}, b \in Bodies}
      \cup {Ask("post", <<>>, "none", "none", serialize_TILV("oi", i, b)) : i \in Ids, b \in Multiple}
      \cup {Ask("post", <<2>>, "none", "none", <<>>), Ask("post", <<0, 3, 0>>, "none", "none", <<>>)}

Execute == {Ask("post", <<1, 4>>, f, "none", v) : f \in {"none", "tlv"}, v \in {<<>>, Text(1)}}

Delete == {Ask("delete", p, "none", "none", <<>>) : p \in {<<0>>, <<1>>, <<2>>, <<0, 0>>}}

MCRequests == Read \cup Write \cup Create \cup Execute \cup Delete

=============================================================================
