----------------------------- MODULE MCUnifiedIr -----------------------------
(***************************************************************************)
(* Three versions of a protocol with at most two classes, of which b may   *)
(* extend a, and which change their members, lengths and parameters.       *)
(***************************************************************************)
EXTENDS UnifiedIr

Mem(name, kind) ==
    [name |-> name, kind |-> kind, type |-> "uint8_t", offset |-> 0, length |-> 1, value |-> 0]

Class(name, super, members, param, virtual, fixed, base) ==
    [name |-> name, super |-> super, members |-> members, param |-> param,
     virtual |-> virtual, fixed |-> fixed, base |-> base]

X == Mem("x", "data")
Y == Mem("y", "data")

As == {Class("a", NoClass, <<X>>, NoParam, FALSE, TRUE, 4),
       Class("a", NoClass, <<Y, X>>, NoParam, FALSE, TRUE, 8),
       Class("a", NoClass, <<X>>, NoParam, TRUE, FALSE, 4)}

B(super, members, param) == Class("b", super, members, param, FALSE, TRUE, 4)
Bs == {B(NoClass, <<X>>, "p"), B("a", <<X>>, "p"), B(NoClass, <<Mem("x", "length")>>, "p"),
       B(NoClass, <<>>, NoParam), B("a", <<>>, "q")}

\* The classes of one version, in every order build_protocol() can give.
Versions ==
    {<<>>} \cup {<<a>> : a \in As} \cup {<<b>> : b \in {c \in Bs : c.super = NoClass}}
    \cup {<<a, b>> : a \in As, b \in Bs}
    \cup {<<b, a>> : a \in As, b \in {c \in Bs : c.super = NoClass}}

MCProtocols ==
    {[v \in 1..3 |-> [classes |-> cs[v], enums |-> <<>>]] : cs \in [1..3 -> Versions]}
=============================================================================
