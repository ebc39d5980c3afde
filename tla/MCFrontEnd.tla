------------------------------ MODULE MCFrontEnd ------------------------------
(***************************************************************************)
(* Classes a, act, m and mv, of which act is the root of the actions and   *)
(* mv is what a match stands for from version 4 on: every choice of        *)
(* declarations of them in one file, with the struct act_id that looks     *)
(* like an action too, and small declarations over two or three files for  *)
(* different versions.                                                     *)
(***************************************************************************)
EXTENDS FrontEnd, TLC

MCSorted == <<"a", "act", "act_id", "m", "mv">>
MCIdName == [n \in ToSet(MCSorted) |->
                CASE n = "a" -> "a_id" [] n = "act" -> "act_id" [] n = "act_id" -> "act_id_id"
                  [] n = "m" -> "m_id" [] n = "mv" -> "mv_id"]

Plain(bytes, fixed) == [bytes |-> bytes, fixed |-> fixed]
MCBasicLength ==
    ("pad" :> Plain(1, TRUE)) @@ ("u16" :> Plain(2, TRUE)) @@ ("list" :> Plain(0, FALSE)) @@
    ("match_v1" :> Plain(40, TRUE)) @@ ("mv" :> Plain(8, FALSE))
MCMixed == "match" :> [v \in {1, 4} |-> IF v = 1 THEN "match_v1" ELSE "mv"]

Member(kind, name, type) == [kind |-> kind, name |-> name, type |-> type, count |-> 1]
Data(name, type) == Member("data", name, type)
Type == Member("type", "type", "u16")
Array(type) == [Data("f", type) EXCEPT !.count = 2]
Discriminator == Member("discriminator", "type", "u16")
Pad(n) == [kind |-> "pad", name |-> "", type |-> "pad", count |-> n]

Class(name, super, virtual, aligned, members) ==
    [name |-> name, super |-> super, virtual |-> virtual, aligned |-> aligned,
     members |-> members]

CandidatesA ==
    {Class("a", s, FALSE, FALSE, ms) : s \in {NoClass, "m"},
        ms \in {<<Type>>, <<Type, Data("f", "m")>>, <<Data("f", "match"), Data("g", "u16")>>,
                <<Data("f", "act"), Data("g", "m")>>, <<Array("m")>>, <<Data("f", "list"), Data("g", "u16")>>}}
CandidatesAct ==
    {Class("act", NoClass, TRUE, FALSE, <<Discriminator>>),
     Class("act", NoClass, FALSE, FALSE, <<Type, Data("f", "mv"), Pad(4)>>)}
CandidatesM ==
    {Class("m", s, FALSE, FALSE, ms) : s \in {NoClass, "act", "a", "x"},
        ms \in {<<Type>>, <<Type, Data("f", "a")>>, <<Type, Array("a")>>, <<Type, Data("f", "list")>>,
                <<Pad(2), Data("f", "mv")>>}}
    \cup {Class("m", "act", TRUE, FALSE, <<Discriminator>>)}
CandidatesMv ==
    {Class("mv", NoClass, FALSE, TRUE, <<Type, Data("f", "u16"), Data("g", "list")>>)}

\* The struct of_action_id of standard-1.4, whose name is that of an ID class,
\* and with a type that is nowhere.
Standalones ==
    {Class("act_id", NoClass, FALSE, FALSE, <<Data("type", "u16"), Data("len", "u16"), Data("exp_data", type)>>) :
        type \in {"list", "y"}}

Optional(cs) == {<<>>} \cup {<<c>> : c \in cs}

Files(as, acts, ms, mvs) == {a \o act \o m \o mv : a \in as, act \in acts, m \in ms, mv \in mvs}

MCInputs ==
    Files(Optional(CandidatesA), Optional(CandidatesAct), Optional(CandidatesM),
          Optional(CandidatesMv))
    \cup {<<struct>> \o file : struct \in Standalones,
            file \in Files(Optional(CandidatesA), Optional(CandidatesAct),
                           Optional({c \in CandidatesM : c.super = "act"}), {<<>>})}
    \cup {<<c, c>> : c \in CandidatesMv}

File(versions, structs) == [versions |-> versions, structs |-> structs]

OneFile == {<<File(<<4, 1>>, structs)>> : structs \in MCInputs}

\* #version lines, of which 9 is no version and 3 is not a target.
Headers == {<<1>>, <<4>>, <<1, 4>>, <<AnyVersion>>, <<3, AnyVersion>>, <<4, 3>>, <<9>>, <<>>}
Root == Class("act", NoClass, FALSE, FALSE, <<Discriminator>>)
Leaf(n) == Class(n, "act", FALSE, FALSE, <<Type, Data("len", "u16"), Data("version", "u16")>>)
User(type) == Class("m", NoClass, FALSE, FALSE, <<Data("f", type), Data("g", "u16")>>)
Doubled == Class("m", NoClass, FALSE, FALSE, <<Discriminator, Discriminator>>)

First == {<<Root>>, <<Root, Leaf("m")>>, <<User("a")>>}
Second == {<<Leaf("a")>>, <<User("a")>>, <<Leaf("m"), Leaf("a")>>, <<Doubled>>}

TwoFiles == {<<File(h, a), File(k, b)>> : h, k \in Headers, a \in First, b \in Second}
ThreeFiles == {<<File(h, a), File(k, <<Leaf("a")>>), File(l, <<User("a")>>)>> :
                  h, k, l \in Headers \ {<<9>>, <<>>}, a \in First}

MCFileSets == {<<>>} \cup OneFile \cup TwoFiles \cup ThreeFiles

\* A class with two pads.
PadFiles ==
    {<<File(<<4>>, <<Class("m", NoClass, FALSE, FALSE, ms)>>)>> :
        ms \in {<<Type, Pad(a), Data("f", "u16"), Pad(b)>> : a, b \in 1..8}
               \cup {<<Pad(a), Data("f", "list"), Pad(b)>> : a, b \in 1..8}}
===============================================================================
