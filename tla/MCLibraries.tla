----------------------------- MODULE MCLibraries -----------------------------
(***************************************************************************)
(* Protocols for Libraries: classes that change between three versions,    *)
(* enums that do, hierarchies that do, the classes whose length the C      *)
(* library gets in a way of their own, and a class for every plain type.   *)
(***************************************************************************)
EXTENDS Libraries

Member(name, kind, type, offset, length, value) ==
    [name |-> name, kind |-> kind, type |-> type, offset |-> offset, length |-> length, value |-> value]
Data(name, type, offset, length) == Member(name, "data", type, offset, length, NoValue)
U16Length(offset) == Member("length", "length", "uint16_t", offset, 2, NoValue)
Type(name, type, offset, length, value) == Member(name, "type", type, offset, length, value)
Disc(name, type, offset, length) == Member(name, "disc", type, offset, length, NoValue)

Class(name, super, members, param, virtual, fixed, base) ==
    [name |-> name, super |-> super, members |-> members, param |-> param,
     virtual |-> virtual, fixed |-> fixed, base |-> base]
Virtual(name, super, members, base) == Class(name, super, members, NoParam, TRUE, FALSE, base)
Fixed(name, super, members, base) == Class(name, super, members, NoParam, FALSE, TRUE, base)
Varying(name, super, members, base) == Class(name, super, members, NoParam, FALSE, FALSE, base)

Version(classes, enums) == [classes |-> classes, enums |-> enums]
-----------------------------------------------------------------------------
(* At most two classes, of which b may extend a.                            *)

X == Data("x", "uint8_t", 0, 1)
Y == Data("y", "uint8_t", 0, 1)

As == {Fixed("a", NoClass, <<X>>, 4), Fixed("a", NoClass, <<Y, X>>, 8),
       Class("a", NoClass, <<X>>, NoParam, TRUE, FALSE, 4)}

B(super, members, param) == Class("b", super, members, param, FALSE, TRUE, 4)
Bs == {B(NoClass, <<X>>, "p"), B("a", <<X, Member("", "pad", "pad", 1, 1, NoValue), X>>, "p"),
       B(NoClass, <<Member("x", "length", "uint16_t", 0, 2, NoValue)>>, "p"), B("a", <<>>, "q")}

\* The classes of one version, in every order build_protocol() can give.
ClassLists ==
    {<<>>} \cup {<<a>> : a \in As} \cup {<<b>> : b \in {c \in Bs : c.super = NoClass}}
    \cup {<<a, b>> : a \in As, b \in Bs}
    \cup {<<b, a>> : a \in As, b \in {c \in Bs : c.super = NoClass}}

ClassProtocols ==
    {<<Version(p, <<>>), Version(q, <<>>), Version(r, <<>>)>> : p, q, r \in ClassLists}
-----------------------------------------------------------------------------
(* An enum that changes.                                                    *)

Entry(name, value, param) == [name |-> name, value |-> value, param |-> param]
EntryLists == {<<Entry("p", 1, NoParam)>>, <<Entry("p", 2, "m")>>,
               <<Entry("q", 2, NoParam), Entry("p", 1, "n")>>}
Enums == {[name |-> "e", stable |-> s, wire |-> NoParam, entries |-> es] :
             s \in {"True", "False", NoParam}, es \in EntryLists}
EnumVersions3 == {Version(<<>>, <<>>)} \cup {Version(<<>>, <<e>>) : e \in Enums}

EnumProtocols == {<<p, q, r>> : p, q, r \in EnumVersions3}

\* A member whose type is an enum, with another wire type in every version.
Wired(type, bytes) ==
    Version(<<Fixed("m", NoClass, <<Data("f", "e", 0, bytes)>>, bytes)>>,
            <<[name |-> "e", stable |-> NoParam, wire |-> type, entries |-> <<Entry("p", 1, NoParam)>>]>>)
WiredVersions == {Wired("uint8_t", 1), Wired("uint16_t", 2), Wired("uint32_t", 4)}
WiredProtocols == {<<p, q>> : p, q \in WiredVersions}
-----------------------------------------------------------------------------
(* A hierarchy: r is the root, a and b extend it, and c may extend a.       *)

R(o) == Virtual("r", NoClass, <<Disc("type", "uint8_t", o, 1)>>, 4)
AConcrete(o, value) ==
    Fixed("a", "r", <<Type("type", "uint8_t", o, 1, value), Data("z", "uint16_t", 2 + o, 2)>>, 5)
AVirtual(o, value, p) ==
    Virtual("a", "r", <<Type("type", "uint8_t", o, 1, value), Disc("sub", "uint16_t", p, 2)>>, 8)
BConcrete(o, value) == Fixed("b", "r", <<Type("type", "uint8_t", o, 1, value)>>, 4)
C(o, value, p, sub) ==
    Fixed("c", "a", <<Type("type", "uint8_t", o, 1, value), Type("sub", "uint16_t", p, 2, sub)>>, 8)

Hierarchies ==
    {Version(<<R(o), AConcrete(o, x), BConcrete(o, 3 - x)>>, <<>>) : o \in {0, 1}, x \in {1, 2}}
    \cup {Version(<<R(o), AVirtual(o, x, p), BConcrete(o, 3 - x), C(o, x, p, s)>>, <<>>) :
             o \in {0, 1}, x \in {1, 2}, p \in {4, 6}, s \in {1, 2}}
HierarchyProtocols == {<<p, q>> : p, q \in Hierarchies}
-----------------------------------------------------------------------------
(* The shapes of the classes with a length in the five versions.            *)

Entries(v) ==
    IF v < 5 THEN <<Fixed("of_port_stats_entry", NoClass, <<Data("port_no", "of_port_no_t", 0, IF v = 1 THEN 2 ELSE 4)>>, 104),
                    Fixed("of_queue_stats_entry", NoClass, <<Data("port_no", "of_port_no_t", 0, IF v = 1 THEN 2 ELSE 4)>>, 32),
                    Fixed("of_port_desc", NoClass, <<Data("port_no", "of_port_no_t", 0, IF v = 1 THEN 2 ELSE 4)>>, 64)>>
    ELSE <<Varying("of_port_stats_entry", NoClass, <<U16Length(0), Data("port_no", "of_port_no_t", 4, 4)>>, 80),
           Varying("of_queue_stats_entry", NoClass, <<U16Length(0), Data("port_no", "of_port_no_t", 8, 4)>>, 48),
           Varying("of_port_desc", NoClass, <<Data("port_no", "of_port_no_t", 0, 4), U16Length(4)>>, 40),
           Varying("of_queue_desc", NoClass, <<Data("port_no", "uint32_t", 0, 4), U16Length(8)>>, 16)>>

PacketQueue(v) ==
    IF v < 3 THEN Varying("of_packet_queue", NoClass, <<Data("queue_id", "uint32_t", 0, 4), U16Length(4)>>, 8)
    ELSE Varying("of_packet_queue", NoClass,
                 <<Data("queue_id", "uint32_t", 0, 4), Data("port", "of_port_no_t", 4, 4), U16Length(8)>>, 16)

\* A property, a flow's statistics, an OXM and its masked form.
Others(v) ==
    <<Varying("of_prop", NoClass, <<Type("type", "uint16_t", 0, 2, 1), U16Length(2), Data("f", "uint8_t", 4, 1)>>, 8),
      Varying("of_flow_stats_entry", NoClass, <<U16Length(0), Data("table_id", "uint8_t", 2, 1)>>, 4)>>
    \o (IF v < 4 THEN <<>>
        ELSE <<Varying("of_meter_stats", NoClass, <<Data("meter_id", "uint32_t", 0, 4), U16Length(4)>>, 40)>>)

LengthProtocol ==
    [v \in 1..5 |-> Version(Entries(v) \o <<PacketQueue(v)>> \o Others(v), <<>>)]

\* Messages, actions and OXMs, of which the action's port grows.
Hello(v) == Fixed("of_hello", Header,
    <<Type("version", "uint8_t", 0, 1, v), Type("type", "uint8_t", 1, 1, 0), U16Length(2), Data("xid", "uint32_t", 4, 4)>>, 8)
Messages(v) ==
    <<Virtual(Header, NoClass, <<Type("version", "uint8_t", 0, 1, v), Disc("type", "uint8_t", 1, 1),
                                 U16Length(2), Data("xid", "uint32_t", 4, 4)>>, 8), Hello(v)>>

Actions(v) ==
    <<Virtual("of_action", NoClass, <<Disc("type", "uint16_t", 0, 2), U16Length(2)>>, 4),
      Fixed("of_action_output", "of_action",
            <<Type("type", "uint16_t", 0, 2, 0), U16Length(2)>> \o
            (IF v = 1 THEN <<Data("port", "of_port_no_t", 4, 2), Data("max_len", "uint16_t", 6, 2)>>
             ELSE <<Data("port", "of_port_no_t", 4, 4), Data("max_len", "uint16_t", 8, 2)>>),
            IF v = 1 THEN 8 ELSE 16)>>

OxmClass(name, value, base, members) ==
    Fixed(name, OxmRoot, <<Type("type_len", "uint32_t", 0, 4, value)>> \o members, base)
Oxms ==
    <<Virtual(OxmRoot, NoClass, <<Disc("type_len", "uint32_t", 0, 4)>>, 4),
      OxmClass("of_oxm_port", 516, 8, <<Data("value", "of_port_no_t", 4, 4)>>),
      OxmClass("of_oxm_mac_masked", 1804, 16,
          <<Data("value", "of_mac_addr_t", 4, 6), Data("value_mask", "of_mac_addr_t", 10, 6)>>)>>

MessageProtocols ==
    {[v \in 1..3 |-> Version(Messages(v), <<>>)], [v \in 1..3 |-> Version(Actions(v), <<>>)],
     [v \in 1..4 |-> Version(IF v < 3 THEN <<>> ELSE Oxms, <<>>)]}
-----------------------------------------------------------------------------
(* A class with one member of a type, and another member behind it.         *)

IrLength ==
    [t \in PlainTypes |->
        CASE t = "uint8_t" -> 1 [] t = "uint16_t" -> 2 [] t \in {"uint32_t", "of_ipv4_t"} -> 4
          [] t = "uint64_t" -> 8 [] t = "of_mac_addr_t" -> 6 [] t = "of_port_name_t" -> 16
          [] t \in {"of_table_name_t", "of_serial_num_t"} -> 32 [] t = "of_desc_str_t" -> 256
          [] t \in {"of_str64_t", "of_bitmap_512_t"} -> 64
          [] t \in {"uint128_t", "of_bitmap_128_t", "of_checksum_128_t", "of_ipv6_t"} -> 16
          [] OTHER -> 0]
MCMixedTypes ==
    [of_port_no_t |-> [v \in 1..5 |-> IF v = 1 THEN "uint16_t" ELSE "uint32_t"],
     of_fm_cmd_t |-> [v \in 1..5 |-> IF v = 1 THEN "uint16_t" ELSE "uint8_t"],
     of_wc_bmap_t |-> [v \in 1..5 |-> IF v <= 2 THEN "uint32_t" ELSE "uint64_t"],
     of_match_bmap_t |-> [v \in 1..5 |-> IF v <= 2 THEN "uint32_t" ELSE "uint64_t"]]
MCBaseTypes == [t \in PlainTypes \ DOMAIN MCMixedTypes |-> IrLength[t]]

TypeClass(t, v) ==
    LET n == IF t \in DOMAIN MCMixedTypes THEN MCBaseTypes[MCMixedTypes[t][v]] ELSE MCBaseTypes[t]
    IN  Fixed("m", NoClass, <<Data("f", t, 0, n), Data("z", "uint8_t", n, 1)>>, n + 1)

TypeVersions(t) == IF t = "of_wc_bmap_t" THEN {1, 2} ELSE 1..4
TypeProtocols ==
    {[v \in 1..4 |-> Version(IF v \in TypeVersions(t) THEN <<TypeClass(t, v)>> ELSE <<>>, <<>>)] : t \in PlainTypes}

\* The members of input files whose Java type is an exception, by their type:
\* the OXMs, as they are and masked, and members of other classes, by version.
OxmValues(v) ==
    [uint8_t |-> {"vlan_pcp", "ip_dscp", "ip_ecn", "ip_proto", "icmpv4_type", "icmpv4_code",
                  "icmpv6_code", "icmpv6_type", "mpls_tc", "bsn_l2_cache_hit", "bsn_ip_fragmentation",
                  "conn_tracking_nw_proto"}
                 \cup (IF v <= 4 THEN {"bsn_global_vrf_allowed"} ELSE {})
                 \cup (IF v >= 4 THEN {"mpls_bos"} ELSE {}) \cup (IF v >= 5 THEN {"pbb_uca"} ELSE {}),
     uint16_t |-> {"tcp_src", "tcp_dst", "udp_src", "udp_dst", "sctp_src", "sctp_dst", "eth_type",
                   "vlan_vid", "arp_op", "ovs_tcp_flags", "bsn_tcp_flags", "conn_tracking_zone",
                   "conn_tracking_tp_src", "conn_tracking_tp_dst"}
                  \cup (IF v >= 4 THEN {"ipv6_exthdr", "bsn_inner_vlan_vid", "bsn_vfi"} ELSE {}),
     uint32_t |-> {"arp_spa", "arp_tpa", "ipv6_flabel", "mpls_label", "bsn_lag_id", "bsn_vrf",
                   "bsn_l3_interface_class_id", "bsn_l3_src_class_id", "bsn_egr_port_group_id",
                   "bsn_ingress_port_group_id", "bsn_vlan_xlate_port_group_id", "bsn_udf0",
                   "bsn_udf1", "bsn_udf2", "bsn_udf3", "bsn_udf4", "bsn_udf5", "bsn_udf6", "bsn_udf7",
                   "conn_tracking_state", "conn_tracking_mark", "conn_tracking_nw_src", "conn_tracking_nw_dst"}
                  \cup (IF v <= 4 THEN {"bsn_l3_dst_class_id"} ELSE {})
                  \cup (IF v >= 4 THEN {"bsn_vxlan_network_id"} ELSE {})
                  \cup (IF v >= 5 THEN {"bsn_ifp_class_id"} ELSE {}),
     uint64_t |-> {"metadata"}, uint128_t |-> {"conn_tracking_label"},
     of_bitmap_128_t |-> {"bsn_in_ports_128"}, of_bitmap_512_t |-> {"bsn_in_ports_512"},
     of_mac_addr_t |-> IF v >= 4 THEN {"bsn_inner_eth_dst", "bsn_inner_eth_src"} ELSE {},
     of_ipv6_t |-> {"conn_tracking_ipv6_src", "conn_tracking_ipv6_dst"}]

MemberValues(v) ==
    [uint8_t |-> (IF v = 1 THEN {<<"of_match_v1", "vlan_pcp">>, <<"of_match_v1", "ip_dscp">>, <<"of_match_v1", "ip_proto">>,
                                 <<"of_bsn_set_l2_table_request", "l2_table_enable">>,
                                 <<"of_bsn_set_l2_table_reply", "l2_table_enable">>} ELSE {})
                 \cup (IF v <= 2 THEN {<<"of_action_set_vlan_pcp", "vlan_pcp">>} ELSE {})
                 \cup (IF v = 2 THEN {<<"of_action_set_nw_ecn", "nw_ecn">>} ELSE {})
                 \cup (IF v >= 4 THEN {<<"of_bsn_controller_connection", "auxiliary_id">>,
                                        <<"of_features_reply", "auxiliary_id">>,
                                        <<"of_bsn_table_set_buckets_size", "table_id">>} ELSE {})
                 \cup (IF v >= 2 THEN {<<"of_flow_add", "table_id">>} ELSE {})
                 \cup {<<"of_bsn_set_pktin_suppression_request", "enabled">>},
     uint16_t |-> (IF v = 1 THEN {<<"of_match_v1", "vlan_vid">>, <<"of_match_v1", "eth_type">>,
                                  <<"of_match_v1", "tcp_src">>, <<"of_match_v1", "tcp_dst">>} ELSE {})
                  \cup (IF v <= 2 THEN {<<"of_action_set_tp_dst", "tp_port">>, <<"of_action_set_tp_src", "tp_port">>,
                                         <<"of_action_set_vlan_vid", "vlan_vid">>} ELSE {})
                  \cup (IF v >= 2 THEN {<<"of_action_push_mpls", "ethertype">>, <<"of_action_push_vlan", "ethertype">>,
                                         <<"of_action_pop_mpls", "ethertype">>} ELSE {})
                  \cup (IF v >= 4 THEN {<<"of_action_push_pbb", "ethertype">>, <<"of_bsn_tlv_vlan_vid", "value">>,
                                         <<"of_bsn_gentable_entry_add", "table_id">>} ELSE {}),
     uint32_t |-> (IF v <= 2 THEN {<<"of_action_set_nw_dst", "nw_addr">>, <<"of_action_set_nw_src", "nw_addr">>} ELSE {})
                  \cup (IF v >= 2 THEN {<<"of_flow_stats_request", "out_group">>, <<"of_bucket", "watch_group">>,
                                         <<"of_aggregate_stats_request", "out_group">>,
                                         <<"of_flow_add", "out_group">>, <<"of_group_add", "group_id">>,
                                         <<"of_action_bsn_mirror", "dest_port">>} ELSE {})
                  \cup (IF v >= 5 THEN {<<"of_bundle_add_msg", "bundle_id">>} ELSE {})
                  \cup {<<"of_packet_out", "buffer_id">>},
     uint64_t |-> {<<"of_features_reply", "datapath_id">>},
     of_port_no_t |-> IF v = 1 THEN {<<"of_match_v1", "in_port">>} ELSE {}]

\* An OXM with such a value, and the masked one.
ValueOxms(name, t) ==
    LET n == MCBaseTypes[t]
    IN  <<Virtual(OxmRoot, NoClass, <<Disc("type_len", "uint32_t", 0, 4)>>, 4),
          OxmClass(Oxm(name), 512 + n, 4 + n, <<Data("value", t, 4, n)>>),
          OxmClass(Oxm(name) \o "_masked", 768 + 2 * n, 4 + 2 * n,
                   <<Data("value", t, 4, n), Data("value_mask", t, 4 + n, n)>>)>>
HasOxm(name, t, v) == v >= 3 /\ t \in DOMAIN OxmValues(v) /\ name \in OxmValues(v)[t]
OxmProtocols ==
    {[v \in 1..5 |-> Version(IF HasOxm(name, t, v) THEN ValueOxms(name, t) ELSE <<>>, <<>>)] :
        <<name, t>> \in UNION {{<<n, u>> : n \in UNION {OxmValues(v)[u] : v \in 3..5}} : u \in DOMAIN OxmValues(3)}}

\* A class with such a member.
MemberClass(p, t, v) ==
    LET n == IF t = "of_port_no_t" THEN 2 ELSE MCBaseTypes[t]
    IN  Fixed(p[1], NoClass, <<Data(p[2], t, 0, n), Data("z", "uint8_t", n, 1)>>, n + 1)
MemberProtocols ==
    {[v \in 1..5 |-> Version(IF p \in MemberValues(v)[t] THEN <<MemberClass(p, t, v)>> ELSE <<>>, <<>>)] :
        <<p, t>> \in UNION {{<<q, u>> : q \in UNION {MemberValues(v)[u] : v \in 1..5}} : u \in DOMAIN MemberValues(1)}}

\* A struct that grows, and a class that has one behind a member or not.
StructVersion(before, n) ==
    Version(<<Fixed("s", NoClass, <<Data("x", "uint16_t", 0, 2)>>, n),
              Fixed("m", NoClass, <<Data("a", "uint16_t", before, 2), Data("s", "s", before + 2, n),
                                    Data("z", "uint8_t", before + 2 + n, 1)>>, before + 3 + n)>>, <<>>)
StructProtocols ==
    {<<StructVersion(p, n), StructVersion(q, m), StructVersion(p, n)>> : p, q \in {0, 2}, n, m \in {2, 4}}
\* A list, and a member behind it, whose offset a macro gets or not.
ListVersion(name, members) ==
    Version(<<Varying(name, NoClass, members \o <<Data("list", "of_octets_t", 2, 0),
                                                  Data("tail", "uint16_t", Variable, 2)>>, 4)>>, <<>>)
ListProtocols ==
    {<<ListVersion(name, <<Data("a", "uint16_t", 0, 2)>>), ListVersion(name, <<Data("b", "uint16_t", 0, 2)>>)>> :
        name \in {"l", "n"}}
    \cup {<<ListVersion("l", <<Data("a", "uint16_t", 0, 2)>>),
            Version(<<Varying("l", NoClass, <<Data("list", "of_octets_t", 0, 0), Data("a", "uint16_t", Variable, 2),
                                              Data("tail", "uint16_t", Variable, 2)>>, 4)>>, <<>>)>>}
-----------------------------------------------------------------------------
(* Interfaces: p may have members in some versions only, or of another      *)
(* kind or type, and c, which may be missing, extends it.                   *)

JavaMembers ==
    {<<>>, <<Data("xid", "uint32_t", 4, 4)>>, <<Data("group_id", "uint32_t", 4, 4)>>,
     <<Data("group_id", "uint32_t", 4, 4), Data("xid", "uint32_t", 8, 4)>>,
     <<Data("version", "uint8_t", 4, 1)>>,
     <<Member("xid", "length", "uint16_t", 4, 2, NoValue)>>, <<Type("xid", "uint32_t", 4, 4, 1)>>}
JavaVersion(ms, ns, child) ==
    Version(<<Fixed("p", NoClass, ms, 12)>> \o (IF child THEN <<Fixed("c", "p", ns, 12)>> ELSE <<>>), <<>>)
JavaProtocols ==
    {<<JavaVersion(ms, ms, TRUE), JavaVersion(ns, ns, a), JavaVersion(ls, ns, b)>> :
        ms, ns, ls \in JavaMembers, a, b \in BOOLEAN}
MCReadBlacklist == {<<"c", "xid">>}
MCWriteBlacklist == {<<"p", "group">>}
-----------------------------------------------------------------------------
MCExchanged ==
    HierarchyProtocols \cup MessageProtocols \cup TypeProtocols \cup StructProtocols \cup OxmProtocols
    \cup MemberProtocols
MCLaidOut == MCExchanged \cup WiredProtocols \cup {LengthProtocol}
MCKnownMacros == {<<"l", "tail">>}

\* A type of the input files that the C generator has no length for.
UriProtocol == <<Version(<<Fixed("m", NoClass, <<Data("f", "of_controller_uri_t", 0, 32)>>, 32)>>, <<>>)>>

MCProtocols ==
    MCLaidOut \cup JavaProtocols \cup ClassProtocols \cup EnumProtocols \cup ListProtocols \cup {UriProtocol}

\* Zeros, ones, the highest bit and a value whose octets all differ.
Patterns(n) ==
    <<Zeros(n), [i \in 1..n |-> 255], [i \in 1..n |-> IF i = 1 THEN 128 ELSE 0], [i \in 1..n |-> i]>>

\* Strings of no letters, of two and of as many as fit.
Strings(n) == <<Zeros(n), [i \in 1..n |-> IF i <= 2 THEN 64 + i ELSE 0], [i \in 1..n |-> 65]>>

\* Ports of 1.0: a port, the highest, one that is none, and reserved ones.
ShortPorts == <<<<0, 1>>, <<254, 255>>, <<255, 0>>, <<255, 1>>, <<255, 248>>, <<255, 255>>>>

MCSamples(t, v) ==
    CASE t = "of_port_no_t" /\ v = 1 -> ShortPorts
      [] t \in DOMAIN FixedStrings -> Strings(IrLength[t])
      [] t \in DOMAIN MCMixedTypes /\ ~(t = "of_port_no_t" /\ v = 1) -> Patterns(MCBaseTypes[MCMixedTypes[t][v]])
      [] t \in DOMAIN MCBaseTypes \ DOMAIN FixedStrings -> Patterns(MCBaseTypes[t])
=============================================================================
