------------------------------ MODULE JavaTypes -----------------------------
(***************************************************************************)
(* The Java types of members (java_type.py): which type a member of a      *)
(* class has, the octets that its operations read and write in a version,  *)
(* and what the value is in Java.  Types that differ in their default only *)
(* are one.  The types of lists, of octets, of structs and of enums are    *)
(* not here.  A Java integer is a sequence of octets in two's complement.  *)
(***************************************************************************)
EXTENDS WireTypes

\* The octets that an operation moves, for the types with the same ones in
\* every version.
NumberTypes ==
    [u8 |-> 1, u16 |-> 2, u32 |-> 4, u8obj |-> 1, u16obj |-> 2, u32obj |-> 4, u64 |-> 8, u128 |-> 16]

FieldTypes ==
    [mac_addr |-> 6, vxlan_ni |-> 4, vfi |-> 2, ipv4 |-> 4, ipv6 |-> 16, transport_port |-> 2,
     eth_type |-> 2, vlan_vid |-> 2, vlan_vid_match |-> 2, vlan_pcp |-> 1, ip_dscp |-> 1,
     ip_ecn |-> 1, ip_proto |-> 1, icmpv4_type |-> 1, icmpv4_code |-> 1, arp_op |-> 2,
     ipv6_flabel |-> 4, packet_type |-> 6, metadata |-> 8]

IdTypes ==
    [flow_wildcards |-> 4, table_stats_wildcards |-> 4, port_bitmap_128 |-> 16, port_bitmap_512 |-> 64,
     table_id |-> 1, of_aux_id |-> 1, of_version |-> 1, buffer_id |-> 4, boolean |-> 1,
     datapath_id |-> 8, of_group |-> 4, lag_id |-> 4, vrf |-> 4, class_id |-> 4,
     boolean_value |-> 1, gen_table_id |-> 2, bundle_id |-> 4, udf |-> 4]

StringTypes == [port_name |-> 16, desc_str |-> 256, serial_num |-> 32, table_name |-> 32, str64 |-> 64]

OneWidth == NumberTypes @@ FieldTypes @@ IdTypes @@ StringTypes

\* ... and by version, for the types with an operation of a version's own.
AnyVersion == 0
JavaOps ==
    [j \in DOMAIN OneWidth |-> AnyVersion :> OneWidth[j]]
    @@ [of_port |-> AnyVersion :> 4 @@ 1 :> 2, flow_mod_cmd |-> AnyVersion :> 1 @@ 1 :> 2]

\* What is called for a type without operations throws, if there is such a thing.
JavaLacks(j) == j \notin DOMAIN JavaOps

\* get_op()
JavaWidth(j, v) == JavaOps[j][IF v \in DOMAIN JavaOps[j] THEN v ELSE AnyVersion]
-----------------------------------------------------------------------------
(* convert_to_jtype().                                                      *)

\* default_mtype_to_jtype_convert_map
DefaultTypes ==
    [uint8_t |-> "u8", uint16_t |-> "u16", uint32_t |-> "u32", uint64_t |-> "u64", uint128_t |-> "u128",
     of_port_no_t |-> "of_port", of_fm_cmd_t |-> "flow_mod_cmd", of_mac_addr_t |-> "mac_addr",
     of_desc_str_t |-> "desc_str", of_serial_num_t |-> "serial_num", of_port_name_t |-> "port_name",
     of_table_name_t |-> "table_name", of_str64_t |-> "str64", of_ipv4_t |-> "ipv4",
     of_ipv6_t |-> "ipv6", of_wc_bmap_t |-> "flow_wildcards", of_bitmap_128_t |-> "port_bitmap_128",
     of_bitmap_512_t |-> "port_bitmap_512", of_checksum_128_t |-> "u128"]

\* The types of the values and the masks of OXMs, by the names of the OXMs
\* without of_oxm_.
FieldOxms ==
    [transport_port |-> {"tcp_src", "tcp_dst", "udp_src", "udp_dst", "sctp_src", "sctp_dst"},
     eth_type |-> {"eth_type"}, vlan_vid_match |-> {"vlan_vid"}, vlan_pcp |-> {"vlan_pcp"},
     ip_dscp |-> {"ip_dscp"}, ip_ecn |-> {"ip_ecn"}, ip_proto |-> {"ip_proto"},
     icmpv4_type |-> {"icmpv4_type"}, icmpv4_code |-> {"icmpv4_code"}, arp_op |-> {"arp_op"},
     ipv4 |-> {"arp_spa", "arp_tpa"}, ipv6_flabel |-> {"ipv6_flabel"}, metadata |-> {"metadata"},
     u8obj |-> {"icmpv6_code", "icmpv6_type", "mpls_tc"}, u32obj |-> {"mpls_label"},
     boolean_value |-> {"mpls_bos", "pbb_uca"}, u16obj |-> {"ipv6_exthdr", "tcp_flags", "ovs_tcp_flags"},
     of_port |-> {"actset_output"}, packet_type |-> {"packet_type"}]

BsnOxms ==
    [port_bitmap_128 |-> {"bsn_in_ports_128"}, port_bitmap_512 |-> {"bsn_in_ports_512"},
     lag_id |-> {"bsn_lag_id"}, vrf |-> {"bsn_vrf"}, vxlan_ni |-> {"bsn_vxlan_network_id"},
     boolean_value |-> {"bsn_global_vrf_allowed", "bsn_l2_cache_hit", "bsn_ip_fragmentation"},
     class_id |-> {"bsn_l3_interface_class_id", "bsn_l3_src_class_id", "bsn_l3_dst_class_id",
                   "bsn_egr_port_group_id", "bsn_ingress_port_group_id",
                   "bsn_vlan_xlate_port_group_id", "bsn_ifp_class_id"},
     udf |-> {"bsn_udf0", "bsn_udf1", "bsn_udf2", "bsn_udf3", "bsn_udf4", "bsn_udf5", "bsn_udf6", "bsn_udf7"},
     u16obj |-> {"bsn_tcp_flags"}, mac_addr |-> {"bsn_inner_eth_dst", "bsn_inner_eth_src"},
     vlan_vid_match |-> {"bsn_inner_vlan_vid"}, vfi |-> {"bsn_vfi"}]

TrackingOxms ==
    [u8obj |-> {"conn_tracking_nw_proto"}, u16obj |-> {"conn_tracking_zone"},
     u32obj |-> {"conn_tracking_state", "conn_tracking_mark", "conn_tracking_nw_src", "conn_tracking_nw_dst"},
     u128 |-> {"conn_tracking_label"}, ipv6 |-> {"conn_tracking_ipv6_src", "conn_tracking_ipv6_dst"},
     transport_port |-> {"conn_tracking_tp_src", "conn_tracking_tp_dst"}]

Oxm(name) == "of_oxm_" \o name
OxmMembers(name) ==
    {<<Oxm(name), "value">>, <<Oxm(name) \o "_masked", "value">>, <<Oxm(name) \o "_masked", "value_mask">>}
OxmExceptions(oxms) ==
    [p \in UNION {UNION {OxmMembers(name) : name \in oxms[j]} : j \in DOMAIN oxms} |->
        CHOOSE j \in DOMAIN oxms : \E name \in oxms[j] : p \in OxmMembers(name)]

OtherExceptions ==
    LET of(j, ps) == [p \in ps |-> j]
    IN  of("u64", {<<c, "value">> : c \in {"of_oxs_byte_count", "of_oxs_duration", "of_oxs_idle_time",
                                           "of_oxs_packet_count"}})
        @@ of("u32obj", {<<"of_oxs_flow_count", "value">>})
        @@ of("table_stats_wildcards", {<<"of_table_stats_entry", "wildcards">>})
        @@ of("vlan_vid_match", {<<"of_match_v1", "vlan_vid">>})
        @@ of("vlan_pcp", {<<"of_match_v1", "vlan_pcp">>, <<"of_action_set_vlan_pcp", "vlan_pcp">>})
        @@ of("ip_dscp", {<<"of_match_v1", "ip_dscp">>})
        @@ of("ip_proto", {<<"of_match_v1", "ip_proto">>})
        @@ of("transport_port", {<<"of_match_v1", "tcp_src">>, <<"of_match_v1", "tcp_dst">>,
                                 <<"of_action_set_tp_dst", "tp_port">>, <<"of_action_set_tp_src", "tp_port">>})
        @@ of("of_port", {<<"of_match_v1", "in_port">>, <<"of_action_bsn_mirror", "dest_port">>})
        @@ of("boolean", {<<"of_bsn_set_l2_table_request", "l2_table_enable">>,
                          <<"of_bsn_set_l2_table_reply", "l2_table_enable">>,
                          <<"of_bsn_set_pktin_suppression_request", "enabled">>})
        @@ of("of_aux_id", {<<"of_bsn_controller_connection", "auxiliary_id">>,
                            <<"of_features_reply", "auxiliary_id">>})
        @@ of("of_group", {<<"of_flow_stats_request", "out_group">>, <<"of_bucket", "watch_group">>,
                           <<"of_aggregate_stats_request", "out_group">>,
                           <<"of_flow_lightweight_stats_request", "out_group">>})
        @@ of("eth_type", {<<c, "ethertype">> : c \in {"of_action_push_mpls", "of_action_push_pbb",
                                                       "of_action_push_vlan", "of_action_pop_mpls"}}
                          \cup {<<"of_match_v1", "eth_type">>})
        @@ of("ipv4", {<<"of_action_set_nw_dst", "nw_addr">>, <<"of_action_set_nw_src", "nw_addr">>})
        @@ of("ip_ecn", {<<"of_action_set_nw_ecn", "nw_ecn">>})
        @@ of("vlan_vid", {<<"of_action_set_vlan_vid", "vlan_vid">>, <<"of_bsn_tlv_vlan_vid", "value">>})
        @@ of("table_id", {<<"of_bsn_table_set_buckets_size", "table_id">>})
        @@ of("gen_table_id", {<<"of_bsn_gentable_entry_add", "table_id">>})

Exceptions == OxmExceptions(FieldOxms) @@ OxmExceptions(BsnOxms) @@ OxmExceptions(TrackingOxms) @@ OtherExceptions

StartsWith(name, prefix) == Len(name) >= Len(prefix) /\ SubSeq(name, 1, Len(prefix)) = prefix

FlowMods ==
    {"of_flow_mod", "of_flow_add", "of_flow_modify", "of_flow_modify_strict", "of_flow_delete",
     "of_flow_delete_strict"}

\* The exceptions come first, then the names of members, then the type.
JavaTypeOf(class, member, type) ==
    IF <<class, member>> \in DOMAIN Exceptions THEN Exceptions[<<class, member>>]
    ELSE CASE member = "table_id" /\ type = "uint8_t" -> "table_id"
           [] member = "version" /\ type = "uint8_t" -> "of_version"
           [] member = "buffer_id" /\ type = "uint32_t" -> "buffer_id"
           [] member = "group_id" /\ type = "uint32_t" -> "of_group"
           [] member = "out_group" /\ type = "uint32_t" /\ class \in FlowMods -> "of_group"
           [] member = "datapath_id" -> "datapath_id"
           [] member = "table_id" /\ type # "uint8_t" /\ StartsWith(class, "of_bsn_gentable") -> "gen_table_id"
           [] member = "bundle_id" /\ StartsWith(class, "of_bundle_") -> "bundle_id"
           [] OTHER -> IF type \in DOMAIN DefaultTypes THEN DefaultTypes[type] ELSE type

\* The public type of a Java type.
PublicType(j) ==
    CASE j \in {"u8"} -> "short"
      [] j \in {"u16", "flow_wildcards", "table_stats_wildcards"} -> "int"
      [] j \in {"u32"} -> "long"
      [] j \in DOMAIN StringTypes -> "String"
      [] OTHER -> j
-----------------------------------------------------------------------------
(* The values.                                                              *)

\* A signed number in eight octets.
SignExtend(s) == [i \in 1..8 - Len(s) |-> IF s[1] >= 128 THEN 255 ELSE 0] \o s

\* U8.f(), U16.f(), U32.f(): the signed number that was read, made unsigned.
Unsigned(s) == ZeroExtend(Low(SignExtend(s), Len(s)), 8)

\* OFPort.ofShort(): the reserved ports of 1.0 become those of 32 bits, and
\* the other numbers above the highest port are refused.
ReservedPort(s) == s[1] = 255 /\ (s[2] >= 248 \/ s[2] = 0)
PortOfShort(s) == IF ReservedPort(s) THEN <<255, 255>> \o s ELSE <<0, 0>> \o s

\* OFGroup.of(): above the highest group there are two reserved ones.
NoGroup(s) == SubSeq(s, 1, 3) = <<255, 255, 255>> /\ s[4] \notin {0, 252, 255}

\* OFVlanVidMatch: an untagged packet is <<255, 255>> in 1.0, and is taken
\* for that in later versions too, where it is zero.  A tag of 1.0 gets the
\* bit that says there is one.
Untagged == <<>>
OF10(v) == v <= 2
VlanOf(v, s) ==
    CASE s = <<255, 255>> -> Untagged
      [] s = <<0, 0>> /\ OF10(v) -> s
      [] s = <<0, 0>> /\ ~OF10(v) -> Untagged
      [] OTHER -> IF OF10(v) THEN <<s[1] + 16, s[2]>> ELSE s
VlanTo(v, x) ==
    IF x = Untagged THEN IF OF10(v) THEN <<255, 255>> ELSE <<0, 0>>
    ELSE IF OF10(v) THEN <<x[1] % 16, x[2]>> ELSE x

\* The values that are out of a type's range: reading them throws.
JavaRefuses(j, v, s) ==
    CASE j = "of_port" -> v = 1 /\ s[1] = 255 /\ ~ReservedPort(s)
      [] j = "of_group" -> NoGroup(s)
      [] j = "vxlan_ni" -> s[1] # 0
      [] j = "vlan_vid" -> s # <<255, 255>> /\ s[1] >= 16
      [] j = "vlan_vid_match" -> s # <<255, 255>> /\ s[1] >= IF OF10(v) THEN 16 ELSE 32
      [] j = "vlan_pcp" -> s[1] > 7
      [] j = "ip_dscp" -> s[1] > 63
      [] j = "ip_ecn" -> s[1] > 3
      [] j = "ip_proto" -> s[1] = 255
      [] OTHER -> FALSE

UpToNul(s) == SelectInSeq(s \o <<0>>, LAMBDA o : o = 0) - 1
Booleans == {"boolean", "boolean_value"}
LongTypes == {"u128", "ipv6", "port_bitmap_128", "port_bitmap_512"}

JavaGet(j, v, s) ==
    CASE j \in {"u8", "u16", "u32"} -> Unsigned(s)
      [] j = "of_port" -> IF v = 1 THEN PortOfShort(s) ELSE s
      [] j = "vlan_vid_match" -> VlanOf(v, s)
      [] j \in Booleans -> s # <<0>>
      [] j \in DOMAIN StringTypes -> SubSeq(s, 1, UpToNul(s))
      [] j \in LongTypes -> Words(s)
      [] j = "mac_addr" -> ZeroExtend(s, 8)
      [] OTHER -> SignExtend(s)

\* The casts, and write2Bytes() of a port, keep the lower octets; a MAC
\* address is written as an int and a short.
JavaSet(j, v, x) ==
    CASE j = "vlan_vid_match" -> VlanTo(v, x)
      [] j \in Booleans -> IF x THEN <<1>> ELSE <<0>>
      [] j \in DOMAIN StringTypes -> x \o Zeros(StringTypes[j] - Len(x))
      [] j \in LongTypes -> FlattenSeq(x)
      [] j = "mac_addr" -> Low(SubSeq(x, 1, 6), 4) \o Low(x, 2)
      [] OTHER -> Low(x, JavaWidth(j, v))

\* What an octet or two say in any language: Java keeps of a boolean only
\* whether it is zero, and has one value for untagged.
Meaning(j, v, s) ==
    CASE j \in Booleans -> IF s = <<0>> THEN <<0>> ELSE <<1>>
      [] j = "vlan_vid_match" -> IF s = <<255, 255>> /\ ~OF10(v) THEN <<0, 0>> ELSE s
      [] OTHER -> s
=============================================================================
