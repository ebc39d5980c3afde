------------------------------ MODULE FlowMatch ------------------------------
(***************************************************************************)
(* Matches on packets: the generic match structure of the C library, which *)
(* has a value and a mask for every key of any version, and the fixed      *)
(* match structure of OpenFlow 1.0, which both ends of a connection read   *)
(* and write.                                                              *)
(*                                                                         *)
(* A value or a mask is the set of its bits that are one.  The keys stand  *)
(* for the ones that are treated alike: ipv4_src for both addresses,       *)
(* tcp_src for both ports, and so on.                                      *)
(***************************************************************************)
EXTENDS Integers, FiniteSets, Sequences, SequencesExt

W == 2
AllOnes == 0..W - 1
Values == SUBSET AllOnes
None == {}

\* Values of eth_type and ip_proto; TCP stands for UDP and ICMP as well.
IPv4 == {0}
ARP == {1}
TCP == {0}
SCTP == {1}

\* The keys a fixed match has: of_v1_keys; version 1.1 adds two.
V1Keys == {"eth_src", "eth_type", "ip_proto", "ip_dscp", "ipv4_src", "tcp_src", "vlan_vid", "vlan_pcp"}
V2Keys == V1Keys \cup {"mpls_tc", "metadata"}
Keys == V2Keys \cup {"ipv6_src"}

\* Keys with a wildcard bit in a match of version 1.0, and the keys that
\* have a full mask in version 1.1.
V1Bits == V1Keys \ {"ipv4_src"}
V2FullMask == {"eth_src", "ipv4_src", "metadata"}

\* of_match_t
Matching == [fields : [Keys -> Values], masks : [Keys -> Values]]
Anything == [fields |-> [k \in Keys |-> None], masks |-> [k \in Keys |-> None]]
Active(m) == {k \in Keys : m.masks[k] # {}}
Exactly(m, k) == m.masks[k] = AllOnes

\* The packets a match selects, of which only what keys say is looked at.
Packets(keys) == [keys -> Values]
Selects(m, packet) ==
    \A k \in DOMAIN packet : packet[k] \cap m.masks[k] = m.fields[k] \cap m.masks[k]

\* Both say the same, whatever is in the bits no mask covers.
Same(m, n) ==
    /\ m.masks = n.masks
    /\ \A k \in Keys : m.fields[k] \cap m.masks[k] = n.fields[k] \cap n.masks[k]

\* The wildcards word of version 1.0: one bit for every key but the address,
\* which has the number of bits that are ignored; W and more are all of them.
AllNw == 2 * W - 1
Wildcards == [bits : SUBSET V1Bits, nw : 0..AllNw]
OFPFW_ALL == [bits |-> V1Bits, nw |-> AllNw]

\* A match of version 1.0 on the wire.
V1Match == [wc : Wildcards, f : [V1Keys -> Values]]
=============================================================================
