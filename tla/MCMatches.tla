------------------------------ MODULE MCMatches ------------------------------
(***************************************************************************)
(* Model values for Matches.                                               *)
(***************************************************************************)
EXTENDS Matches

Other == {0, 1}

MCExact == [k \in Keys |->
    CASE k = "eth_type" -> {IPv4, ARP, Other}
      [] k = "ip_proto" -> {TCP, SCTP}
      [] k = "ipv4_src" -> {{0}, {1}}
      [] OTHER -> {{0}}]
MCMasks == [k \in Keys |->
    CASE k = "ipv4_src" -> Values
      [] k = "eth_src" -> {{}, {1}, AllOnes}
      [] OTHER -> {{}, AllOnes}]

\* The port of a host.
MCKnown ==
    {[wc |-> [bits |-> {"eth_src", "vlan_pcp"}, nw |-> 1],
      f |-> [Default.f EXCEPT !["eth_type"] = IPv4, !["ip_proto"] = TCP, !["ipv4_src"] = {1},
                              !["tcp_src"] = {0}, !["vlan_vid"] = {0}]]}

\* Every combination of the members the types decide about.
MCForeign ==
    {[wc |-> [bits |-> bits, nw |-> nw],
      f |-> [k \in V1Keys |-> CASE k = "eth_type" -> type
                                [] k = "ip_proto" -> proto
                                [] k = "ipv4_src" -> Other
                                [] OTHER -> {0}]] :
        bits \in SUBSET (V1Bits \ {"eth_src"}), nw \in 0..AllNw,
        type \in {None, IPv4, ARP, Other}, proto \in {None, TCP, SCTP}}
=============================================================================
