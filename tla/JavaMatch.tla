------------------------------ MODULE JavaMatch ------------------------------
(***************************************************************************)
(* The Java match of OpenFlow 1.0: its builder, what a build and a reader  *)
(* normalize, and the getters, which look at the prerequisites of a field. *)
(* Several fields share a member: ARP uses those of the IP protocol, and   *)
(* every transport protocol those of TCP.                                  *)
(***************************************************************************)
EXTENDS FlowMatch

\* MatchField -> the member of the structure it is kept in
KeyOf == [ETH_SRC |-> "eth_src", ETH_TYPE |-> "eth_type",
          VLAN_VID |-> "vlan_vid", VLAN_PCP |-> "vlan_pcp",
          IP_DSCP |-> "ip_dscp",
          IP_PROTO |-> "ip_proto", ARP_OP |-> "ip_proto",
          IPV4_SRC |-> "ipv4_src", ARP_SPA |-> "ipv4_src",
          TCP_SRC |-> "tcp_src", SCTP_SRC |-> "tcp_src"]
MatchFields == DOMAIN KeyOf
Maskable == {"IPV4_SRC", "ARP_SPA"}

\* Another field that must be exact, with one of values.
Prerequisite(field, values) == [field |-> field, values |-> values]
Prerequisites(field) ==
    CASE field = "VLAN_PCP" -> {Prerequisite("VLAN_VID", Values)}
      [] field \in {"IP_DSCP", "IP_PROTO", "IPV4_SRC"} -> {Prerequisite("ETH_TYPE", {IPv4})}
      [] field \in {"ARP_OP", "ARP_SPA"} -> {Prerequisite("ETH_TYPE", {ARP})}
      [] field = "TCP_SRC" -> {Prerequisite("IP_PROTO", {TCP})}
      [] field = "SCTP_SRC" -> {Prerequisite("IP_PROTO", {SCTP})}
      [] OTHER -> {}

\* The address mask from the wildcards: getIpv4SrcCidrMaskLen() high bits.
CidrMask(wc) == {bit \in AllOnes : bit >= wc.nw}

\* A bit of the wildcards, or no bit of the address left.
Wild(wc, key) == IF key = "ipv4_src" THEN CidrMask(wc) = {} ELSE key \in wc.bits

\* A faulty variant: the value of a wildcarded field will do.
PrerequisitesByValue(m, field) ==
    LET ok[g \in MatchFields] ==
            \A p \in Prerequisites(g) : ok[p.field] /\ m.f[KeyOf[p.field]] \in p.values
    IN  ok[field]

arePrerequisitesOK(m, field) ==
    LET ok[g \in MatchFields] ==
            \A p \in Prerequisites(g) :
                /\ ok[p.field]
                /\ ~Wild(m.wc, KeyOf[p.field])
                /\ m.f[KeyOf[p.field]] \in p.values
    IN  ok[field]

isFullyWildcarded(m, field) == ~arePrerequisitesOK(m, field) \/ Wild(m.wc, KeyOf[field])

\* getMasked() if it is partially masked, get() otherwise.
Got(m, field) ==
    LET mask == IF field \in Maskable THEN CidrMask(m.wc) ELSE AllOnes
    IN  [value |-> m.f[KeyOf[field]] \cap mask, mask |-> mask]

\* getMatchFields(): the field that a member stands for, or an
\* UnsupportedOperationException.
FieldOf(m, key) ==
    LET type == m.f["eth_type"]
        proto == m.f["ip_proto"]
    IN  CASE key = "ip_proto" -> IF type = ARP THEN "ARP_OP" ELSE IF type = IPv4 THEN "IP_PROTO" ELSE "throws"
          [] key = "ipv4_src" -> IF type = ARP THEN "ARP_SPA" ELSE IF type = IPv4 THEN "IPV4_SRC" ELSE "throws"
          [] key = "tcp_src" -> IF proto = TCP THEN "TCP_SRC" ELSE IF proto = SCTP THEN "SCTP_SRC" ELSE "throws"
          [] OTHER -> CHOOSE field \in MatchFields : KeyOf[field] = key

Listed(m) == {FieldOf(m, key) : key \in {k \in V1Keys : ~Wild(m.wc, k)}}

\* Members that cannot be looked at, by the values of eth_type and ip_proto.
Ignored(f) ==
    (IF f["eth_type"] \in {IPv4, ARP} THEN {} ELSE {"ip_proto", "ipv4_src"})
    \cup (IF f["eth_type"] = IPv4 THEN {} ELSE {"ip_dscp"})
    \cup (IF f["eth_type"] = IPv4 /\ f["ip_proto"] = TCP THEN {} ELSE {"tcp_src"})

\* The stanza of the builders' build() and of the reader.
Normalize(m) ==
    LET ignored == Ignored(m.f)
    IN  [wc |-> [bits |-> m.wc.bits \cup (ignored \cap V1Bits),
                 nw |-> IF "ipv4_src" \in ignored \/ m.wc.nw >= W THEN AllNw ELSE m.wc.nw],
         f |-> [k \in V1Keys |-> IF k \in ignored THEN None ELSE m.f[k]]]

\* Reader.readFrom()
JavaRead(w) == Normalize(w)
-----------------------------------------------------------------------------
\* A builder has the values that were set, and starts from a match: its
\* parent, or the defaults, which ignore everything.
Default == [wc |-> OFPFW_ALL, f |-> [k \in V1Keys |-> None]]
NewBuilder(parent) ==
    [parent |-> parent, set |-> {}, f |-> [k \in V1Keys |-> None],
     wildcardsSet |-> FALSE, wildcards |-> [bits |-> {}, nw |-> 0]]

\* A faulty variant: a builder with a parent starts from no wildcards.
NoWildcards(b) == b.wildcards

\* initWildcards()
InitWildcards(b) == IF b.wildcardsSet THEN b.wildcards ELSE b.parent.wc

\* The setter of the member and the wildcards.
Assign(b, key, value, wildcards) ==
    [b EXCEPT !.set = @ \cup {key}, !.f[key] = value,
              !.wildcardsSet = TRUE, !.wildcards = wildcards]

setExact(b, field, value) ==
    LET wc == InitWildcards(b)
    IN  Assign(b, KeyOf[field], value,
               IF field \in Maskable THEN [wc EXCEPT !.nw = 0]
               ELSE [wc EXCEPT !.bits = @ \ {KeyOf[field]}])

\* The masks setMasked() takes: bitCount(~mask + 1) is one, which no mask at
\* all fails too.
Contiguous(mask) == \E n \in 1..W : mask = {bit \in AllOnes : bit >= W - n}

\* The fields with a case in wildcard(): ARP_OP has none.
Wildcardable == MatchFields \ {"ARP_OP"}

\* An UnsupportedOperationException: initWildcards() has run by then.
Thrown(b) == [b EXCEPT !.wildcardsSet = TRUE, !.wildcards = InitWildcards(b)]

setMasked(b, field, value, mask) ==
    IF field \in Maskable /\ Contiguous(mask)
    THEN Assign(b, KeyOf[field], value, [InitWildcards(b) EXCEPT !.nw = W - Cardinality(mask)])
    ELSE Thrown(b)

wildcard(b, field) ==
    LET wc == InitWildcards(b)
    IN  IF field \notin Wildcardable THEN Thrown(b)
        ELSE Assign(b, KeyOf[field], None,
                    IF field \in Maskable THEN [wc EXCEPT !.nw = AllNw]
                    ELSE [wc EXCEPT !.bits = @ \cup {KeyOf[field]}])

build(b) ==
    Normalize([wc |-> InitWildcards(b),
               f |-> [k \in V1Keys |-> IF k \in b.set THEN b.f[k] ELSE b.parent.f[k]]])
=============================================================================
