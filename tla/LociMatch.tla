------------------------------ MODULE LociMatch ------------------------------
(***************************************************************************)
(* The generated C functions on matches: to the wire format of each        *)
(* version, back, and the comparisons a flow table needs.                  *)
(***************************************************************************)
EXTENDS FlowMatch

\* The compatibility checks: OF_ERROR_COMPAT if they fail.  Version 1.1
\* refuses a key without a full mask that is not exact, before it looks
\* whether the key is active: its wildcard bits are never set.
AcceptedByV1(m) == Active(m) \subseteq V1Keys
AcceptedByV2(m) == Active(m) \subseteq V2Keys /\ \A k \in V2Keys \ V2FullMask : Exactly(m, k)

\* The mask of the highest W - index bits.
of_ip_index_to_mask(index) == {bit \in AllOnes : bit >= index}

\* Masks with a hole cannot be said: everything is a wildcard instead.
of_ip_mask_to_index(mask) ==
    IF mask # {} /\ \E index \in 0..W : mask = of_ip_index_to_mask(index)
    THEN CHOOSE index \in 0..W : mask = of_ip_index_to_mask(index)
    ELSE AllNw

\* A faulty variant: the index of a wildcarded address stays zero.
ToV1NoIndex(m) ==
    [wc |-> [bits |-> V1Bits \ Active(m),
             nw |-> IF m.masks["ipv4_src"] = {} THEN 0 ELSE of_ip_mask_to_index(m.masks["ipv4_src"])],
     f |-> [k \in V1Keys |-> IF k \in Active(m) THEN m.fields[k] ELSE None]]

\* of_match_to_wire_match_v1()
ToV1(m) ==
    [wc |-> [bits |-> V1Bits \ Active(m), nw |-> of_ip_mask_to_index(m.masks["ipv4_src"])],
     f |-> [k \in V1Keys |-> IF k \in Active(m) THEN m.fields[k] ELSE None]]

\* of_match_v1_to_match()
FromV1(w) ==
    LET mask(k) == IF k \notin V1Keys THEN {}
                   ELSE IF k = "ipv4_src" THEN of_ip_index_to_mask(w.wc.nw)
                   ELSE IF k \in w.wc.bits THEN {} ELSE AllOnes
    IN  [fields |-> [k \in Keys |-> IF mask(k) = {} THEN None ELSE w.f[k] \cap mask(k)],
         masks |-> [k \in Keys |-> mask(k)]]

\* of_match_to_wire_match_v2()
ToV2(m) ==
    [wc |-> {},
     mask |-> [k \in V2FullMask |-> m.masks[k]],
     f |-> [k \in V2Keys |-> IF k \in Active(m) THEN m.fields[k] ELSE None]]

\* of_match_v2_to_match()
FromV2(w) ==
    LET mask(k) == IF k \notin V2Keys \/ k \in w.wc THEN {}
                   ELSE IF k \in V2FullMask THEN w.mask[k] ELSE AllOnes
    IN  [fields |-> [k \in Keys |-> IF mask(k) = {} THEN None ELSE w.f[k] \cap mask(k)],
         masks |-> [k \in Keys |-> mask(k)]]

\* match_keys_sorted
SortedKeys == <<"metadata", "eth_src", "eth_type", "vlan_vid", "vlan_pcp", "ip_dscp",
                "ip_proto", "ipv4_src", "tcp_src", "ipv6_src", "mpls_tc">>

\* of_match_to_wire_match_v3(): the list of match fields, one entry for each
\* active key, masked if it is not exact.
ToV3(m) ==
    LET entry(k) == [key |-> k, value |-> m.fields[k], masked |-> ~Exactly(m, k),
                     mask |-> IF Exactly(m, k) THEN {} ELSE m.masks[k]]
        keys == SelectSeq(SortedKeys, LAMBDA k : k \in Active(m))
    IN  [i \in DOMAIN keys |-> entry(keys[i])]

\* One entry of the list in of_match_v3_to_match().
Read(m, e) ==
    LET mask == IF e.masked THEN e.mask ELSE AllOnes
    IN  [fields |-> [m.fields EXCEPT ![e.key] = e.value \cap mask],
         masks |-> [m.masks EXCEPT ![e.key] = mask]]

FromV3(oxms) == FoldLeft(Read, Anything, oxms)

\* of_match_more_specific(): bits of the query's masks the entry does not
\* have, and bits of the values they differ in.
MoreSpecific(entry, query) ==
    \A k \in Keys :
        /\ query.masks[k] \ entry.masks[k] = {}
        /\ \A bit \in query.masks[k] : (bit \in query.fields[k]) = (bit \in entry.fields[k])

\* A faulty variant: bits either of them looks at.
OverlapEither(m, n) ==
    \A k \in Keys :
        \A bit \in m.masks[k] \cup n.masks[k] : (bit \in m.fields[k]) = (bit \in n.fields[k])

\* of_match_overlap()
Overlap(m, n) ==
    \A k \in Keys :
        \A bit \in m.masks[k] \cap n.masks[k] : (bit \in m.fields[k]) = (bit \in n.fields[k])

\* The comparisons of one value: masks, values under the mask of one match,
\* and values under the masks of both.
of_more_specific(v1, v2) == v2 \ v1 = {}
of_restricted_match(v1, v2, mask) == v1 \cap mask = v2 \cap mask
of_overlap(v1, v2, m1, m2) == (v1 \cap m1) \cap m2 = (v2 \cap m1) \cap m2
=============================================================================
