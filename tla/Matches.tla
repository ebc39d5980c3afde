------------------------------- MODULE Matches -------------------------------
(***************************************************************************)
(* A Java controller and a C switch that exchange matches of version 1.0.  *)
(*                                                                         *)
(* The controller edits a match with builders, with a parent or without,   *)
(* and sends it; the switch has what it read as an entry of its table,     *)
(* edits it, compares it with the query of an operator and reports it,     *)
(* and the controller goes on from the report.  A peer that is neither may *)
(* also send a match.                                                      *)
(***************************************************************************)
EXTENDS JavaMatch, LociMatch

CONSTANTS
    Exact,     \* the values a key is set to
    Masks,     \* the masks a program of the C library gives a key
    Known,     \* matches the controller may begin with
    Foreign,   \* matches of other peers
    MaxEdits   \* bound on the edits of builder, entry and query

VARIABLES
    builder,   \* the builder in use
    match,     \* the last match it built, or that was received
    asked,     \* what the controller has asked for since the defaults
    entry,     \* the switch's of_match_t
    query,     \* another one
    wire,      \* the last match on the connection
    edits
vars == <<builder, match, asked, entry, query, wire, edits>>

Init ==
    /\ match \in {Default} \cup {JavaRead(w) : w \in Known}
    /\ builder = NewBuilder(match)
    /\ asked = FromV1(match)
    /\ entry = Anything
    /\ query = Anything
    /\ wire = Default
    /\ edits = 0

Ask(key, value, mask) ==
    asked' = [fields |-> [asked.fields EXCEPT ![key] = value \cap mask],
              masks |-> [asked.masks EXCEPT ![key] = mask]]

Edit == edits < MaxEdits /\ edits' = edits + 1

\* A builder's operations; one that throws does nothing of what was asked.
SetExact(field, value) ==
    /\ Edit
    /\ builder' = setExact(builder, field, value)
    /\ Ask(KeyOf[field], value, AllOnes)
    /\ UNCHANGED <<match, entry, query, wire>>

SetMasked(field, value, mask) ==
    /\ Edit
    /\ builder' = setMasked(builder, field, value, mask)
    /\ IF field \in Maskable /\ Contiguous(mask) THEN Ask(KeyOf[field], value, mask) ELSE UNCHANGED asked
    /\ UNCHANGED <<match, entry, query, wire>>

Wildcard(field) ==
    /\ Edit
    /\ builder' = wildcard(builder, field)
    /\ IF field \in Wildcardable THEN Ask(KeyOf[field], None, {}) ELSE UNCHANGED asked
    /\ UNCHANGED <<match, entry, query, wire>>

(* What a match of version 1.0 says about a field, from its keys alone: an  *)
(* IPv4 field counts if eth_type is exactly IPv4, and so on.                *)
Is(m, key, value) == Exactly(m, key) /\ m.fields[key] = value

Counts(m, field) ==
    CASE field \in {"IP_PROTO", "IP_DSCP", "IPV4_SRC"} -> Is(m, "eth_type", IPv4)
      [] field \in {"ARP_OP", "ARP_SPA"} -> Is(m, "eth_type", ARP)
      [] field = "TCP_SRC" -> Is(m, "eth_type", IPv4) /\ Is(m, "ip_proto", TCP)
      [] field = "SCTP_SRC" -> Is(m, "eth_type", IPv4) /\ Is(m, "ip_proto", SCTP)
      [] field = "VLAN_PCP" -> Exactly(m, "vlan_vid")
      [] OTHER -> TRUE

\* What is left of what was asked: a member of the IP or the transport layer
\* if some field it stands for counts.  SCTP_SRC is none: version 1.0 knows
\* the ports of TCP, UDP and ICMP only.
Kept(a) ==
    LET layers == {"ip_dscp", "ip_proto", "ipv4_src", "tcp_src"}
        gone == {key \in layers :
                    ~\E field \in MatchFields \ {"SCTP_SRC"} : KeyOf[field] = key /\ Counts(a, field)}
    IN  [fields |-> [k \in Keys |-> IF k \in gone THEN None ELSE a.fields[k]],
         masks |-> [k \in Keys |-> IF k \in gone THEN {} ELSE a.masks[k]]]

\* build(), and match.createBuilder() to go on.
Build ==
    /\ match' = build(builder)
    /\ asked' = Kept(asked)
    /\ builder' = NewBuilder(match')
    /\ UNCHANGED <<entry, query, wire, edits>>

\* The controller sends the match, the switch reads it.
Send ==
    /\ wire' = match
    /\ entry' = FromV1(wire')
    /\ UNCHANGED <<builder, match, asked, query, edits>>

\* The switch sends its entry, if version 1.0 can say it; the controller
\* reads that and goes on from there.
Report ==
    /\ AcceptedByV1(entry)
    /\ wire' = ToV1(entry)
    /\ match' = JavaRead(wire')
    /\ asked' = Kept(FromV1(wire'))
    /\ builder' = NewBuilder(match')
    /\ UNCHANGED <<entry, query, edits>>

\* Another peer's match, which both ends read.  Nothing is edited after it
\* (a bound).
Overhear ==
    /\ edits = 0
    /\ edits' = MaxEdits
    /\ wire' \in Foreign
    /\ entry' = FromV1(wire')
    /\ UNCHANGED <<builder, match, asked, query>>

\* A program of the C library assigns a field and its mask.
Assigned(m, key, value, mask) ==
    [fields |-> [m.fields EXCEPT ![key] = value], masks |-> [m.masks EXCEPT ![key] = mask]]

EditEntry(key, value, mask) ==
    /\ Edit
    /\ entry' = Assigned(entry, key, value, mask)
    /\ UNCHANGED <<builder, match, asked, query, wire>>

EditQuery(key, value, mask) ==
    /\ Edit
    /\ query' = Assigned(query, key, value, mask)
    /\ UNCHANGED <<builder, match, asked, entry, wire>>

\* Nothing but the comparisons looks at the query, which is therefore edited
\* last, and when no edits of a builder are pending (a bound).
Next ==
    \/ /\ query = Anything
       /\ \/ \E field \in MatchFields :
                \/ \E value \in Exact[KeyOf[field]] : SetExact(field, value)
                \/ Wildcard(field)
          \/ \E field \in MatchFields, mask \in Values :
                \E value \in Exact[KeyOf[field]] : SetMasked(field, value, mask)
          \/ Build
          \/ Send
          \/ Report
          \/ Overhear
          \/ \E key \in Keys : \E value \in Exact[key], mask \in Masks[key] : EditEntry(key, value, mask)
    \/ /\ builder = NewBuilder(match)
       /\ \E key \in Keys : \E value \in Exact[key], mask \in Masks[key] : EditQuery(key, value, mask)

Spec == Init /\ [][Next]_vars
-----------------------------------------------------------------------------
Specified(m, field) == Counts(m, field) /\ m.masks[KeyOf[field]] # {}

\* The getters of j say what m says.
Agrees(j, m) ==
    \A field \in MatchFields \ {"SCTP_SRC"} :
        IF Specified(m, field)
        THEN /\ ~isFullyWildcarded(j, field)
             /\ Got(j, field) = [value |-> m.fields[KeyOf[field]] \cap m.masks[KeyOf[field]],
                                 mask |-> m.masks[KeyOf[field]]]
        ELSE isFullyWildcarded(j, field)

\* What is built is what was asked for: after any sequence of edits, with
\* builders that go on from an earlier match or from a report, the getters
\* of the match return the last request for every field whose prerequisites
\* were asked for too, and nothing for the others (initWildcards(), the
\* aliases of a member, and the stanza that normalizes).  A request that threw
\* (a mask that is not a prefix, a mask for a field that takes none, and
\* wildcard(ARP_OP)) has asked for nothing and leaves nothing in the match.
\* The port of an SCTP packet is left out: build() makes it a wildcard again,
\* as version 1.0 knows the ports of TCP, UDP and ICMP only.
BuiltAsAsked == builder = NewBuilder(match) => Agrees(match, asked)

\* Whatever arrives, from either library or from another peer, the C library
\* and the Java library take it for the same match, and no match that can be
\* built or received makes getMatchFields() throw: what the types do not use
\* has become a wildcard.
BothEndsAgree ==
    /\ Agrees(JavaRead(wire), FromV1(wire))
    /\ "throws" \notin Listed(match) \cup Listed(JavaRead(wire))

\* Masks version 1.0 has.
SayableInV1(m) ==
    /\ \A k \in V1Bits : m.masks[k] \in {{}, AllOnes}
    /\ m.masks["ipv4_src"] = {} \/ Contiguous(m.masks["ipv4_src"])

\* The switch's match survives the wire: in version 1.2 and later always, in
\* 1.1 if it is accepted, in 1.0 if its masks can be said too.
WireKeepsMatch ==
    /\ Same(FromV3(ToV3(entry)), entry)
    /\ AcceptedByV2(entry) => Same(FromV2(ToV2(entry)), entry)
    /\ AcceptedByV1(entry) /\ SayableInV1(entry) => Same(FromV1(ToV1(entry)), entry)

\* The comparisons of of_match.h mean what they say of packets: an entry is
\* more specific than a query if every packet it selects is selected by the
\* query, and they overlap if some packet is selected by both.  It is enough
\* to look at the keys of the query: some packet has what the entry wants of
\* the others.  The comparisons of one value, key by key, say the same.
FlowSpace ==
    LET packets == Packets(Active(query))
        specific == \A p \in packets : Selects(entry, p) => Selects(query, p)
        overlap == \E p \in packets : Selects(entry, p) /\ Selects(query, p)
        values(k) == of_overlap(entry.fields[k], query.fields[k], entry.masks[k], query.masks[k])
        finer(k) == /\ of_more_specific(entry.masks[k], query.masks[k])
                    /\ of_restricted_match(entry.fields[k], query.fields[k], query.masks[k])
    IN  /\ MoreSpecific(entry, query) <=> specific
        /\ specific <=> \A k \in Keys : finer(k)
        /\ Overlap(entry, query) <=> overlap
        /\ overlap <=> \A k \in Keys : values(k)
=============================================================================
