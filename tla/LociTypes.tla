----------------------------- MODULE LociTypes ------------------------------
(***************************************************************************)
(* What the C generator makes of the types and the lengths of classes: the *)
(* functions that write the type members, that find the class of a message *)
(* and that get the length of an object from where the class keeps it.     *)
(***************************************************************************)
EXTENDS LociTables, Dispatch

CONSTANTS Header, OxmRoot   \* of_header, of_oxm

UnifiedVirtual(name) == Named(unified, name).virtual

\* A faulty variant: all versions have the type members of the first.
PushWireTypesFirst(name, v) ==
    IF UnifiedVirtual(name) THEN <<>>
    ELSE TypeCells(ClassAt(name, CHOOSE w \in DOMAIN protocols :
                       InVersion(name, w) /\ \A x \in 1..w - 1 : ~InVersion(name, x)))

\* push_wire_types_data(): nothing for a class that is virtual in a version.
PushWireTypes(name, v) == IF UnifiedVirtual(name) THEN <<>> ELSE TypeCells(ClassAt(name, v))

\* A class that is virtual in another version only has no discriminator here,
\* and the generator fails.
NoDiscriminator ==
    \E v \in DOMAIN protocols : \E c \in ToSet(protocols[v].classes) :
        UnifiedVirtual(c.name) /\ Discriminators(c) = {}

\* <class>_wire_object_id_get(): a value that is not known leaves the
\* virtual class.  Whether the search goes on is asked of the subclass in
\* this version.
WireObjectId(v, cells) ==
    LET cs == protocols[v].classes
        f[i \in DOMAIN cs] ==
            LET subs == IF UnifiedVirtual(cs[i].name) THEN SubclassesFor(cs, cs[i], cells) ELSE {}
                sub == CHOOSE j \in subs : TRUE
            IN  IF subs = {} THEN cs[i].name ELSE IF cs[sub].virtual THEN f[sub] ELSE cs[sub].name
    IN  f
-----------------------------------------------------------------------------
(* The length of an object.                                                 *)

\* A unified class, its superclass, that one's superclass and so on.
Lineage(name) ==
    LET f[i \in DOMAIN unified] ==
            {unified[i].name} \cup
            (IF unified[i].super = NoClass THEN {} ELSE f[IndexOf(unified, unified[i].super)])
    IN  f[IndexOf(unified, name)]

\* Where the functions that read and write a length find it: <<offset, bytes>>.
\* Before 1.4 three of the classes have the length of their version.
MessageLength == <<2, 2>>
Tlv16Length == <<2, 2>>
OxmLength == <<3, 1>>
U16LenLength == <<0, 2>>
PacketQueueLength(v) == IF v >= 3 THEN <<8, 2>> ELSE <<4, 2>>
MeterStatsLength == <<4, 2>>
PortDescLength(v) == IF v >= 5 THEN <<4, 2>> ELSE <<>>
EntryStatsLength(v) == IF v >= 5 THEN <<0, 2>> ELSE <<>>
QueueDescLength == <<8, 2>>

SpecialLength(v) ==
    [of_packet_queue |-> PacketQueueLength(v), of_meter_stats |-> MeterStatsLength,
     of_port_desc |-> PortDescLength(v), of_port_stats_entry |-> EntryStatsLength(v),
     of_queue_stats_entry |-> EntryStatsLength(v), of_queue_desc |-> QueueDescLength]

\* The first members of the unified class decide for all versions.
ClassIsTlv16(u) ==
    /\ Len(u.members) >= 2
    /\ u.members[1].kind \in {"type", "disc"} /\ u.members[1].type = "uint16_t"
    /\ u.members[2].kind = "length" /\ u.members[2].type = "uint16_t"

ClassIsU16Len(u) ==
    Len(u.members) >= 1 /\ u.members[1].kind = "length" /\ u.members[1].type = "uint16_t"

\* build_class_metadata(): the function it chooses; without one an object has
\* the length of its class.
WireLengthPlace(name, v) ==
    LET u == Named(unified, name)
    IN  CASE Header \in Lineage(name) -> MessageLength
          [] OxmRoot \in Lineage(name) -> OxmLength
          [] name \in DOMAIN SpecialLength(v) -> SpecialLength(v)[name]
          [] ClassIsTlv16(u) -> Tlv16Length
          [] ClassIsU16Len(u) -> U16LenLength
          [] OTHER -> <<>>
=============================================================================
