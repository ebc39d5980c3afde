----------------------------- MODULE WireTypes ------------------------------
(***************************************************************************)
(* How the C and the Python library put a member of a plain type on the    *)
(* wire and get it back, and what the dissector reads.  Octets are a       *)
(* sequence; so is an integer, with the highest octet first.               *)
(***************************************************************************)
EXTENDS Integers, Sequences, SequencesExt, TLC

Zeros(n) == [i \in 1..n |-> 0]
ZeroExtend(s, n) == Zeros(n - Len(s)) \o s
Low(s, n) == SubSeq(s, Len(s) - n + 1, Len(s))

\* The words of eight octets that a sequence consists of.
Words(s) == [k \in 1..Len(s) \div 8 |-> SubSeq(s, 8 * k - 7, 8 * k)]

Integer == [uint8_t |-> 1, uint16_t |-> 2, uint32_t |-> 4, uint64_t |-> 8]
OctetTypes == [of_mac_addr_t |-> 6, of_ipv6_t |-> 16]

FixedStrings ==
    [of_port_name_t |-> 16, of_table_name_t |-> 32, of_desc_str_t |-> 256, of_serial_num_t |-> 32,
     of_str64_t |-> 64]

WordTypes == [uint128_t |-> 2, of_bitmap_128_t |-> 2, of_checksum_128_t |-> 2, of_bitmap_512_t |-> 8]

\* Types whose width depends on the version.
Mixed(t, v) ==
    CASE t = "of_port_no_t" -> IF v = 1 THEN 2 ELSE 4
      [] t = "of_fm_cmd_t" -> IF v = 1 THEN 2 ELSE 1
      [] t \in {"of_wc_bmap_t", "of_match_bmap_t"} -> IF v <= 2 THEN 4 ELSE 8

MixedTypeNames == {"of_port_no_t", "of_fm_cmd_t", "of_wc_bmap_t", "of_match_bmap_t"}

PlainTypes ==
    DOMAIN Integer \cup DOMAIN FixedStrings \cup DOMAIN WordTypes \cup MixedTypeNames
    \cup DOMAIN OctetTypes \cup {"of_ipv4_t"}
-----------------------------------------------------------------------------
(* LOCI.                                                                    *)

\* The bytes of the C types that do not have the width of the wire.
HostWidth == [of_port_no_t |-> 4, of_fm_cmd_t |-> 2, of_wc_bmap_t |-> 8, of_match_bmap_t |-> 8]

\* of_wire_buffer_u8_get() to of_wire_buffer_u64_get()
LociIntegers == Integer @@ [of_ipv4_t |-> 4]

\* wire_accessor(): what the function that it names reads and writes.
LociWidth(t, v) ==
    CASE t \in DOMAIN LociIntegers -> LociIntegers[t]
      [] t \in DOMAIN FixedStrings -> FixedStrings[t]
      [] t \in DOMAIN WordTypes -> 8 * WordTypes[t]
      [] t \in MixedTypeNames -> Mixed(t, v)
      [] t \in DOMAIN OctetTypes -> OctetTypes[t]

\* Long types are words in the order in which they are sent.
LociGet(t, v, s) ==
    IF t \in MixedTypeNames THEN ZeroExtend(s, HostWidth[t])
    ELSE IF t \in DOMAIN WordTypes THEN Words(s) ELSE s

\* A faulty variant: the lower word is sent first.
LociSetLowFirst(t, v, x) ==
    IF t \in MixedTypeNames THEN Low(x, Mixed(t, v))
    ELSE IF t \in DOMAIN WordTypes THEN FlattenSeq(Reverse(x)) ELSE x

\* What does not fit is cut off.
LociSet(t, v, x) ==
    IF t \in MixedTypeNames THEN Low(x, Mixed(t, v))
    ELSE IF t \in DOMAIN WordTypes THEN FlattenSeq(x) ELSE x
-----------------------------------------------------------------------------
(* The Python library.                                                      *)

\* The library has no integers of 128 bits.
PythonLacks == {"uint128_t"}

\* The functions for the types whose width depends on the version.
PythonMixed(t, v) ==
    CASE t = "of_port_no_t" -> IF v = 1 THEN 2 ELSE 4
      [] t = "of_fm_cmd_t" -> IF v = 1 THEN 2 ELSE 1
      [] t \in {"of_wc_bmap_t", "of_match_bmap_t"} -> IF v <= 2 THEN 4 ELSE 8

\* The formats of struct.pack() and of OFReader.read().
PythonWidth(t, v) ==
    CASE t = "uint8_t" -> 1 [] t = "uint16_t" -> 2 [] t \in {"uint32_t", "of_ipv4_t"} -> 4
      [] t = "uint64_t" -> 8 [] t = "of_mac_addr_t" -> 6
      [] t \in {"of_ipv6_t", "of_bitmap_128_t", "of_checksum_128_t", "uint128_t"} -> 16
      [] t = "of_bitmap_512_t" -> 64
      [] t \in DOMAIN FixedStrings -> FixedStrings[t]
      [] t \in MixedTypeNames -> PythonMixed(t, v)

Bits(s) ==
    {b \in 0..8 * Len(s) - 1 : (s[Len(s) - b \div 8] \div 2 ^ (b % 8)) % 2 = 1}

FromBits(bits, n) ==
    LET octet(i) == {k \in 0..7 : 8 * (n - i) + k \in bits}
    IN  [i \in 1..n |-> MapThenSumSet(LAMBDA k : 2 ^ k, octet(i))]

\* The string without the zeros at its end.
RStrip(s) == SubSeq(s, 1, SelectLastInSeq(s, LAMBDA o : o # 0))

PythonGet(t, v, s) ==
    IF t \in {"of_bitmap_128_t", "of_bitmap_512_t"} THEN Bits(s)
    ELSE IF t \in DOMAIN FixedStrings THEN RStrip(s) ELSE s

\* A string is padded, and cut if it is too long; an integer keeps its width.
PythonSet(t, v, x) ==
    IF t \in {"of_bitmap_128_t", "of_bitmap_512_t"} THEN FromBits(x, 8 * WordTypes[t])
    ELSE IF t \in DOMAIN FixedStrings
    THEN SubSeq(x \o Zeros(FixedStrings[t]), 1, FixedStrings[t]) ELSE x
-----------------------------------------------------------------------------
(* The Wireshark dissector, which only reads.                               *)

\* The types that have no read_ function: an error ends the call.
WiresharkLacks == {"uint128_t", "of_match_bmap_t"}

WiresharkWidth(t, v) ==
    CASE t = "uint8_t" -> 1 [] t = "uint16_t" -> 2 [] t \in {"uint32_t", "of_ipv4_t"} -> 4
      [] t = "uint64_t" -> 8 [] t = "of_mac_addr_t" -> 6
      [] t \in {"of_bitmap_128_t", "of_checksum_128_t", "of_ipv6_t", "of_port_name_t"} -> 16
      [] t \in {"of_serial_num_t", "of_table_name_t"} -> 32
      [] t \in {"of_bitmap_512_t", "of_str64_t"} -> 64
      [] t = "of_desc_str_t" -> 256
      [] t = "of_wc_bmap_t" -> IF v <= 2 THEN 4 ELSE 8
      [] t = "of_port_no_t" -> IF v = 1 THEN 2 ELSE 4
      [] t = "of_fm_cmd_t" -> IF v = 1 THEN 2 ELSE 1
=============================================================================
