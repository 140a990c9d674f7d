------------------------------ MODULE RtpPacket ------------------------------
(***************************************************************************)
(* RtpPacket::serialize and RtpPacket::parse (rtp_packet.cpp) on sequences *)
(* of octets; data[i] of the code is data[i + 1] here.                     *)
(*                                                                         *)
(* The 32-bit fields are pairs of 16-bit halves, because TLC's integers    *)
(* have 32 bits with a sign.                                               *)
(***************************************************************************)
EXTENDS Integers, Sequences

HeaderOctets == 12

Flag(b, value)  == IF b THEN value ELSE 0
Bit(octet, bit) == (octet \div bit) % 2 = 1

\* A 16-bit number, most significant octet first.
Octets(n)     == <<n \div 256, n % 256>>
Number(s, at) == 256 * s[at] + s[at + 1]

\* Mutant: the halves of a 32-bit field are written low half first.
SerializeSwapped(p) ==
  <<64 * (p.version % 4) + Flag(p.padding, 32) + Flag(p.extension, 16),
    Flag(p.marker, 128) + (p.payload_type % 128)>>
    \o Octets(p.sequence)
    \o Octets(p.timestamp[2]) \o Octets(p.timestamp[1])
    \o Octets(p.ssrc[1]) \o Octets(p.ssrc[2])
    \o p.payload

\* No CSRC and no extension: serialize writes only the fixed header.
Serialize(p) ==
  <<64 * (p.version % 4) + Flag(p.padding, 32) + Flag(p.extension, 16),
    Flag(p.marker, 128) + (p.payload_type % 128)>>
    \o Octets(p.sequence)
    \o Octets(p.timestamp[1]) \o Octets(p.timestamp[2])
    \o Octets(p.ssrc[1]) \o Octets(p.ssrc[2])
    \o p.payload

\* The header's length without and with its extension.
CsrcEnd(data) == HeaderOctets + 4 * (data[1] % 16)
HeaderEnd(data) ==
  CsrcEnd(data) + IF Bit(data[1], 16) THEN 4 + 4 * Number(data, CsrcEnd(data) + 3) ELSE 0

\* Mutant: the version is not looked at.
ParsesAnyVersion(data) ==
  /\ Len(data) >= HeaderOctets
  /\ Len(data) >= CsrcEnd(data)
  /\ Bit(data[1], 16) => Len(data) >= CsrcEnd(data) + 4
  /\ Len(data) >= HeaderEnd(data)
  /\ Bit(data[1], 32) /\ Len(data) > HeaderEnd(data)
       => data[Len(data)] <= Len(data) - HeaderEnd(data)

\* Does parse return true?  Each conjunct is one of its early returns, and
\* makes the reads of the next ones stay inside the packet.
Parses(data) ==
  /\ Len(data) >= HeaderOctets
  /\ data[1] \div 64 = 2
  /\ Len(data) >= CsrcEnd(data)
  /\ Bit(data[1], 16) => Len(data) >= CsrcEnd(data) + 4
  /\ Len(data) >= HeaderEnd(data)
  /\ Bit(data[1], 32) /\ Len(data) > HeaderEnd(data)
       => data[Len(data)] <= Len(data) - HeaderEnd(data)

\* The octets of padding at the end, counted by the last of them.
Padding(data) ==
  IF Bit(data[1], 32) /\ Len(data) > HeaderEnd(data) THEN data[Len(data)] ELSE 0

\* The packet that parse leaves behind when it returns true.
Parse(data) ==
  [version      |-> data[1] \div 64,
   padding      |-> Bit(data[1], 32),
   extension    |-> Bit(data[1], 16),
   marker       |-> Bit(data[2], 128),
   payload_type |-> data[2] % 128,
   sequence     |-> Number(data, 3),
   timestamp    |-> <<Number(data, 5), Number(data, 7)>>,
   ssrc         |-> <<Number(data, 9), Number(data, 11)>>,
   payload      |-> SubSeq(data, HeaderEnd(data) + 1, Len(data) - Padding(data))]
=============================================================================
