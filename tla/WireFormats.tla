---------------------------- MODULE WireFormats ----------------------------
(***************************************************************************)
(* What travels: TCP headers and segments, IPv4 headers and datagrams,     *)
(* their parsing and serialising (util/parser, tcp_helpers/tcp_header,     *)
(* tcp_segment, ipv4_header, ipv4_datagram) and the Internet checksum      *)
(* (util/util).  A byte is 0..255, a string or BufferList a sequence of    *)
(* bytes, and a uint32_t the pair of its two 16-bit halves.                *)
(***************************************************************************)
EXTENDS Integers, Sequences, SequencesExt, TLC

LENGTH == 20      \* TCPHeader::LENGTH and IPv4Header::LENGTH

PROTO_TCP == 6

-----------------------------------------------------------------------------
\* NetParser and NetUnparser: integers of 1, 2 and 4 bytes in network order.

NetParser(bytes) == [buffer |-> bytes, error |-> "NoError"]

CheckSize(p, n) ==
  IF n > Len(p.buffer) THEN [p EXCEPT !.error = "PacketTooShort"] ELSE p

\* NetParser::remove_prefix() and the Buffer::remove_prefix() it calls.
RemovePrefix(p, n) ==
  LET q == CheckSize(p, n)
  IN  IF q.error # "NoError" THEN q
      ELSE [q EXCEPT !.buffer = SubSeq(@, n + 1, Len(@))]

U16(hi, lo) == 256 * hi + lo

IntOf(bytes) ==
  CASE Len(bytes) = 1 -> bytes[1]
    [] Len(bytes) = 2 -> U16(bytes[1], bytes[2])
    [] Len(bytes) = 4 -> <<U16(bytes[1], bytes[2]), U16(bytes[3], bytes[4])>>

ParseInt(p, n) ==
  LET q == CheckSize(p, n)
  IN  IF q.error # "NoError"
      THEN [value |-> IF n = 4 THEN <<0, 0>> ELSE 0, parser |-> q]
      ELSE [value |-> IntOf(SubSeq(q.buffer, 1, n)), parser |-> RemovePrefix(q, n)]

UnparseInt(v, n) ==
  CASE n = 1 -> <<v>>
    [] n = 2 -> <<v \div 256, v % 256>>
    [] n = 4 -> <<v[1] \div 256, v[1] % 256, v[2] \div 256, v[2] % 256>>

\* The calls that parse or serialise a header follow a layout: the fields in
\* order, with the number of bytes each takes.
Field(name, width) == [name |-> name, width |-> width]

ParseField(before, field) ==
  [parser |-> ParseInt(before.parser, field.width).parser,
   fields |-> before.fields
                @@ (field.name :> ParseInt(before.parser, field.width).value)]

ParseFields(p, layout) ==
  LET upTo[i \in 0..Len(layout)] ==
        IF i = 0 THEN [parser |-> p, fields |-> <<>>]
        ELSE ParseField(upTo[i - 1], layout[i])
  IN  upTo[Len(layout)]

SerializeFields(fields, layout) ==
  FlattenSeq([i \in DOMAIN layout |->
                UnparseInt(fields[layout[i].name], layout[i].width)])

Zeros(n) == [i \in 1..n |-> 0]

-----------------------------------------------------------------------------
\* InternetChecksum: the bytes in the even places, counted from 0, are the high
\* ones; value() folds the carries and complements.  Adding two strings in turn
\* is adding their concatenation, the parity being kept between the calls.
FoldCarries[n \in Nat] ==
  IF n > 65535 THEN FoldCarries[(n \div 65536) + (n % 65536)] ELSE n

\* Mutant: the last byte of an odd number of bytes is left out.
InternetChecksum_WholeWords(initial_sum, data) ==
  LET upTo[i \in 0..Len(data)] ==
        IF i = 0 THEN initial_sum
        ELSE IF i % 2 = 1 THEN upTo[i - 1] + (IF i < Len(data) THEN 256 * data[i] ELSE 0)
        ELSE upTo[i - 1] + data[i]
  IN  65535 - FoldCarries[upTo[Len(data)]]

InternetChecksum(initial_sum, data) ==
  LET upTo[i \in 0..Len(data)] ==
        IF i = 0 THEN initial_sum
        ELSE upTo[i - 1] + (IF i % 2 = 1 THEN 256 * data[i] ELSE data[i])
  IN  65535 - FoldCarries[upTo[Len(data)]]

-----------------------------------------------------------------------------
\* TCPHeader, the flags as the set of those that are up.

FlagBit == [urg |-> 32, ack |-> 16, psh |-> 8, rst |-> 4, syn |-> 2, fin |-> 1]

TCPLayout ==
  << Field("sport", 2), Field("dport", 2), Field("seqno", 4), Field("ackno", 4),
     Field("doff", 1), Field("flags", 1),
     Field("win", 2), Field("cksum", 2), Field("uptr", 2) >>

TCPHeaderDefault ==
  [sport |-> 0, dport |-> 0, seqno |-> <<0, 0>>, ackno |-> <<0, 0>>,
   doff |-> LENGTH \div 4, flags |-> {}, win |-> 0, cksum |-> 0, uptr |-> 0]

FlagsUp(fl_b) == {f \in DOMAIN FlagBit : (fl_b \div FlagBit[f]) % 2 = 1}

\* The part of TCPHeader::parse() after the fields: the options are skipped.
SkipOptions(r) ==
  LET doff == r.fields.doff \div 16
  IN  [header |-> [r.fields EXCEPT !.doff = doff, !.flags = FlagsUp(@)],
       parser |-> IF doff < 5 THEN r.parser
                  ELSE RemovePrefix(r.parser, doff * 4 - LENGTH)]

\* TCPHeader::parse() without its result, which TCPSegment::parse() does not
\* look at: the error of the parser is what counts.
TCPHeaderParse(p) == SkipOptions(ParseFields(p, TCPLayout))

\* TCPHeader::serialize(), for a doff of at least 5: it throws otherwise.
TCPHeaderSerialize(h) ==
  LET bits == [f \in DOMAIN FlagBit |-> IF f \in h.flags THEN FlagBit[f] ELSE 0]
      fl_b == bits.urg + bits.ack + bits.psh + bits.rst + bits.syn + bits.fin
  IN  SerializeFields([h EXCEPT !.doff = @ * 16, !.flags = fl_b], TCPLayout)
        \o Zeros(h.doff * 4 - LENGTH)

-----------------------------------------------------------------------------
\* TCPSegment

SegmentOf(r) ==
  [result |-> r.parser.error, header |-> r.header, payload |-> r.parser.buffer]

\* TCPSegment::parse() into a new TCPSegment.
SegmentParse(buffer, pseudo) ==
  IF InternetChecksum(pseudo, buffer) # 0
  THEN [result |-> "BadChecksum", header |-> TCPHeaderDefault, payload |-> <<>>]
  ELSE SegmentOf(TCPHeaderParse(NetParser(buffer)))

\* TCPSegment::serialize()
SegmentSerialize(header, payload, pseudo) ==
  LET blank == TCPHeaderSerialize([header EXCEPT !.cksum = 0])
      cksum == InternetChecksum(pseudo, blank \o payload)
  IN  TCPHeaderSerialize([header EXCEPT !.cksum = cksum]) \o payload

-----------------------------------------------------------------------------
\* IPv4Header

IPv4Layout ==
  << Field("first_byte", 1), Field("tos", 1), Field("len", 2), Field("id", 2),
     Field("fo_val", 2), Field("ttl", 1), Field("proto", 1), Field("cksum", 2),
     Field("src", 4), Field("dst", 4) >>

IPv4HeaderDefault ==
  [ver |-> 4, hlen |-> LENGTH \div 4, tos |-> 0, len |-> 0, id |-> 0,
   df |-> TRUE, mf |-> FALSE, offset |-> 0, ttl |-> 128, proto |-> PROTO_TCP,
   cksum |-> 0, src |-> <<0, 0>>, dst |-> <<0, 0>>]

IPv4HeaderOf(f) ==
  [ver |-> f.first_byte \div 16, hlen |-> f.first_byte % 16, tos |-> f.tos,
   len |-> f.len, id |-> f.id,
   df |-> (f.fo_val \div 16384) % 2 = 1, mf |-> (f.fo_val \div 8192) % 2 = 1,
   offset |-> f.fo_val % 8192, ttl |-> f.ttl, proto |-> f.proto,
   cksum |-> f.cksum, src |-> f.src, dst |-> f.dst]

\* The checks after the fields: any of the four stops before the options are skipped.
CheckIPv4Header(data_size, header, parser) ==
  IF \/ data_size < 4 * header.hlen
     \/ header.ver # 4
     \/ header.hlen < 5
     \/ data_size # header.len
  THEN [header |-> header, parser |-> parser]
  ELSE [header |-> header, parser |-> RemovePrefix(parser, header.hlen * 4 - LENGTH)]

\* IPv4Header::parse() without its result, which IPv4Datagram::parse() does not
\* look at.  The result only tells which of the checks stopped it, or that the
\* header's checksum is bad.
IPv4HeaderParse(p) ==
  LET r == ParseFields(p, IPv4Layout)
  IN  IF Len(p.buffer) < LENGTH THEN [header |-> IPv4HeaderDefault, parser |-> p]
      ELSE CheckIPv4Header(Len(p.buffer), IPv4HeaderOf(r.fields), r.parser)

\* IPv4Header::serialize(), for version 4 and an hlen of at least 5.
IPv4HeaderSerialize(h) ==
  SerializeFields(
    [first_byte |-> h.ver * 16 + h.hlen, tos |-> h.tos, len |-> h.len, id |-> h.id,
     fo_val |-> (IF h.df THEN 16384 ELSE 0) + (IF h.mf THEN 8192 ELSE 0) + h.offset,
     ttl |-> h.ttl, proto |-> h.proto, cksum |-> h.cksum, src |-> h.src, dst |-> h.dst],
    IPv4Layout)
    \o Zeros(h.hlen * 4 - LENGTH)

\* payload_length() is a uint16_t.
PayloadLength(h) == (h.len - 4 * h.hlen) % 65536

PseudoChecksum(h) ==
  h.src[1] + h.src[2] + h.dst[1] + h.dst[2] + h.proto + PayloadLength(h)

-----------------------------------------------------------------------------
\* IPv4Datagram

DatagramOf(r) ==
  [header |-> r.header, payload |-> r.parser.buffer,
   result |-> IF Len(r.parser.buffer) # PayloadLength(r.header)
              THEN "PacketTooShort" ELSE r.parser.error]

DatagramParse(buffer) == DatagramOf(IPv4HeaderParse(NetParser(buffer)))

\* IPv4Datagram::serialize(), for a payload of the length the header says.
DatagramSerialize(header, payload) ==
  LET blank == IPv4HeaderSerialize([header EXCEPT !.cksum = 0])
  IN  IPv4HeaderSerialize([header EXCEPT !.cksum = InternetChecksum(0, blank)]) \o payload
=============================================================================
