------------------------------ MODULE Adapters ------------------------------
(***************************************************************************)
(* The datagram adapters of one end ("server", which listens, or connects  *)
(* to a host) and of the hosts that talk to it: TCP in UDP (fd_adapter) or *)
(* in IPv4 over a TUN device (tcp_over_ip, tuntap_adapter), each behind a  *)
(* lossy link (lossy_fd_adapter).  A datagram on its way may be lost, and  *)
(* it may arrive with one bit inverted, or (IPv4) cut short.               *)
(*                                                                         *)
(* One datagram is on its way at a time.  A host may write any segment     *)
(* at any time, so every order of arrivals is covered all the same.        *)
(***************************************************************************)
EXTENDS WireFormats

CONSTANTS
  Hosts,        \* the hosts that may talk to the server
  Address,      \* the address of each host, and of "server"
  Segments,     \* the segments their connections write: [header, payload]
  LossRates     \* loss_rate_dn and loss_rate_up: subset of 0..65535

\* No two of them share both address and port.
ASSUME AddressAssumption ==
  /\ "server" \notin Hosts
  /\ \A g, h \in Hosts \cup {"server"} : Address[g] = Address[h] => g = h

VARIABLES
  server,       \* the server's adapter
  wire,         \* the datagram on its way: a set of at most one
  heard         \* the segment last given to a connection: a set of at most one

adapterVars == <<server, wire, heard>>

\* Address{"0", 0}
AnyAddress == [ip |-> <<0, 0>>, port |-> 0]

\* FdAdapterBase with its FdAdapterConfig.  "layer" is the class derived from it.
FdAdapter(layer, source, destination, listening, loss) ==
  [layer |-> layer, source |-> source, destination |-> destination,
   listening |-> listening, loss_rate_dn |-> loss, loss_rate_up |-> loss]

ShouldDrop(loss) == IF loss = 0 THEN {FALSE} ELSE BOOLEAN

-----------------------------------------------------------------------------
\* Reading.  The result is the adapter afterwards and the optional segment, a
\* set of at most one.

Nothing(ad) == [adapter |-> ad, segment |-> {}]

Just(ad, parsed) ==
  [adapter |-> ad, segment |-> {[header |-> parsed.header, payload |-> parsed.payload]}]

\* The segment a listening adapter waits for.
Opens(header) == "syn" \in header.flags /\ "rst" \notin header.flags

\* The adapter that keeps listening after it has found its peer.
Lock_KeepsListening(ad, source, destination) ==
  [ad EXCEPT !.source = source, !.destination = destination]

Lock(ad, source, destination) ==
  [ad EXCEPT !.source = source, !.destination = destination, !.listening = FALSE]

\* TCPOverUDPSocketAdapter::read()
ReadUDP(ad, d) ==
  LET seg == SegmentParse(d.bytes, 0)
  IN  IF \/ ~ad.listening /\ d.from # ad.destination
         \/ seg.result # "NoError"
         \/ ad.listening /\ ~Opens(seg.header)
      THEN Nothing(ad)
      ELSE Just(IF ad.listening THEN Lock(ad, ad.source, d.from) ELSE ad, seg)

\* The listener that goes on answering from the address it was bound to.
LockToIP_SourceKept(ad, ip, header) ==
  Lock(ad, ad.source, [ip |-> ip.header.src, port |-> header.sport])

\* The addresses a listener takes from the SYN: it may be bound to address 0.
LockToIP(ad, ip, header) ==
  Lock(ad, [ip |-> ip.header.dst, port |-> ad.source.port],
           [ip |-> ip.header.src, port |-> header.sport])

\* unwrap_tcp_in_ip() without the last of its conditions.
UnwrapTCPInIP_AnyPort(ad, ip) ==
  LET seg == SegmentParse(ip.payload, PseudoChecksum(ip.header))
  IN  IF \/ ~ad.listening /\ ip.header.dst # ad.source.ip
         \/ ~ad.listening /\ ip.header.src # ad.destination.ip
         \/ ip.header.proto # PROTO_TCP
         \/ seg.result # "NoError"
         \/ seg.header.dport # ad.source.port
         \/ ad.listening /\ ~Opens(seg.header)
      THEN Nothing(ad)
      ELSE Just(IF ad.listening THEN LockToIP(ad, ip, seg.header) ELSE ad, seg)

\* TCPOverIPv4Adapter::unwrap_tcp_in_ip().  The last condition also stands in the
\* code after a listener has locked on, where it is always met.
UnwrapTCPInIP(ad, ip) ==
  LET seg == SegmentParse(ip.payload, PseudoChecksum(ip.header))
  IN  IF \/ ~ad.listening /\ ip.header.dst # ad.source.ip
         \/ ~ad.listening /\ ip.header.src # ad.destination.ip
         \/ ip.header.proto # PROTO_TCP
         \/ seg.result # "NoError"
         \/ seg.header.dport # ad.source.port
         \/ ad.listening /\ ~Opens(seg.header)
         \/ ~ad.listening /\ seg.header.sport # ad.destination.port
      THEN Nothing(ad)
      ELSE Just(IF ad.listening THEN LockToIP(ad, ip, seg.header) ELSE ad, seg)

\* TCPOverIPv4OverTunFdAdapter::read()
ReadTun(ad, d) ==
  LET ip == DatagramParse(d.bytes)
  IN  IF ip.result # "NoError" THEN Nothing(ad) ELSE UnwrapTCPInIP(ad, ip)

AdapterRead(ad, d) == IF ad.layer = "udp" THEN ReadUDP(ad, d) ELSE ReadTun(ad, d)

\* LossyFdAdapter::read(): the adapter reads, and may lock on, before the segment
\* is dropped.
LossyRead(ad, d, drop) ==
  LET r == AdapterRead(ad, d) IN IF drop THEN [r EXCEPT !.segment = {}] ELSE r

-----------------------------------------------------------------------------
\* Writing.  "by" and "sent", who wrote the datagram and what, are for the
\* properties only.

\* TCPOverIPv4Adapter::wrap_tcp_in_ip(), serialised.
WrapTCPInIP(ad, header, payload) ==
  LET ip == [IPv4HeaderDefault EXCEPT
               !.src = ad.source.ip, !.dst = ad.destination.ip,
               !.len = LENGTH + header.doff * 4 + Len(payload)]
  IN  DatagramSerialize(ip, SegmentSerialize(header, payload, PseudoChecksum(ip)))

\* write() of either adapter.  The kernel puts the address of the socket on a UDP
\* datagram, and takes the one to send it to from sendto().
AdapterWrite(ad, seg, by) ==
  LET header == [seg.header EXCEPT !.sport = ad.source.port, !.dport = ad.destination.port]
  IN  [from |-> Address[by], to |-> ad.destination,
       bytes |-> IF ad.layer = "udp" THEN SegmentSerialize(header, seg.payload, 0)
                 ELSE WrapTCPInIP(ad, header, seg.payload),
       by |-> by, sent |-> [header |-> header, payload |-> seg.payload]]

\* LossyFdAdapter::write()
LossyWrite(ad, seg, by, drop) == IF drop THEN {} ELSE {AdapterWrite(ad, seg, by)}

-----------------------------------------------------------------------------
\* The configurations of the programs.  tcp_ipv4 gives a client its source address;
\* tcp_udp leaves it to the kernel.
ClientOf(layer, who, destination, loss) ==
  FdAdapter(layer, IF layer = "ip" THEN Address[who] ELSE AnyAddress,
            destination, FALSE, loss)

ListenerOf(layer, loss) ==
  FdAdapter(layer, [ip |-> AnyAddress.ip, port |-> Address["server"].port],
            AnyAddress, TRUE, loss)

HostAdapter(h) == ClientOf(server.layer, h, Address["server"], server.loss_rate_dn)

AdapterOf(who) == IF who = "server" THEN server ELSE HostAdapter(who)

AdapterInit ==
  /\ \E layer \in {"udp", "ip"}, loss \in LossRates :
       \/ server = ListenerOf(layer, loss)
       \/ \E h \in Hosts : server = ClientOf(layer, "server", Address[h], loss)
  /\ wire = {}
  /\ heard = {}

\* The kernel delivers a UDP datagram to the socket it is sent to; the filter of
\* the IPv4 adapter sees whatever comes out of the TUN device.
Delivered(d, who) == IF server.layer = "udp" THEN d.to = Address[who] ELSE d.by # who

InvertBit(byte, bit) == IF (byte \div bit) % 2 = 1 THEN byte - bit ELSE byte + bit

Damaged(bytes) ==
  {[bytes EXCEPT ![i] = InvertBit(@, bit)] :
     i \in DOMAIN bytes, bit \in {1, 2, 4, 8, 16, 32, 64, 128}}

CutShort(bytes) == {SubSeq(bytes, 1, n) : n \in 0 .. Len(bytes) - 1}

\* What may arrive of the bytes of a datagram.
Arrivals(bytes) ==
  {bytes} \cup Damaged(bytes) \cup (IF server.layer = "ip" THEN CutShort(bytes) ELSE {})

Heard(who, d, segments) ==
  {[at |-> who, segment |-> s, by |-> d.by, sent |-> d.sent] : s \in segments}

\* A connection writes a segment; one that listens has nothing to write.
WriteSegment(who) ==
  /\ wire = {}
  /\ ~AdapterOf(who).listening
  /\ \E seg \in Segments, drop \in ShouldDrop(AdapterOf(who).loss_rate_up) :
       wire' = LossyWrite(AdapterOf(who), seg, who, drop)
  /\ UNCHANGED <<server, heard>>

\* The datagram, perhaps damaged, is read.
ReadDatagram(who) ==
  \E d \in wire :
    /\ Delivered(d, who)
    /\ \E bytes \in Arrivals(d.bytes), drop \in ShouldDrop(AdapterOf(who).loss_rate_dn) :
         LET r == LossyRead(AdapterOf(who), [d EXCEPT !.bytes = bytes], drop)
         IN  /\ heard' = IF r.segment = {} THEN heard ELSE Heard(who, d, r.segment)
             /\ server' = IF who = "server" THEN r.adapter ELSE server
    /\ wire' = {}

\* The network loses the datagram.
LoseDatagram ==
  /\ wire # {}
  /\ wire' = {}
  /\ UNCHANGED <<server, heard>>

AdapterNext ==
  \/ LoseDatagram
  \/ \E who \in Hosts \cup {"server"} : WriteSegment(who) \/ ReadDatagram(who)

AdapterSpec == AdapterInit /\ [][AdapterNext]_adapterVars

-----------------------------------------------------------------------------
\* Whatever bit is inverted on the way, and wherever a datagram is cut, a segment
\* that an adapter gives to its connection is the one that was written: every field
\* of its header but the checksum, and its payload.  The IPv4 header's own checks
\* have no say in it, since IPv4Datagram::parse() drops their result.
AcceptedAsSent ==
  \A a \in heard :
    /\ [a.segment.header EXCEPT !.cksum = 0] = [a.sent.header EXCEPT !.cksum = 0]
    /\ a.segment.payload = a.sent.payload

\* An adapter hands over no segment but those of its peer: the host the server is
\* connected to, or whose SYN it took while it listened.  Hosts that share an address
\* or a port number with the peer are kept out, and do not take the server's answers.
OnlyThePeer ==
  \A a \in heard :
    /\ "server" \in {a.at, a.by}
    /\ \E h \in {a.at, a.by} \cap Hosts : server.destination = Address[h]

\* The filter keeps nothing back between the two ends: what one of them writes, the
\* other takes if it arrives as it was sent, also when the listener is bound to
\* address 0 and answers from the address the SYN was sent to.
PeersUnderstandEachOther ==
  ~server.listening =>
    \E h \in Hosts :
      /\ server.destination = Address[h]
      /\ \A d \in wire : \A who \in {h, "server"} \ {d.by} :
           d.by \in {h, "server"} /\ Delivered(d, who) =>
             AdapterRead(AdapterOf(who), d).segment # {}

\* Once an adapter has its peer, no later datagram gives it another one, a SYN of
\* another host included.
LockedForGood ==
  [][server.destination # AnyAddress => server' = server]_adapterVars
=============================================================================
