# A verification project for Sponge, the CS144 TCP stack

Sponge (`src/libsponge`) is a user-space TCP: a sequential state machine for each
end of a connection, driven by an event loop that moves segments to and from a
datagram interface. This directory holds TLA+ models of the stack from the bytes of
a datagram to the programs that use a connection, the TLC runs that check them, and
TLAPS proofs of what matters most about them.

## 1. The system

| Part | Source | Role |
|------|--------|------|
| Sequence numbers | `wrapping_integers.{hh,cc}` | 64-bit absolute to 32-bit relative numbers and back |
| `ByteStream` | `byte_stream.{hh,cc}` | bounded FIFO of bytes with an end and an error flag |
| `StreamReassembler` | `stream_reassembler.{hh,cc}` | substrings in any order to a `ByteStream` |
| `TCPReceiver` | `tcp_receiver.{hh,cc}` | segments to substrings; `ackno()`, `window_size()` |
| `TCPSender` | `tcp_sender.{hh,cc}` | `ByteStream` to segments; window, timer, retransmission |
| `TCPConnection` | `tcp_connection.{hh,cc}` | both of them, the handshake, reset, linger |
| `TCPState` | `tcp_helpers/tcp_state.{hh,cc}` | summary of a connection as an RFC 793 state |
| `TCPSpongeSocket` | `tcp_helpers/tcp_sponge_socket.{hh,cc}` | owner thread and TCP thread around one connection |
| `EventLoop` | `util/eventloop.{hh,cc}` | `poll()` over rules with interest, callback, cancel |
| Adapters | `tcp_helpers/{fd_adapter,lossy_fd_adapter,tcp_over_ip,tuntap_adapter}.*` | segments to UDP or IP datagrams, address filter, loss |
| Formats | `tcp_helpers/{tcp_header,tcp_segment,ipv4_header,ipv4_datagram}.*`, `util/parser.*` | parsing, serialising, checksums |
| Buffers, descriptors | `util/{buffer,file_descriptor}.*` | shared byte buffers, reference-counted descriptors |
| Sockets, addresses, TUN | `util/{socket,address,tun,util}.*` | system-call wrappers |
| Applications | `apps/*` | stream copy, web client, benchmark, packet dump |

A call travels like this. The application writes to a socket pair; the TCP thread's
event loop moves the bytes into `TCPConnection::write()`, which fills the sender's
window and stamps the resulting segments with the receiver's ackno and window. A
datagram that arrives becomes a segment for `segment_received()`, which chooses a
branch by what sender and receiver have seen, hands the acknowledgment to the
sender and the payload to the receiver, and may answer. `tick()` drives
retransmission, giving up, and the end of lingering.

## 2. Modules

Each component has an `...Ops` module with its state as a record and its methods as
operators on that record, so that components nest as the C++ objects do, and a
module with the state machine that drives it.

| Module | Models |
|--------|--------|
| `WrappingIntegers` | `wrap`, `unwrap`, signed difference, modulus `M` for 2^32 |
| `SequenceNumbers` | a checkpoint that moves forward, numbers sent around it |
| `ByteStreamOps`, `ByteStream` | the byte stream; a writer and a reader in any order |
| `TCPSegment` | the header fields the state machines read, and the payload |
| `StreamReassemblerOps`, `StreamReassembler` | the list of stored pieces with its sentinel; pushes and reads in any order |
| `InOrderStream` | the promise of the reassembler: a set of indices received, a prefix delivered |
| `TCPReceiverOps`, `TCPReceiver` | the receiver; a peer whose segments arrive in any order, re-cut, repeated |
| `TCPSenderOps`, `TCPSender` | the sender; writes, acknowledgments of any age and window, time |
| `TCPConnectionOps` | the connection; one operator per branch of `segment_received()` |
| `TCPPair`, `MCTCPPair` | two connections, their applications and a network that reorders, loses, repeats |
| `TCPState` | the summary of a connection, and the official states it is compared with |
| `EventLoopOps` | `wait_next_event()` up to `poll()` (`SetUp`) and after it, for one rule (`Serve`); interest, callback and cancellation are parameters |
| `SpongeSocket`, `MCSpongeSocket` | `TCPSpongeSocket`: owner, event loop, socket pair, network and the remote connection |
| `StreamCopy` | `bidirectional_stream_copy()`: a second set of rules for the same event loop |
| `TCPApp` | `main()` and `get_config()` of `tcp_ipv4`, `tcp_udp` and `tcp_native`, around `StreamCopy` |
| `WireFormats` | parser, TCP and IPv4 headers, segments, datagrams and the Internet checksum, on bytes |
| `Adapters`, `MCAdapters` | the UDP, IPv4 and lossy adapters of one end and of several hosts that talk to it |
| `BasicLemmas` | lemmas: loops, arithmetic of `wrap` and `unwrap`, methods of `ByteStream` |
| `TCPReceiverLemmas`, `TCPSenderLemmas`, `TCPPairLemmas` | lemmas: what every method of the reassembler and the receiver, of the sender, and of a connection with a peer preserves and returns |
| `ComponentProofs` | theorems about `TCPSender`, `ByteStream`, `SequenceNumbers` and `Adapters` |
| `ReceiverProofs` | theorems about `StreamReassembler` and `TCPReceiver` |
| `TCPPairProofs` | theorems about `TCPPair` |
| `ProgramProofs` | theorems about `StreamCopy` and `TCPApp` |

How they compose. `SpongeSocket` holds a whole `TCPConnection` record, sender, receiver and
reassembler included, in one of its members, as the C++ object does; `EventLoopOps` is
instantiated twice, with the rules of `SpongeSocket` and with those of `StreamCopy`;
`Adapters` runs every segment through `WireFormats`, byte by byte. The datagram between two
sockets is abstract in `SpongeSocket` and `TCPPair` (a segment that arrives or does not):
`wire` is the run that justifies it.

Where the threads meet. The owner thread and the TCP thread share the socket pair and the
flag `_abort`, and nothing else that a property reads. `SpongeSocket` lets the owner, the
remote side and the clock act between `poll()` and each callback, so a result of `poll()`
may be out of date when it is used. What one callback does between two system calls is
one step. `wait_next_event()` up to `poll()` looks at nothing that the others change and is
part of the step that polls.

Conventions. Fields keep the names of the members (`_next_seqno` is
`next_seqno`, `_segments_outgoing` is `outgoing`, a sequence in key order in place
of the `std::map`). A loop is a recursive function on the state it changes. A byte
is its own index in its stream, so that a byte lost, repeated or out of place
shows. `size_t` values that can reach `ULONG_LONG_MAX` (the end of the
stream before it is known, the sentinel of the list) wrap at `SIZE_MAX`.

Deliberate bugs. An operator named `X_Something`, defined before `X`, is `X` with one
plausible bug. It is used by nothing; putting it in the place of `X` makes the
property it is meant for fail, which shows that the property can.

## 3. Runs

| Run | Shows |
|-----|-------|
| `byte_stream` | FIFO order, exact counters, capacity |
| `sequence_numbers` | `unwrap` undoes `wrap` and is the closest, over three times the range |
| `sender` | what is not acknowledged is kept, contiguous, counted, retransmitted as written, under an armed timer; FIN once and last; never beyond the window |
| `reassembler` | implements `InOrderStream`; pieces disjoint, within capacity, end at the end; everything is delivered if the first missing byte keeps coming |
| `receiver` | never acknowledges what has not arrived; the right edge never moves back; accepts what it advertised |
| `pair_live` | opened from one side or both, data both ways, a window of one that closes, one fault: both streams are delivered in full and both connections close without an error |
| `pair_faults` | two segments in flight, two faults, connections that give up after two attempts, sequence numbers that wrap: what is read is a prefix, nothing is forgotten before it is received, and a reset in the middle never passes for a clean end |
| `sponge_socket` | opened from either side or by `connect()` calls that cross, with one loss, early timeout, reset or signal, or with windows that close and writes that the pair takes in part: the loop never throws (no busy wait, no blocking read, no write to a closed pipe), a socket handed over is open or has failed (but see crossing `connect()` calls below), the bytes read at either end are those written at the other, in order, and end only at their end, the thread ends CLOSED or RESET, `wait_until_closed()` and the destructor return, what was written arrives |
| `app` | every command line of up to five words is taken exactly when it is options with their values and two more arguments, and is read so; the copy loses nothing, throws only if the connection is lost under it, closes an output only after its last byte, and ends once both inputs have ended |
| `wire` | one bit inverted anywhere, a datagram cut anywhere, lost, or sent by a host with the same address or the same port: what reaches the connection is what its one peer sent, and the two ends of a connection accept each other's datagrams |

Runs that find a violation state what a comment or a test says of the code, and
show where the code does something else (see "findings" in `PROJECT.json`):

| Run | The code does |
|-----|---------------|
| `receiver_checkpoint` | the checkpoint of `unwrap()` does not move with the stream, and from one whole turn of the sequence space on, bytes inside the window are dropped. In the first turn every index is right: with a checkpoint of at most half the range, `unwrap()` recovers all of it |
| `pair_linger` | data retransmitted to FIN_WAIT_1 or TIME_WAIT is not acknowledged, and ends in a reset |

Smaller disagreements, seen while modelling and reproduced by the models as the code
has them:

* `ByteStream::write()` accepts bytes after `end_input()` (`byte_stream.hh:12-13` says it
  does not).
* `StreamReassembler::empty()` also looks at the output stream
  (`stream_reassembler.hh:57` says "other than the output stream").
* SYN and FIN of an empty stream go out together in a window of one: the room check of
  `tcp_sender.cc:40` does not count the SYN (`tests/send_extra.cc:236`: "Don't add FIN if
  this would make the segment exceed the receiver's window").
* An acknowledgment older than one already accepted still replaces the window and clears
  the retransmission count (`tests/send_ack.cc:39`: "Old ACK is ignored").
* SYN_RCVD takes the ackno field of a segment without ACK (`tcp_connection.cc:67`; the
  comment above it says "rcv ACK"): a repeated bare SYN, whose field is 0,
  acknowledges the SYN of a server whose ISN is the largest sequence number.
* The destructor of an active connection sends no RST (`tcp_connection.hh:96`,
  `tcp_sponge_socket.hh:73`). `PeerReceivesOutbound` shows that its peer does not take the
  silence for an end.
* After a reset, rule 3 shuts the pipe down for writing even when a write took only part
  of the inbound bytes, stays interested, and fails with EPIPE on the next round. The case
  needs a pair that takes fewer bytes than are offered although it polled as writable;
  `sponge_socket` has such writes, but not together with a reset (see Bounds).
* A signal makes `wait_next_event()` return `Result::Exit`, which `eventloop.hh:46` keeps
  for "All rules have been canceled or were uninterested": the thread ends with the
  connection still open. The properties of `sponge_socket` exempt it (`signalled`).
* A reset that arrives in the same round as the owner's `shutdown()` is followed by one more
  segment: rule 2 was found ready before rule 1 handled the reset.
* The owner cannot tell a reset from the end of the stream: both are an end of file.
* `IPv4Datagram::parse()` drops the result of `IPv4Header::parse()`, so that bad versions,
  lengths and header checksums do not refuse a datagram (`ipv4_header.cc:13-22` calls
  the checks important). `AcceptedAsSent` shows what the TCP checksum makes up for.
* The lossy adapter decides on a loss after the adapter below has read: a listener locks onto
  a SYN that its connection never sees (`lossy_fd_adapter.hh:43`).
* When two `connect()` calls cross, the bare SYN of the other side ends the wait of ours:
  SYN_SENT becomes SYN_RCVD (`tcp_connection.cc:55-59`), `connect()` waits only while the
  state is SYN_SENT (`tcp_sponge_socket.cc:224`), and it returns with its own SYN
  unacknowledged (`tcp_sponge_socket.hh:67`: "blocks until connect succeeds or fails").
  `OpenedMeansOpen` shows that this is the only such case, and `OutboundArrives` that what
  is written meanwhile still arrives.
* With `-l`, `tcp_ipv4` and `tcp_udp` bind "0" and read over the host
  (`tcp_ipv4.cc:124`, `tcp_udp.cc:98`); the usage text says "In server mode, <host>:<port> is
  the address to bind." (`tcp_ipv4.cc:25`, `tcp_udp.cc:24`). `CommandLineAsRead` states
  what the code does.
* A connection that is reset under `tcp_ipv4` or `tcp_udp` is an end of file to the copy.
  With no bytes left to write the program ends with `EXIT_SUCCESS`, whatever of the bytes
  before was not delivered; with bytes left, the write to the pair that the TCP thread has shut
  down (`tcp_sponge_socket.cc:260`) fails.
* `-Lu` and `-Ld` match every argument that begins so: `strncmp(..., 3)` compares one
  character less than for the other options.

### Bounds

* `M` is 8 or 16. Where it can be, the ISN is so close to `M` that sequence numbers
  wrap inside a run. Streams are shorter than `M / 2` where the code relies on it;
  `receiver_checkpoint` is the run that goes beyond. In `pair_live`, where either side's
  bare SYN can be repeated late, the ISNs keep the number 0 out of both streams: a bare SYN
  carries ackno 0, which SYN_RCVD would take for an acknowledgment (see above).
* Capacities of 1 to 5 with streams longer than the capacity, so that windows close,
  writes fit in part, and bytes are stored out of order.
* `MAX_PAYLOAD_SIZE` of 1 or 2 with windows up to 3: several segments in flight, and
  one acknowledgment for several segments or for part of one.
* `MAX_RETX_ATTEMPTS` is 1 or 3 in place of 8. `LINGER` is the factor 10 of the code, or 2 in
  `sponge_socket`, where no other timeout lies between the two.
* `MaxFaults` counts losses, repetitions and timeouts while segments are on their
  way. Reordering is free and unbounded: the network is a set.
* `MaxTimeout` and `MaxRetx` stop the back-off of the lone sender, which the
  connection bounds by giving up.

* `sponge_socket` has five scenarios (`MCPlans`), a pair of two bytes, and single-byte segments:
  `connect()` calls that cross or not, with a byte each way; `connect()` and
  `listen_and_accept()` with one fault, which meets every state of the handshake, the
  transfer and the close; two bytes out through a window of one, which closes and opens
  again; and three bytes in through a window of two, of which the pair takes
  one or two at a time. The scenarios with a fault have a window of one, so that the pair
  takes what the inbound stream offers at once, as a Linux socket pair that polls as
  writable does for the 64 KB of a stream: a reset after a partial write is the case
  listed above.
* `app`: a stream of three bytes, pipes of two, chunks of two, so that an input ends while
  bytes wait and a write is short; standard input is a file or a pipe, which hangs up. The
  words are one of each kind of option, a number, zero, and an option by prefix.
* `wire`: real widths throughout. Segments with SYN at the largest sequence number, an odd
  payload with zero bytes, FIN, and RST; a neighbour at the peer's address and a stranger with
  its port. An inverted bit of the IPv4 header length moves the start of the segment. For
  these payloads, of at most three bytes, it leaves less than a TCP header; with longer ones
  only a 16-bit sum would detect it.

Time: `tick()` is called on both ends with the same number of milliseconds. A tick
that changes nothing that a later step reads is left out (`TickMatters`).

### Fairness

`FairSpec` of `SpongeSocket` assumes weak fairness of the loop (a thread that the system
schedules, with a `poll()` that times out after 10 ms), of the remote side, which answers
and reads, and of the owner's `join()`. Nothing is assumed of the owner's other steps: it may
stop writing or reading at any time, and `Returns` holds all the same. It is
written with explicit guards (`LoopReady`, `PeerReady`, `JoinReady`) in place of `ENABLED`. `AppSpec` assumes that
the program is scheduled and that its outputs are read; its inputs may never end, and the
connection may be lost at any time.

`LiveSpec` assumes weak fairness of each application's steps and of the whole
system. The event loop serves every ready rule in each round and ticks every 10 ms
(`tcp_sponge_socket.cc:24-39`), so a ready rule is not put off for ever; the network
loses at most `MaxFaults` segments and delivers the others. `FairReassemblerSpec` assumes that the peer repeats the first missing byte, as a TCP sender
does, and that the application reads.

## 4. Proofs

All for every value of the constants, under the named assumptions
(`MAssumption`: the modulus is even and above 2; `ReassemblerAssumption` and
`ReceiverAssumption`: the stream and the capacity are shorter than `SIZE_MAX`;
`AddressAssumption`: hosts have distinct addresses; `PairAssumption`, `SenderAssumption`,
`SeqnoAssumption`, `StreamAssumption`, `CopyAssumption`, `AppAssumption`: the constants have
their types) and, where a theorem says so, one of three conditions:

* `OneTurn` (receiver) and `StreamsFit` (pair): a stream, its SYN and FIN included, is shorter
  than the sequence space, and a receiver holds at most half of the sequence space: 4 GB
  and 2 GB with the code's 2^32. They are needed: the checkpoint that `tcp_receiver.cc` gives to
  `unwrap()` is a number of stored bytes, not a position in the stream, and with a longer
  stream the receiver drops what it advertised (`receiver_checkpoint`).
* `ZeroIsNoAckno` (pair): to a side whose peer opens, and so may send a segment without ACK,
  zero is not one of its own sequence numbers after the ISN. It is needed:
  `segment_received()` uses the ackno field whether or not ACK is set, and a repeated bare
  SYN carries zero. With the largest ISN on a server, TLC finds `AcknowledgedIsReceived`
  violated by a SYN that is delivered twice. `StreamsAreIntact` does not need it.

The layers of the code are the layers of the proof. A lemma module says what each method
preserves, of one object, whatever its owner does with it; the state machine of a component
and the composition of several are then proved from the same lemmas.

* `StreamInOrder` and `StreamWithinCapacity`: `InOrder` and `StreamTypeOK` of `ByteStream`.
  Their conjunction is inductive as it stands; `BasicLemmas` says what each method returns.
* `UnwrapRoundTrip` and `UnwrapClosest`. `BasicLemmas` builds the little number theory
  they need: uniqueness of quotient and remainder, that two numbers wrap to the same
  value exactly when they differ by a multiple of `M`, and that `unwrap` returns one
  of these within half the range of the checkpoint, or above it when that is negative.
* `Refinement`: the list of pairs of `StreamReassembler` implements `InOrderStream`, the set
  of indices it stands for, for every capacity, stream and cut into substrings; and
  `OutputStaysInOrder`, `StoredStaysApart`, `StaysWithinCapacity` and `AlwaysEndsAtTheEnd`.
  All rest on the inductive invariant `Well`: the pairs carry the bytes of the stream, are
  disjoint and in order and end with the sentinel (`Chain`, `Sealed`), `unassembledBytes` is
  the number of indices they cover (`Covered`), and these lie in the window and leave a gap
  behind the output. The two loops are followed pair by pair:
  `PushInv` says that after k pairs the list rebuilt so far covers the first k old pairs
  and the part of the substring before the end of the k-th; `PopInv` that what was taken
  out and what is left make up the list. `PushFacts` and `PopAll` are what remains of them:
  the union with an interval, and the removal of the longest contiguous run. `Takes` states
  the effect of `push_substring()` on the set, which is the abstract `Receive`.
* `AcknowledgesOnlyWhatArrived`, `WindowIsMonotone` and `WindowIsKept`, for the receiver under
  `OneTurn`. The inductive invariant `Backed` ties the receiver to the
  history of arrivals: the SYN, every byte delivered or stored, and the FIN once the end is
  known, have been in some segment. `SegmentTaken` is the heart: `segment_received()` either
  ignores a segment or hands its payload to the reassembler at exactly the index the peer
  numbered it with, whatever the checkpoint, because the peer's stream fits in one
  turn. `WindowIsKept` adds that what falls inside the window falls inside the capacity.
* `SenderIsCorrect`: `FlightAccounting`, `UnackedIsKept`, `TimerArmed`,
  `RetransmitsTheStream`, `FinEndsTheStream` and `TypeOK` of the sender, from the
  inductive invariant `Inv`. It adds to them what the loops rely on: `Entry` and
  `InPlace` tie each outstanding segment to the stream index its key stands for, and
  `NonePast` says that nothing lies past the FIN. Each method is shown to preserve the
  invariant, with the highest accepted ackno as a parameter (`Good(a, r)`), and each loop by
  an induction on its variant: `fill_window()` on the room left in the
  window and `ack_received()` on the number of outstanding segments.
  `UnwrapOfWrap` is where sequence numbers enter: an acknowledgment less than half the
  sequence space old is read back exactly.
  `SenderTypeCorrect`, `FlightIsCounted`, `TimerIsArmed`, `RetransmissionIsFaithful` and
  `FinIsFinal` state its parts one by one.
* `SenderRespectsWindow`: `SendsWithinWindow` as an action property, from the same
  invariant and a bound on each turn of the loop.
* `StreamsAreIntact`, `AcknowledgedWasReceived` and `CleanEndsAreComplete`: the end-to-end
  properties of two connections, for any capacities, timeouts, payload sizes, numbers of
  faults and openers. The inductive invariant `PairWell` says of each side (`ConnState`) that
  its sender is sound (`SenderWell`); that its receiver is, and holds nothing that the other
  side has not written (`Within`); that it counts nothing as acknowledged that the other
  side has not received; and that a connection no longer active has failed or is complete.
  Of the network it says that every segment on its way is `Truthful`: a part of its sender's
  stream, with an ackno that its sender's receiver has reached. That is what survives
  loss, repetition and reordering, since both a stream and what is received of it only grow
  (`Grows`). Each operation of a connection has a lemma (`ConnectOutcome`,
  `WriteOutcome`, `EndOutcome`, `ReadOutcome`, `TickOutcome`, and `ArrivalOutcome` with one
  lemma per branch of `segment_received()`) that it leads to a sound state and to truthful
  segments against a peer that stands still; `Compose` puts the two sides together.
  `Settled`, that `fill_window()` leaves a FIN unsent only for want of room, is what makes
  "all streams finished" mean that the FIN is acknowledged.
* `PeerIsForGood`: `LockedForGood` of `Adapters`, for any hosts, addresses and segments, and
  whatever the parsers make of the bytes: `read()` leaves an adapter that does not listen
  unchanged, and the inductive invariant `HasPeer` says that one with a peer does not
  listen.
* `UDPOnlyThePeer`: over UDP, `OnlyThePeer` holds for any hosts with distinct addresses and
  whatever becomes of their datagrams, since the address that `recv()` reports is not part of
  the bytes. The inductive invariant `PeerOverUDP` says that a datagram carries its writer's
  address and goes to the server or to its peer, that an adapter that listens has heard and
  written nothing, and that one that does not has a host for its peer.
* `CopyThrowsOnlyIfLost`, `CopyCarriesAll`, `CommandLineReading` and `ProgramWaitsAtTheEnd`:
  the programs, for any buffer size, pipes and chunk, any number of bytes each way, a
  connection that may be lost at any point, and command lines of any length. The inductive
  invariant `AppInv` has four parts.
  `CopyInv` says of each direction of the copy that what is in the input, the
  stream and the output is one run of consecutive bytes (`Carries`) that ends in an orderly
  manner unless the connection is lost (`Orderly`), and of each rule that
  found its descriptor ready (`Watched`) that its call will still find a byte, room, or an end
  it has not seen, whatever the other side of the descriptor does between `poll()` and the
  call. Two points carry it: what makes a rule ready lasts until its own callback, because
  nobody else reads the same descriptor or fills the same stream; and a rule that asks for
  nothing is either at its end or waits for the other rule of its direction, so that the loop
  returns only when both directions are over (`NobodyAsked`). The loss of the connection
  breaks the first point for one rule only, the one that writes to the socket: its call is
  `Refused` if it has bytes, and that is the one way to throw in a callback
  (`SocketWriteRefused`). The fourth part, `ThrowsOnlyIfLost`, records it.
  `LineInv` says that the loop of `get_config()` has read the arguments so far as options in
  the one way in which they can be read (`ReadUpTo`, `OnlyReading`), and that the
  configuration is the one that this reading means (`ConfigAsRead`).
  `PastCopy` ties the program's position to the copy's.

The invariant `PairWell` was first checked with TLC on the constants of `pair_faults`, with
both sides opening, and with a sequence space of four.

What is only model-checked: `SpongeSocket`; of `Adapters`, what depends on the bytes
(`AcceptedAsSent`, `PeersUnderstandEachOther`, and `OnlyThePeer` over IPv4, where the
addresses are in the datagram: a 16-bit checksum tells the segments of an instance apart, not
all segments); and `NoSpuriousReset`, which the code does not satisfy. Three
things stay with TLC because the prover cannot do them: liveness under fairness and
`ENABLED`; induction over data with an operator as parameter, which is why
`BasicLemmas` states its induction with sets; and `RECURSIVE` operators, which
no module here uses.

## 5. Not modelled

* `webget` and `tcp_benchmark`: straight-line drivers, of a kernel socket and of two
  connections whose segments are exchanged in a fixed order; `TCPPair` has every order.
  `tun` and `udp_tcpdump` print packets.
* Name resolution, opening TUN devices, socket options, error classes, the hex dump and
  `to_string()` functions: calls of the operating system or text, without protocol state.
* Descriptors: duplicates and the reference count. Buffers: the sharing of storage between
  copies. Both are invisible to the operations modelled, since nothing writes to shared
  bytes and no descriptor is used after its last handle is gone.
* The counters that the busy-wait check compares are shared between the two threads of a
  socket when the owner runs an event loop of its own on it, as the programs do: the TCP
  thread's last `shutdown()` (`tcp_sponge_socket.cc:260`) counts a read and a write of the
  owner's descriptor. `SpongeSocket` and `StreamCopy` are not composed, and each counts
  only its own calls. What that `shutdown()` does to the pair is in both: `EndThread` of
  `SpongeSocket`, and `SocketShutDown` of `StreamCopy`, at any time.
* The window field cut to 16 bits for capacities above 65535 (`tcp_connection.cc:185`), which no
  configuration of the repository uses; option values of the programs.
* `POLLNVAL`, which makes the event loop throw: no closed descriptor is polled. `POLLERR` is
  modelled for the kernel socket of `tcp_native` (`SocketError`). The reader of standard output
  is assumed to stay.
* SIGPIPE, which nothing in the repository handles: where it is raised (a write to a socket
  that was shut down) the model has the exception that follows EPIPE. Either ends the program
  with a failure.

Proofs not attempted: the invariants of the socket. They would rest on those of the pair,
whose network and applications the socket replaces by its own, and on the connection's state
at every point of the event loop between two system calls.
