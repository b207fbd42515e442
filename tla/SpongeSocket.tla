---------------------------- MODULE SpongeSocket ----------------------------
(***************************************************************************)
(* TCPSpongeSocket (libsponge/tcp_helpers/tcp_sponge_socket.{hh,cc}): a    *)
(* TCPConnection driven by an event loop with four rules, first inside     *)
(* connect() or listen_and_accept(), then in a thread of its own, while    *)
(* the owner uses the other end of a socket pair.  The owner, the loop,    *)
(* the remote connection and the clock interleave between any two system   *)
(* calls of the loop: between poll() and each of the callbacks it calls.   *)
(*                                                                         *)
(* The byte at index i of each stream is i.                                *)
(***************************************************************************)
EXTENDS TCPState

CONSTANTS Cfg, PeerCfg, \* the TCPConfig of the socket and of the remote side
          PAIR_CAPACITY,\* the bytes the socket pair holds in each direction
          Plans         \* bound: the scenarios, one of which is chosen at the start

\* A scenario: how the socket is opened, the bytes the owner and the remote application
\* write, the capacity of both receivers, and the number of losses, early timeouts,
\* resets and signals.
Plan == [role : {"connect", "listen"}, ownerBytes : Nat, peerBytes : Nat,
         window : Nat \ {0}, maxFaults : Nat]

ASSUME PlansAssumption == Plans \subseteq Plan

VARIABLES sock,    \* the members of TCPSpongeSocket that the loop uses
          pair,    \* the socket pair: bytes and shutdowns in each direction
          net,     \* the segments on their way, in order
          loop,    \* where the event loop is, and the scenario
          owner,   \* the owner of the socket
          peer,    \* the remote TCPConnection, the bytes read from it, and whether it
                   \* connected
          faults

vars == <<sock, pair, net, loop, owner, peer, faults>>

\* What the callbacks of the rules read and change.
World == [sock |-> sock, pair |-> pair, net |-> net]

FaultsLeft == faults < loop.plan.maxFaults
-----------------------------------------------------------------------------
(***************************************************************************)
(* The rules of _initialize_TCP(), in the order they are added.            *)
(***************************************************************************)
FromNet == 1    \* datagram adapter, In
FromPipe == 2   \* _thread_data, In
ToPipe == 3     \* _thread_data, Out
ToNet == 4      \* datagram adapter, Out

ReadsFd(r) == r \in {FromNet, FromPipe}
RuleEof(r, w) == r = FromPipe /\ w.sock.eof
RuleClosed(r, w) == FALSE

\* Mutants: the end of the inbound stream is passed on again and again; segments are
\* sent only while the connection is active.
RuleInterest_EndsForever(r, w) ==
    LET tcp == w.sock.tcp
        in == Inbound(tcp)
    IN  \/ r = FromNet /\ tcp.active
        \/ /\ r = FromPipe
           /\ tcp.active /\ ~w.sock.outbound_shutdown
           /\ RemainingCapacity(Outbound(tcp)) > 0
        \/ r = ToPipe /\ (in.buff # <<>> \/ StreamEof(in) \/ in.error)
        \/ r = ToNet /\ tcp.segments_out # <<>>

RuleInterest_ActiveOnly(r, w) ==
    LET tcp == w.sock.tcp
        in == Inbound(tcp)
    IN  \/ r = FromNet /\ tcp.active
        \/ /\ r = FromPipe
           /\ tcp.active /\ ~w.sock.outbound_shutdown
           /\ RemainingCapacity(Outbound(tcp)) > 0
        \/ /\ r = ToPipe
           /\ in.buff # <<>> \/ ((StreamEof(in) \/ in.error) /\ ~w.sock.inbound_shutdown)
        \/ r = ToNet /\ tcp.active /\ tcp.segments_out # <<>>

RuleInterest(r, w) ==
    LET tcp == w.sock.tcp
        in == Inbound(tcp)
    IN  \/ r = FromNet /\ tcp.active
        \/ /\ r = FromPipe
           /\ tcp.active /\ ~w.sock.outbound_shutdown
           /\ RemainingCapacity(Outbound(tcp)) > 0
        \/ /\ r = ToPipe
           /\ in.buff # <<>> \/ ((StreamEof(in) \/ in.error) /\ ~w.sock.inbound_shutdown)
        \/ r = ToNet /\ tcp.segments_out # <<>>

\* A callback that read or wrote its descriptor.
Served(w) == [world |-> w, serviced |-> TRUE, thrown |-> FALSE]
Thrown(w) == [world |-> w, serviced |-> TRUE, thrown |-> TRUE]

\* Mutant: a datagram that is to be dropped is not read.
ReadNet_DropsUnread(w, n) ==
    IF n = 0 THEN [world |-> w, serviced |-> FALSE, thrown |-> FALSE]
    ELSE Served([w EXCEPT !.net.toSock = Tail(@),
                          !.sock.tcp = ConnSegmentReceived(@, Head(w.net.toSock))])

\* Rule 1: the adapter returns no segment when it drops the datagram (n = 0).
ReadNet(w, n) ==
    Served([w EXCEPT !.net.toSock = Tail(@),
                     !.sock.tcp = IF n = 0 THEN @
                                  ELSE ConnSegmentReceived(@, Head(w.net.toSock))])

EndOutbound(w) == [w EXCEPT !.sock.tcp = ConnEndInputStream(@),
                            !.sock.outbound_shutdown = TRUE]

\* Mutant: a read that returns less than the limit is taken for the end.
ReadPipe_ShortReadEnds(w) ==
    LET limit == RemainingCapacity(Outbound(w.sock.tcp))
        n == Lesser(limit, Len(w.pair.up))
        data == SubSeq(w.pair.up, 1, n)
        d == [w EXCEPT !.pair.up = SubSeq(@, n + 1, Len(@)),
                       !.sock.eof = @ \/ n < limit,
                       !.sock.tcp = ConnWrite(@, data)]
    IN  Served(IF d.sock.eof THEN EndOutbound(d) ELSE d)

\* FileDescriptor::read(): at most limit bytes; none of a limit above zero is the end.
\* A read that would block throws.
ReadPipe(w) ==
    LET limit == RemainingCapacity(Outbound(w.sock.tcp))
        n == Lesser(limit, Len(w.pair.up))
        data == SubSeq(w.pair.up, 1, n)
        d == [w EXCEPT !.pair.up = SubSeq(@, n + 1, Len(@)),
                       !.sock.eof = @ \/ (limit > 0 /\ n = 0),
                       !.sock.tcp = ConnWrite(@, data)]
    IN  IF \/ w.pair.up = <<>> /\ ~w.pair.upEnd
           \/ Accepted(Outbound(w.sock.tcp), data) # data
        THEN Thrown(w)
        ELSE Served(IF d.sock.eof THEN EndOutbound(d) ELSE d)

\* Mutant: what the pipe took is not popped.
WritePipe_ForgetsPop(w, n) ==
    LET in == Inbound(w.sock.tcp)
        ends == StreamEof(in) \/ in.error
    IN  Served([w EXCEPT !.pair.down = @ \o SubSeq(in.buff, 1, n),
                         !.pair.downEnd = @ \/ ends,
                         !.sock.inbound_shutdown = @ \/ ends])

\* Rule 3: the pipe takes n bytes of those offered; a write on a pipe that was shut
\* down fails (EPIPE).
WritePipe(w, n) ==
    LET in == Inbound(w.sock.tcp)
        d == [w EXCEPT !.pair.down = @ \o SubSeq(in.buff, 1, n),
                       !.sock.tcp.receiver.reassembler.output = PopOutput(@, n)]
        ends == StreamEof(Inbound(d.sock.tcp)) \/ in.error
    IN  IF in.buff # <<>> /\ w.pair.downEnd THEN Thrown(w)
        ELSE Served([d EXCEPT !.pair.downEnd = @ \/ ends,
                              !.sock.inbound_shutdown = @ \/ ends])

\* Rule 4.
WriteNet(w) ==
    Served([w EXCEPT !.net.toPeer = @ \o w.sock.tcp.segments_out,
                     !.sock.tcp.segments_out = <<>>])

RuleCallback(r, w, n) ==
    CASE r = FromNet  -> ReadNet(w, n)
      [] r = FromPipe -> ReadPipe(w)
      [] r = ToPipe   -> WritePipe(w, n)
      [] r = ToNet    -> WriteNet(w)

RuleCancel(r, w) == IF r = FromPipe THEN EndOutbound(w) ELSE w

EventLoop == INSTANCE EventLoopOps WITH
    Reads <- ReadsFd, FdEof <- RuleEof, FdClosed <- RuleClosed,
    Interest <- RuleInterest, Cancel <- RuleCancel
-----------------------------------------------------------------------------
(***************************************************************************)
(* poll() on the socket pair and the datagram socket.                      *)
(***************************************************************************)
PollReady(r) ==
    \/ r = FromNet /\ net.toSock # <<>>
    \/ r = FromPipe /\ (pair.up # <<>> \/ pair.upEnd)
    \/ r = ToPipe /\ Len(pair.down) < PAIR_CAPACITY
    \/ r = ToNet

\* The end of the pair the loop holds hangs up once both directions are shut down.
PollHup(r) == r \in {FromPipe, ToPipe} /\ pair.upEnd /\ pair.downEnd

\* What the kernel may decide in the callback of r: whether the adapter drops the
\* datagram, how many of the bytes offered the pipe takes.
KernelChoices(r) ==
    CASE r = FromNet -> IF FaultsLeft THEN {0, 1} ELSE {1}
      [] r = ToPipe  ->
            LET most == Lesser(BufferSize(Inbound(sock.tcp)), PAIR_CAPACITY - Len(pair.down))
            IN  IF BufferSize(Inbound(sock.tcp)) = 0 THEN {0} ELSE 1 .. most
      [] OTHER       -> {0}
-----------------------------------------------------------------------------
Init ==
    \E plan \in Plans :
        /\ sock = [tcp |-> NewTCPConnection([Cfg EXCEPT !.recv_capacity = plan.window]),
                   eof |-> FALSE,
                   outbound_shutdown |-> FALSE, inbound_shutdown |-> FALSE]
        /\ pair = [up |-> <<>>, down |-> <<>>, upEnd |-> FALSE, downEnd |-> FALSE]
        /\ net = [toSock |-> <<>>, toPeer |-> <<>>]
        /\ loop = [pc |-> "new", plan |-> plan, rules |-> 1 .. 4,
                   todo |-> {}, hung |-> {}, signalled |-> FALSE]
        /\ owner = [pc |-> "opening", wrote |-> 0, read |-> 0, eof |-> FALSE]
        /\ peer = [tcp |-> NewTCPConnection([PeerCfg EXCEPT !.recv_capacity = plan.window]),
                   got |-> <<>>, connected |-> FALSE]
        /\ faults = 0

ApplyWorld(w) == sock' = w.sock /\ pair' = w.pair /\ net' = w.net

Goto(pc) == loop' = [loop EXCEPT !.pc = pc]

\* connect() and listen_and_accept() up to their loops.
Open ==
    /\ loop.pc = "new"
    /\ LET tcp == ConnConnect(sock.tcp)
       IN  IF loop.plan.role = "listen" THEN Goto("wait") /\ UNCHANGED sock
           ELSE /\ Goto(IF StateOf(tcp) = Official.SYN_SENT THEN "wait" ELSE "thrown")
                /\ sock' = [sock EXCEPT !.tcp = tcp]
    /\ UNCHANGED <<pair, net, owner, peer, faults>>

\* Mutant: listen_and_accept() returns as soon as a SYN has arrived.
Condition_NotSynRcvd ==
    IF owner.pc # "opening" THEN TRUE
    ELSE IF loop.plan.role = "connect" THEN StateOf(sock.tcp) = Official.SYN_SENT
    ELSE StateOf(sock.tcp) \in {Official.LISTEN, Official.SYN_SENT}

\* The condition under which _tcp_loop() goes on.
Condition ==
    IF owner.pc # "opening" THEN TRUE
    ELSE IF loop.plan.role = "connect" THEN StateOf(sock.tcp) = Official.SYN_SENT
    ELSE StateOf(sock.tcp) \in {Official.LISTEN, Official.SYN_RCVD, Official.SYN_SENT}

\* connect() and listen_and_accept() after their loop: the owner has its socket,
\* and the thread runs the loop from now on.
StartThread == /\ owner' = [owner EXCEPT !.pc = "using"]
               /\ UNCHANGED pair

\* _tcp_main() after its loop.  Its shutdown() is of the owner's end of the pair.
EndThread == /\ pair' = [pair EXCEPT !.upEnd = TRUE, !.downEnd = TRUE]
             /\ UNCHANGED owner

LeaveLoop(signal) ==
    /\ loop' = [loop EXCEPT !.pc = IF owner.pc = "opening" THEN "wait" ELSE "done",
                            !.signalled = @ \/ signal]
    /\ IF owner.pc = "opening" THEN StartThread ELSE EndThread

\* wait_next_event() up to poll(): it looks only at what the loop alone changes.
Asked == EventLoop!SetUp(loop.rules, World)

Opened == /\ loop.pc = "wait" /\ ~Condition
          /\ UNCHANGED <<sock, net, peer, faults>>
          /\ LeaveLoop(FALSE)

\* No rule is interested: Result::Exit.
Exit == /\ loop.pc = "wait" /\ Condition
        /\ UNCHANGED <<net, peer, faults>>
        /\ LET e == Asked IN e.asked = {} /\ sock' = e.world.sock
        /\ LeaveLoop(FALSE)

PollReturns ==
    LET e == Asked
        ready == {r \in e.asked : PollReady(r)}
        hup == {r \in e.asked : PollHup(r)}
    IN  /\ loop.pc = "wait" /\ Condition
        /\ UNCHANGED <<pair, net, owner, peer, faults>>
        /\ ready \cup hup # {}
        /\ sock' = e.world.sock
        /\ loop' = [loop EXCEPT !.pc = "serve", !.rules = e.rules,
                                !.todo = ready \cup hup, !.hung = hup \ ready]

\* One rule at a time: others act between poll() and the callbacks.
ServeRule ==
    \E r \in loop.todo : \E n \in KernelChoices(r) :
        LET c == RuleCallback(r, World, n)
            e == EventLoop!Serve(r, World, r \notin loop.hung, c)
        IN  /\ loop.pc = "serve" /\ EventLoop!IsFirst(r, loop.todo)
            /\ UNCHANGED <<owner, peer>>
            /\ ApplyWorld(e.world)
            /\ loop' = [loop EXCEPT !.todo = @ \ {r}, !.hung = @ \ {r},
                            !.rules = IF e.erased THEN @ \ {r} ELSE @,
                            !.pc = IF e.thrown THEN "thrown" ELSE @]
            /\ faults' = faults + Bit(r = FromNet /\ n = 0)

\* _tcp_loop() after wait_next_event(): the abort flag, then tick().
\* No time has passed when a rule was served.
AfterEvents ==
    /\ loop.pc = "serve" /\ loop.todo = {}
    /\ UNCHANGED <<net, peer, faults>>
    /\ IF owner.pc = "destroying" THEN LeaveLoop(FALSE) /\ UNCHANGED sock
       ELSE /\ sock' = [sock EXCEPT !.tcp = ConnTick(@, 0)]
            /\ Goto("wait")
            /\ UNCHANGED <<pair, owner>>

\* Mutant: tick() is called when a rule was served, not when poll() timed out.
Aged_NoTick(c) == c

\* tick() after a timeout; time that no later step reads is left out.
Aged(c) == ConnTick(c, Bit(TickMatters(c)))

\* The segments of the remote side go to the network at once.
PeerCall(c, toPeer) ==
    /\ peer' = [peer EXCEPT !.tcp = [c EXCEPT !.segments_out = <<>>]]
    /\ net' = [toSock |-> net.toSock \o c.segments_out, toPeer |-> toPeer]

\* Nothing becomes ready before the timeout of poll(), or nothing but the hangup of
\* a rule that was not asked for.  Time passes on both sides; while segments are on
\* their way, this is a fault.
PollTimeout ==
    LET early == net.toPeer # <<>>
        e == Asked
        w == e.world.sock
    IN  /\ loop.pc = "wait" /\ Condition
        /\ early => FaultsLeft
        /\ e.asked # {} /\ \A r \in e.asked : ~PollReady(r) /\ ~PollHup(r)
        /\ faults' = faults + Bit(early)
        /\ PeerCall(Aged(peer.tcp), net.toPeer)
        /\ IF owner.pc = "destroying" THEN LeaveLoop(FALSE) /\ sock' = w
           ELSE /\ sock' = [w EXCEPT !.tcp = Aged(@)]
                /\ loop' = [loop EXCEPT !.rules = e.rules]
                /\ UNCHANGED <<pair, owner>>

\* poll() is interrupted by a signal: Result::Exit.
PollInterrupted ==
    /\ loop.pc = "wait" /\ Condition /\ FaultsLeft
    /\ faults' = faults + 1
    /\ UNCHANGED <<net, peer>>
    /\ LET e == Asked IN e.asked # {} /\ sock' = e.world.sock
    /\ LeaveLoop(TRUE)
-----------------------------------------------------------------------------
(***************************************************************************)
(* The owner: write(), shutdown(SHUT_WR) and read() on its end of the      *)
(* pair, wait_until_closed() at the end of the inbound stream (the header  *)
(* advises against an earlier call), or destruction at any time.           *)
(***************************************************************************)
OwnerWrite == /\ owner.pc = "using" /\ ~pair.upEnd
              /\ owner.wrote < loop.plan.ownerBytes /\ Len(pair.up) < PAIR_CAPACITY
              /\ pair' = [pair EXCEPT !.up = Append(@, owner.wrote)]
              /\ owner' = [owner EXCEPT !.wrote = @ + 1]
              /\ UNCHANGED <<sock, net, loop, peer, faults>>

OwnerShutdown == /\ owner.pc = "using" /\ ~pair.upEnd
                 /\ pair' = [pair EXCEPT !.upEnd = TRUE]
                 /\ UNCHANGED <<sock, net, loop, owner, peer, faults>>

OwnerRead == /\ owner.pc = "using" /\ ~owner.eof
             /\ pair.down # <<>> \/ pair.downEnd
             /\ owner' = IF pair.down = <<>> THEN [owner EXCEPT !.eof = TRUE]
                         ELSE [owner EXCEPT !.read = @ + Len(pair.down)]
             /\ pair' = [pair EXCEPT !.down = <<>>]
             /\ UNCHANGED <<sock, net, loop, peer, faults>>

WaitUntilClosed == /\ owner.pc = "using" /\ owner.eof
                   /\ owner' = [owner EXCEPT !.pc = "waiting"]
                   /\ pair' = [pair EXCEPT !.upEnd = TRUE, !.downEnd = TRUE]
                   /\ UNCHANGED <<sock, net, loop, peer, faults>>

Destroy == /\ owner.pc = "using"
           /\ owner' = [owner EXCEPT !.pc = "destroying"]
           /\ UNCHANGED <<sock, pair, net, loop, peer, faults>>

JoinReady == owner.pc \in {"waiting", "destroying"} /\ loop.pc = "done"

Join == /\ JoinReady
        /\ owner' = [owner EXCEPT !.pc = "joined"]
        /\ UNCHANGED <<sock, pair, net, loop, peer, faults>>
-----------------------------------------------------------------------------
(***************************************************************************)
(* The remote side, which may also reset the connection.                   *)
(***************************************************************************)
PeerStays == UNCHANGED <<sock, pair, loop, owner>>

\* The remote side connects, which may cross our own connect().
PeerOpens ==
    LET c == ConnConnect(peer.tcp)
    IN  /\ PeerStays /\ UNCHANGED faults
        /\ InListen(peer.tcp)
        /\ peer' = [peer EXCEPT !.tcp = [c EXCEPT !.segments_out = <<>>], !.connected = TRUE]
        /\ net' = [net EXCEPT !.toSock = @ \o c.segments_out]

PeerSends == /\ PeerStays /\ UNCHANGED faults
             /\ peer.tcp.active /\ ~InListen(peer.tcp) /\ ~Outbound(peer.tcp).isInputEnd
             /\ IF Outbound(peer.tcp).totin = loop.plan.peerBytes
                THEN PeerCall(ConnEndInputStream(peer.tcp), net.toPeer)
                ELSE /\ RemainingCapacity(Outbound(peer.tcp)) > 0
                     /\ PeerCall(ConnWrite(peer.tcp, <<Outbound(peer.tcp).totin>>), net.toPeer)

\* The remote application reads what has arrived at once.
PeerReceives ==
    /\ PeerStays /\ UNCHANGED faults
    /\ net.toPeer # <<>>
    /\ LET c == ConnSegmentReceived(peer.tcp, Head(net.toPeer))
           read == [c EXCEPT !.receiver.reassembler.output = StreamRead(@, BufferSize(@)),
                             !.segments_out = <<>>]
       IN  /\ peer' = [peer EXCEPT !.tcp = read, !.got = @ \o Inbound(c).buff]
           /\ net' = [toSock |-> net.toSock \o c.segments_out, toPeer |-> Tail(net.toPeer)]

PeerResets == /\ peer.tcp.active /\ ~InListen(peer.tcp) /\ FaultsLeft
              /\ PeerCall(ResetConnection(peer.tcp), net.toPeer)
              /\ faults' = faults + 1
              /\ PeerStays

Lose == /\ net.toPeer # <<>> /\ FaultsLeft
        /\ net' = [net EXCEPT !.toPeer = Tail(@)]
        /\ faults' = faults + 1
        /\ PeerStays /\ UNCHANGED peer

LoopStep == \/ Open \/ Opened \/ Exit \/ PollReturns \/ ServeRule \/ AfterEvents
            \/ PollTimeout \/ PollInterrupted

OwnerStep == \/ OwnerWrite \/ OwnerShutdown \/ OwnerRead
             \/ WaitUntilClosed \/ Destroy \/ Join

PeerStep == PeerOpens \/ PeerSends \/ PeerReceives

Next == LoopStep \/ OwnerStep \/ PeerStep \/ PeerResets \/ Lose

Spec == Init /\ [][Next]_vars

\* When a step of the loop, or of the remote side, changes anything: ENABLED written
\* out, as JoinReady is for Join.
LoopReady ==
    LET e == Asked
        ready == {r \in e.asked : PollReady(r) \/ PollHup(r)}
    IN  \/ loop.pc \in {"new", "serve"}
        \/ /\ loop.pc = "wait"
           /\ \/ ~Condition \/ e.asked = {} \/ ready # {} \/ owner.pc = "destroying"
              \/ /\ net.toPeer = <<>> \/ FaultsLeft
                 /\ Aged(e.world.sock.tcp) # sock.tcp \/ Aged(peer.tcp) # peer.tcp

PeerReady ==
    \/ loop.plan.role = "listen" /\ InListen(peer.tcp)
    \/ net.toPeer # <<>>
    \/ /\ peer.tcp.active /\ ~InListen(peer.tcp) /\ ~Outbound(peer.tcp).isInputEnd
       /\ \/ Outbound(peer.tcp).totin = loop.plan.peerBytes
          \/ RemainingCapacity(Outbound(peer.tcp)) > 0

\* A LoopStep: no other step changes sock or loop, and PollTimeout alone may leave both
\* as they are.
LoopMoves == <<sock, loop>>' # <<sock, loop>> \/ PollTimeout

\* Weak fairness of the loop, whose thread is scheduled and whose poll() times out,
\* of the remote side, which answers and reads, and of the owner's join().
FairSpec == /\ Spec
            /\ []<>~LoopReady \/ []<><<LoopMoves>>_vars
            /\ []<>~PeerReady \/ []<><<PeerStep>>_vars
            /\ []<>~JoinReady \/ []<><<Join>>_vars
-----------------------------------------------------------------------------
\* The loop never throws: no busy wait, no read that would block, no write to a
\* pipe that is shut down, nothing refused by TCPConnection::write().  With faults, this
\* is for a pair that takes what the inbound stream offers at once.
NeverThrows == loop.pc # "thrown"

\* connect() and listen_and_accept() return when the handshake is over: our SYN is
\* acknowledged and the other side's has arrived, or the connection has failed, or a
\* signal ended the wait.  When two connect() calls cross, the bare SYN of the other
\* side ends the wait, and ours may not be acknowledged yet.
OpenedMeansOpen ==
    owner.pc # "opening" =>
        \/ /\ HasAckno(sock.tcp.receiver)
           /\ ~NothingAcked(sock.tcp) \/ (loop.plan.role = "connect" /\ peer.connected)
        \/ Inbound(sock.tcp).error
        \/ loop.signalled

\* The owner reads the bytes of the remote application in order, with none left
\* out or repeated between the inbound stream and the socket pair by a write that took
\* a part of what it was offered, and sees the end only at the end, on an error, or when
\* a signal stopped the thread.
OwnerReadsInbound ==
    LET in == Inbound(sock.tcp)
    IN  /\ \A i \in 1 .. Len(pair.down) : pair.down[i] = owner.read + i - 1
        /\ in.totout = owner.read + Len(pair.down)
        /\ owner.eof => \/ in.isInputEnd /\ owner.read = Outbound(peer.tcp).totin
                        \/ in.error
                        \/ loop.signalled

\* The remote application reads the owner's bytes in order, and meets a clean end only
\* after the owner ended its output, with every byte before it: a socket that is
\* destroyed or whose thread is stopped never passes for one that was shut down.
PeerReceivesOutbound ==
    /\ Len(peer.got) <= owner.wrote
    /\ \A i \in 1 .. Len(peer.got) : peer.got[i] = i - 1
    /\ Inbound(peer.tcp).isInputEnd => pair.upEnd /\ Len(peer.got) = owner.wrote

\* A thread that ends by itself leaves the connection in state CLOSED or RESET, with
\* every segment sent.
EndsClosedOrReset ==
    loop.pc = "done" /\ owner.pc \in {"using", "waiting"} /\ ~loop.signalled =>
        /\ StateOf(sock.tcp) \in {Official.CLOSED, Official.RESET}
        /\ sock.tcp.segments_out = <<>>

\* wait_until_closed() and the destructor return: the owner, who leaves them only by
\* joining the thread, is not stuck in either.
Returns == []<>(owner.pc \notin {"waiting", "destroying"})

\* What the owner wrote reaches the remote side, also when connect() returned before its
\* SYN was acknowledged, unless the owner destroys the socket, a signal stops the thread
\* or the connection fails.
OutboundArrives ==
    []<>(owner.wrote = loop.plan.ownerBytes =>
             \/ Len(peer.got) = owner.wrote
             \/ owner.pc \in {"destroying", "joined"}
             \/ Inbound(sock.tcp).error \/ Inbound(peer.tcp).error \/ loop.signalled)
=============================================================================
