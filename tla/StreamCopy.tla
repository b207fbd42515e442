----------------------------- MODULE StreamCopy -----------------------------
(***************************************************************************)
(* bidirectional_stream_copy() (apps/bidirectional_stream_copy.cc): an     *)
(* event loop that copies standard input to a socket and the socket to     *)
(* standard output through two ByteStreams.  The other ends of the three   *)
(* descriptors act between poll() and each of the callbacks it leads to.   *)
(*                                                                         *)
(* The byte at index i of each stream is i.                                *)
(***************************************************************************)
EXTENDS ByteStreamOps

CONSTANTS BUFFER_SIZE,       \* capacity of the two byte streams
          MAX_COPY_LENGTH,   \* most bytes offered to one write
          KERNEL_BUFFER,     \* bytes a descriptor holds for its reader
          InputBytes,        \* bound: the bytes on standard input
          RemoteBytes,       \* bound: the bytes the other end of the socket sends
          MaxSignals         \* bound: the signals that interrupt poll()

ASSUME CopyAssumption ==
    /\ BUFFER_SIZE \in Nat \ {0} /\ MAX_COPY_LENGTH \in Nat \ {0}
    /\ KERNEL_BUFFER \in Nat \ {0} /\ MaxSignals \in Nat

VARIABLES copy,    \* the local variables of the function
          fds,     \* the descriptors: bytes in the kernel, end, and the wrapper's flags
          copyloop,\* where the event loop is
          env      \* the other ends: bytes given and taken so far, signals, connection lost

copyVars == <<copy, fds, copyloop, env>>

\* What the callbacks of the rules read and change.
CopyWorld == [copy |-> copy, fds |-> fds]
-----------------------------------------------------------------------------
(***************************************************************************)
(* The rules, in the order they are added.                                 *)
(***************************************************************************)
FromInput == 1    \* standard input, In
ToSocket == 2     \* socket, Out
FromSocket == 3   \* socket, In
ToOutput == 4     \* standard output, Out

\* The descriptor side and the stream of a rule.
FdOf == <<"stdin", "socketOut", "socketIn", "stdout">>
StreamOf == <<"outbound", "outbound", "inbound", "inbound">>
DoneFlag == <<"none", "outbound_shutdown", "none", "inbound_shutdown">>

CopyReads(r) == r \in {FromInput, FromSocket}
CopyEof(r, w) == CopyReads(r) /\ w.fds[FdOf[r]].eof

\* Only standard output is closed.
CopyClosed(r, w) == r = ToOutput /\ w.fds.stdout.shut

\* Mutant: the end of a stream is not of interest when nothing is left in it.
CopyInterest_OnlyBytes(r, w) ==
    LET stream == w.copy[StreamOf[r]]
    IN  IF CopyReads(r)
        THEN /\ ~w.copy.outbound.error /\ ~w.copy.inbound.error
             /\ RemainingCapacity(stream) > 0
        ELSE stream.buff # <<>>

CopyInterest(r, w) ==
    LET stream == w.copy[StreamOf[r]]
    IN  IF CopyReads(r)
        THEN /\ ~w.copy.outbound.error /\ ~w.copy.inbound.error
             /\ RemainingCapacity(stream) > 0
        ELSE stream.buff # <<>> \/ (StreamEof(stream) /\ ~w.copy[DoneFlag[r]])

CopyServed(w) == [world |-> w, serviced |-> TRUE, thrown |-> FALSE]
CopyThrown(w) == [world |-> w, serviced |-> TRUE, thrown |-> TRUE]

\* Rules 1 and 3: FileDescriptor::read() of what the stream has room for; no bytes of
\* a limit above zero are the end.  A read that would block throws.
CopyIn(r, w) ==
    LET fd == w.fds[FdOf[r]]
        limit == RemainingCapacity(w.copy[StreamOf[r]])
        n == Lesser(limit, Len(fd.data))
        eof == fd.eof \/ (limit > 0 /\ n = 0)
        stream == StreamWrite(w.copy[StreamOf[r]], SubSeq(fd.data, 1, n))
    IN  IF fd.data = <<>> /\ ~fd.shut THEN CopyThrown(w)
        ELSE CopyServed(
               [copy |-> [w.copy EXCEPT ![StreamOf[r]] = IF eof THEN EndInput(stream) ELSE stream],
                fds |-> [w.fds EXCEPT ![FdOf[r]].data = SubSeq(@, n + 1, Len(@)),
                                      ![FdOf[r]].eof = eof]])

\* Mutant: nothing is written before there is a full chunk.
CopyOut_WaitsForMore(r, w, n) ==
    LET fd == w.fds[FdOf[r]]
        before == w.copy[StreamOf[r]]
        stream == PopOutput(before, n)
        ends == StreamEof(stream)
    IN  IF BufferSize(before) < MAX_COPY_LENGTH /\ ~before.isInputEnd
        THEN [CopyServed(w) EXCEPT !.serviced = FALSE]
        ELSE CopyServed(
               [copy |-> [w.copy EXCEPT ![StreamOf[r]] = stream, ![DoneFlag[r]] = @ \/ ends],
                fds |-> [w.fds EXCEPT ![FdOf[r]].data = @ \o SubSeq(before.buff, 1, n),
                                      ![FdOf[r]].shut = @ \/ ends]])

\* Mutant: all that was offered is taken out of the stream, not what was written.
CopyOut_PopsAll(r, w, n) ==
    LET fd == w.fds[FdOf[r]]
        before == w.copy[StreamOf[r]]
        stream == PopOutput(before, MAX_COPY_LENGTH)
        ends == StreamEof(stream)
    IN  IF before.buff # <<>> /\ fd.shut THEN CopyThrown(w)
        ELSE CopyServed(
               [copy |-> [w.copy EXCEPT ![StreamOf[r]] = stream, ![DoneFlag[r]] = @ \/ ends],
                fds |-> [w.fds EXCEPT ![FdOf[r]].data = @ \o SubSeq(before.buff, 1, n),
                                      ![FdOf[r]].shut = @ \/ ends]])

\* Rules 2 and 4: n bytes are accepted; at the end the socket is shut down for
\* writing, or the output closed.  A write of bytes to a socket that is shut down ends
\* the program: by SIGPIPE, which it does not handle, or by the exception for EPIPE.
CopyOut(r, w, n) ==
    LET fd == w.fds[FdOf[r]]
        before == w.copy[StreamOf[r]]
        stream == PopOutput(before, n)
        ends == StreamEof(stream)
    IN  IF before.buff # <<>> /\ fd.shut THEN CopyThrown(w)
        ELSE CopyServed(
               [copy |-> [w.copy EXCEPT ![StreamOf[r]] = stream, ![DoneFlag[r]] = @ \/ ends],
                fds |-> [w.fds EXCEPT ![FdOf[r]].data = @ \o SubSeq(before.buff, 1, n),
                                      ![FdOf[r]].shut = @ \/ ends]])

CopyCallback(r, w, n) == IF CopyReads(r) THEN CopyIn(r, w) ELSE CopyOut(r, w, n)

CopyCancel(r, w) == [w EXCEPT !.copy[StreamOf[r]] = EndInput(@)]

CopyEvents == INSTANCE EventLoopOps WITH
    Reads <- CopyReads, FdEof <- CopyEof, FdClosed <- CopyClosed,
    Interest <- CopyInterest, Cancel <- CopyCancel
-----------------------------------------------------------------------------
(***************************************************************************)
(* poll() and write() in the kernel.  Standard input is a file, which is   *)
(* readable at its end, or a pipe, which only hangs up.                    *)
(***************************************************************************)
Readable(r) ==
    LET fd == fds[FdOf[r]]
    IN  fd.data # <<>> \/ (fd.shut /\ ~(r = FromInput /\ env.pipe))

CopyReady(r) ==
    IF CopyReads(r) THEN Readable(r) ELSE Len(fds[FdOf[r]].data) < KERNEL_BUFFER

CopyHup(r) ==
    \/ r = FromInput /\ env.pipe /\ fds.stdin.shut
    \/ r \in {ToSocket, FromSocket} /\ fds.socketIn.shut /\ fds.socketOut.shut

BytesTaken(r) ==
    LET offered == Lesser(MAX_COPY_LENGTH, BufferSize(copy[StreamOf[r]]))
    IN  IF CopyReads(r) \/ offered = 0 \/ r \in copyloop.hung THEN {0}
        ELSE 1 .. Lesser(offered, KERNEL_BUFFER - Len(fds[FdOf[r]].data))
-----------------------------------------------------------------------------
Descriptor == [data |-> <<>>, shut |-> FALSE, eof |-> FALSE]

CopyInit(pipe) ==
    /\ copy = [outbound |-> NewByteStream(BUFFER_SIZE), inbound |-> NewByteStream(BUFFER_SIZE),
               outbound_shutdown |-> FALSE, inbound_shutdown |-> FALSE, none |-> FALSE]
    /\ fds = [f \in {"stdin", "socketOut", "socketIn", "stdout"} |-> Descriptor]
    /\ copyloop = [pc |-> "wait", rules |-> 1 .. 4, todo |-> {}, hung |-> {}]
    /\ env = [pipe |-> pipe, typed |-> 0, sent |-> 0, taken |-> 0, shown |-> 0, signals |-> 0,
              lost |-> FALSE]

\* wait_next_event() up to poll(): it looks only at what the loop alone changes.
CopyAsked == CopyEvents!SetUp(copyloop.rules, CopyWorld)

CopyReturns ==
    /\ copyloop.pc = "wait"
    /\ \E e \in {CopyAsked} : e.asked = {} /\ copy' = e.world.copy
    /\ copyloop' = [copyloop EXCEPT !.pc = "returned"]
    /\ UNCHANGED <<fds, env>>

CopyPolls ==
    /\ copyloop.pc = "wait"
    /\ \E e \in {CopyAsked} :
         LET ready == {r \in e.asked : CopyReady(r)}
             hung == {r \in e.asked \ ready : CopyHup(r)}
         IN  /\ ready \cup hung # {}
             /\ copy' = e.world.copy
             /\ copyloop' = [pc |-> "serve", rules |-> e.rules, hung |-> hung,
                             todo |-> ready \cup hung]
    /\ UNCHANGED <<fds, env>>

\* Rule r was called or cancelled, with outcome e.
CopyCalled(r, e) ==
    /\ copy' = e.world.copy /\ fds' = e.world.fds
    /\ copyloop' = [pc |-> IF e.thrown THEN "thrown"
                           ELSE IF copyloop.todo = {r} THEN "wait" ELSE "serve",
                    todo |-> copyloop.todo \ {r}, hung |-> copyloop.hung \ {r},
                    rules |-> IF e.erased THEN copyloop.rules \ {r} ELSE copyloop.rules]

CopyServes ==
    /\ copyloop.pc = "serve"
    /\ \E r \in copyloop.todo : \E n \in BytesTaken(r) :
         /\ CopyEvents!IsFirst(r, copyloop.todo)
         /\ CopyCalled(r, CopyEvents!Serve(r, CopyWorld, r \notin copyloop.hung,
                                           CopyCallback(r, CopyWorld, n)))
    /\ UNCHANGED env

\* poll() is interrupted: Result::Exit.
CopyInterrupted ==
    /\ copyloop.pc = "wait" /\ env.signals < MaxSignals
    /\ \E e \in {CopyAsked} : e.asked # {} /\ copy' = e.world.copy
    /\ env' = [env EXCEPT !.signals = @ + 1]
    /\ copyloop' = [copyloop EXCEPT !.pc = "returned"]
    /\ UNCHANGED fds

CopyLoop == CopyReturns \/ CopyPolls \/ CopyServes
-----------------------------------------------------------------------------
(***************************************************************************)
(* The other ends: whoever types, the reader of standard output, which     *)
(* stays, and the other end of the socket, which ends its output and may   *)
(* lose the connection.                                                    *)
(***************************************************************************)
Gives(f, count, most) ==
    /\ ~fds[f].shut /\ env[count] < most /\ Len(fds[f].data) < KERNEL_BUFFER
    /\ fds' = [fds EXCEPT ![f].data = Append(@, env[count])]
    /\ env' = [env EXCEPT ![count] = @ + 1]
    /\ UNCHANGED <<copy, copyloop>>

Ends(f) == /\ ~fds[f].shut
           /\ fds' = [fds EXCEPT ![f].shut = TRUE]
           /\ UNCHANGED <<copy, copyloop, env>>

Takes(f, count) ==
    /\ fds[f].data # <<>>
    /\ fds' = [fds EXCEPT ![f].data = <<>>]
    /\ env' = [env EXCEPT ![count] = @ + Len(fds[f].data)]
    /\ UNCHANGED <<copy, copyloop>>

CopyInputs == \/ Gives("stdin", "typed", InputBytes) \/ Ends("stdin")
              \/ Gives("socketIn", "sent", RemoteBytes) \/ Ends("socketIn")

\* A TCPSpongeSocket's thread that ends before the socket was shut down for writing (a
\* reset, a peer given up) does shutdown(SHUT_RDWR) on the owner's end of the pair.
SocketShutDown == /\ ~fds.socketOut.shut
                  /\ fds' = [fds EXCEPT !.socketIn.shut = TRUE, !.socketOut.shut = TRUE]
                  /\ env' = [env EXCEPT !.lost = TRUE]
                  /\ UNCHANGED <<copy, copyloop>>

\* The connection of a kernel's socket is reset: poll() reports POLLERR for a rule that
\* is left on it, whether or not it was asked for, and wait_next_event() throws.
SocketError ==
    /\ copyloop.pc = "wait"
    /\ \E e \in {CopyAsked} : /\ e.asked # {} /\ e.rules \cap {ToSocket, FromSocket} # {}
                              /\ copy' = e.world.copy
    /\ env' = [env EXCEPT !.lost = TRUE]
    /\ copyloop' = [copyloop EXCEPT !.pc = "thrown"]
    /\ UNCHANGED fds

\* Nobody takes bytes from the pair once its thread has ended.
CopyOutputs == \/ ~env.lost /\ Takes("socketOut", "taken")
               \/ Takes("stdout", "shown")
-----------------------------------------------------------------------------
\* A byte is in one place: read from one descriptor, it waits in the stream or was
\* written to the other, in order; and that one is shut down or closed only at the end
\* of the first, with every byte written, or because the connection is lost.
CopiesAll ==
    \A c \in {<<"stdin", "typed", "outbound", "socketOut", "taken">>,
              <<"socketIn", "sent", "inbound", "stdout", "shown">>} :
        LET path == fds[c[4]].data \o copy[c[3]].buff \o fds[c[1]].data
        IN  /\ env[c[5]] + Len(path) = env[c[2]]
            /\ \A i \in 1 .. Len(path) : path[i] = env[c[5]] + i - 1
            /\ fds[c[4]].shut /\ ~(c[4] = "socketOut" /\ env.lost) =>
                  fds[c[1]].shut /\ copy[c[3]].buff \o fds[c[1]].data = <<>>
=============================================================================
