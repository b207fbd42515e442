------------------------------ MODULE TCPState ------------------------------
(***************************************************************************)
(* TCPState (libsponge/tcp_helpers/tcp_state.{hh,cc}): the summary of a    *)
(* connection that TCPSpongeSocket compares with the states of RFC 793.    *)
(* The summaries of sender and receiver are named by their constants.      *)
(***************************************************************************)
EXTENDS TCPConnectionOps

ReceiverSummary(v) ==
    IF StreamOut(v).error THEN "ERROR"
    ELSE IF ~HasAckno(v) THEN "LISTEN"
    ELSE IF StreamOut(v).isInputEnd THEN "FIN_RECV"
    ELSE "SYN_RECV"

SenderSummary(s) ==
    IF s.stream.error THEN "ERROR"
    ELSE IF s.next_seqno = 0 THEN "CLOSED"
    ELSE IF s.next_seqno = s.outgoing_bytes THEN "SYN_SENT"
    ELSE IF ~StreamEof(s.stream) THEN "SYN_ACKED"
    ELSE IF s.next_seqno < s.stream.totin + 2 THEN "SYN_ACKED"
    ELSE IF s.outgoing_bytes > 0 THEN "FIN_SENT"
    ELSE "FIN_ACKED"

\* The constructor drops the linger flag of an inactive connection, so that the
\* states of a dead connection compare equal.
Summary(sender, receiver, active, linger) ==
    [sender |-> sender, receiver |-> receiver, active |-> active,
     linger_after_streams_finish |-> active /\ linger]

StateOf(c) == Summary(SenderSummary(c.sender), ReceiverSummary(c.receiver),
                      c.active, c.linger_after_streams_finish)

\* The official states, as the constructor from a TCPState::State lists them.
Official ==
    [LISTEN      |-> Summary("CLOSED", "LISTEN", TRUE, TRUE),
     SYN_RCVD    |-> Summary("SYN_SENT", "SYN_RECV", TRUE, TRUE),
     SYN_SENT    |-> Summary("SYN_SENT", "LISTEN", TRUE, TRUE),
     ESTABLISHED |-> Summary("SYN_ACKED", "SYN_RECV", TRUE, TRUE),
     CLOSE_WAIT  |-> Summary("SYN_ACKED", "FIN_RECV", TRUE, FALSE),
     LAST_ACK    |-> Summary("FIN_SENT", "FIN_RECV", TRUE, FALSE),
     CLOSING     |-> Summary("FIN_SENT", "FIN_RECV", TRUE, TRUE),
     FIN_WAIT_1  |-> Summary("FIN_SENT", "SYN_RECV", TRUE, TRUE),
     FIN_WAIT_2  |-> Summary("FIN_ACKED", "SYN_RECV", TRUE, TRUE),
     TIME_WAIT   |-> Summary("FIN_ACKED", "FIN_RECV", TRUE, TRUE),
     RESET       |-> Summary("ERROR", "ERROR", FALSE, FALSE),
     CLOSED      |-> Summary("FIN_ACKED", "FIN_RECV", FALSE, FALSE)]
=============================================================================
