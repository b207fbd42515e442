----------------------------- MODULE MCAdapters -----------------------------
(***************************************************************************)
(* An instance of Adapters for TLC.  The neighbour shares its address with *)
(* the peer, the stranger its port.                                        *)
(***************************************************************************)
EXTENDS Adapters

MCHosts == {"peer", "neighbour", "stranger"}

MCAddress ==
  [peer      |-> [ip |-> <<2704, 1>>, port |-> 5001],
   neighbour |-> [ip |-> <<2704, 1>>, port |-> 5002],
   stranger  |-> [ip |-> <<2704, 2>>, port |-> 5001],
   server    |-> [ip |-> <<2704, 9>>, port |-> 80]]

MCSegment(flags, seqno, ackno, payload) ==
  [header |-> [TCPHeaderDefault EXCEPT !.seqno = seqno, !.ackno = ackno,
                                       !.flags = flags, !.win = 64000],
   payload |-> payload]

\* A SYN, data of odd length with zeros in it, a FIN, and a reset.
MCSegments ==
  { MCSegment({"syn"}, <<65535, 65535>>, <<0, 0>>, <<>>),
    MCSegment({"ack"}, <<0, 0>>, <<17, 4>>, <<0, 200, 0>>),
    MCSegment({"ack", "fin"}, <<0, 3>>, <<17, 4>>, <<>>),
    MCSegment({"ack", "rst"}, <<0, 3>>, <<17, 4>>, <<>>) }
=============================================================================
