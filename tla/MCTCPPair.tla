----------------------------- MODULE MCTCPPair ------------------------------
(***************************************************************************)
(* Instances of TCPPair: the client writes one byte.                       *)
(***************************************************************************)
EXTENDS TCPPair

CONSTANTS RecvCapacity,   \* capacity of both receivers
          ClientISN,      \* the initial sequence numbers
          ServerISN,
          ServerBytes     \* the bytes the server writes

MCCfg == [p \in Peers |->
            [send_capacity |-> 2, recv_capacity |-> RecvCapacity, rt_timeout |-> 2,
             isn |-> IF p = Client THEN ClientISN ELSE ServerISN]]

MCToSend == [p \in Peers |-> IF p = Client THEN 1 ELSE ServerBytes]
=============================================================================
