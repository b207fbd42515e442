--------------------------- MODULE MCSpongeSocket ---------------------------
(***************************************************************************)
(* Instances of SpongeSocket.                                              *)
(***************************************************************************)
EXTENDS SpongeSocket

MCCfg == [send_capacity |-> 2, recv_capacity |-> 1, rt_timeout |-> 1, isn |-> 12]
MCPeerCfg == [MCCfg EXCEPT !.isn = 3]

Scenario(role, ownerBytes, peerBytes, window, maxFaults) ==
    [role |-> role, ownerBytes |-> ownerBytes, peerBytes |-> peerBytes, window |-> window,
     maxFaults |-> maxFaults]

MCPlans == {Scenario("connect", 1, 1, 1, 0),   \* connect() calls that cross
            Scenario("connect", 0, 1, 1, 1),
            Scenario("listen", 1, 1, 1, 1),
            Scenario("listen", 2, 1, 1, 0),    \* windows that close and open again
            Scenario("listen", 0, 3, 2, 0)}    \* writes that the pair takes in part
=============================================================================
