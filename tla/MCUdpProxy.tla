------------------------------ MODULE MCUdpProxy -----------------------------
(* Two datagrams of one client that race to open its flow, one of another   *)
(* client, and an answer of the server.                                     *)
EXTENDS UdpProxy, TLC

CONSTANTS d1, d2, d3, r1, a1, a2

TwoDatagrams == {d1, d2}
ThreeDatagrams == {d1, d2, d3}
OneReply == {r1}
OneClient == {a1}
TwoClients == {a1, a2}
SameClient == [d \in {d1, d2} |-> a1]
RacingClients == SameClient @@ (d3 :> a2)
RaceSymmetry == Permutations({d1, d2})
==============================================================================
