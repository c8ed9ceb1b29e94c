------------------------------ MODULE MCForge ------------------------------
(* Forge with a playbook run once over one TCP connection, one sent twice  *)
(* with the second click at any moment, a UDP playbook still bound to a    *)
(* TCP session, one bound to a forwarder's session, and one without host.  *)
EXTENDS Forge
Playbook(script, udp, host, bound, n, k, j) ==
    [script |-> script, udp |-> udp, host |-> host, bound |-> bound, clicks |-> n,
     ops |-> k, conns |-> j]
MCSetups == {Playbook(<<"c2s", "c2s">>, FALSE, TRUE, FALSE, 1, 1, 2),
             Playbook(<<"c2s">>, FALSE, TRUE, FALSE, 2, 0, 1),
             Playbook(<<"c2s", "bad">>, TRUE, TRUE, TRUE, 1, 2, 2),
             Playbook(<<"c2s", "s2c">>, FALSE, FALSE, TRUE, 2, 1, 1)}
=============================================================================
