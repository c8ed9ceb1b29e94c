---------------------------- MODULE MCProxyEngine ----------------------------
(* Two TCP connections that race for one forwarder's limit, and a SOCKS5    *)
(* forwarder beside it that shares the registry and the tamper controller.  *)
EXTENDS ProxyEngine, TLC

CONSTANTS c1, c2, c3, f1, f2

TwoConns == {c1, c2}
ThreeConns == {c1, c2, c3}
Forwarders == {f1, f2}
OneEach == (c1 :> f1) @@ (c2 :> f2)
TwoAndOne == OneEach @@ (c3 :> f1)
BothSecond == (c1 :> f2) @@ (c2 :> f2)
TcpAndSocks == (f1 :> "tcp") @@ (f2 :> "socks5")
LimitOne == (f1 :> 1) @@ (f2 :> 1)
Unlimited == (f1 :> 0) @@ (f2 :> 0)
TcpSymmetry == Permutations({c1, c3})
==============================================================================
