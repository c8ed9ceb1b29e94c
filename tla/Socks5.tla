------------------------------- MODULE Socks5 -------------------------------
(***************************************************************************)
(* The server side of the SOCKS5 handshake as a function of the bytes the  *)
(* client sends: what is answered, which target is read, and how many      *)
(* bytes are taken from the stream that the relay goes on reading.         *)
(***************************************************************************)
EXTENDS Integers, Sequences, SequencesExt

(* A parse in progress: what is left to read, what was written back, and   *)
(* its outcome: "going", "short" (the client must send more), an error     *)
(* reply, or "done".                                                       *)
Begin(bytes) == [rest |-> bytes, sent |-> <<>>, out |-> "going", got |-> <<>>, user |-> <<>>,
                 host |-> <<>>, port |-> 0]
Going(p) == p.out = "going"
Stop(p, out) == [p EXCEPT !.out = out]

(* readexactly(n)                                                          *)
Read(p, n) ==
    IF ~Going(p) THEN p
    ELSE IF Len(p.rest) < n THEN Stop(p, "short")
    ELSE [p EXCEPT !.got = SubSeq(p.rest, 1, n), !.rest = SubSeq(p.rest, n + 1, Len(p.rest))]
ReadCounted(p) == LET q == Read(p, 1) IN IF Going(q) THEN Read(q, q.got[1]) ELSE q
Answer(p, bytes) == IF Going(p) THEN [p EXCEPT !.sent = @ \o bytes] ELSE p
Require(p, ok, out) == IF Going(p) /\ ~ok THEN Stop(p, out) ELSE p

(* The greeting, and the method the server insists on: 2 with credentials, *)
(* 0 without.  NoAuth says that none are configured.                       *)
NoAuth == [user |-> <<>>, pass |-> <<>>, on |-> FALSE]
\* Slip: the methods offered are left in the stream when auth is off.
GreetUnread(p, auth) ==
    LET h == Read(p, 2)
        v == Require(h, Going(h) /\ h.got[1] = 5, "general_failure")
        m == IF auth.on /\ Going(v) THEN Read(v, v.got[2]) ELSE v
    IN  Answer(m, <<5, IF auth.on THEN 2 ELSE 0>>)
Greet(p, auth) ==
    LET h == Read(p, 2)
        v == Require(h, Going(h) /\ h.got[1] = 5, "general_failure")
        m == IF Going(v) THEN Read(v, v.got[2]) ELSE v
        chosen == IF auth.on THEN 2 ELSE 0
        offered == Going(m) /\ chosen \in ToSet(m.got)
    IN  Require(Answer(m, IF offered THEN <<5, chosen>> ELSE <<5, 255>>), offered, "not_allowed")

(* User name and password.                                                 *)
UserPass(p, auth) ==
    LET h == Read(p, 1)
        v == Require(h, Going(h) /\ h.got[1] = 1, "not_allowed")
        u == ReadCounted(v)
        w == ReadCounted([u EXCEPT !.user = u.got])
        good == w.user = auth.user /\ w.got = auth.pass
    IN  IF ~auth.on THEN p
        ELSE Require(Answer(w, <<1, IF good THEN 0 ELSE 1>>), good, "not_allowed")

(* The request: only CONNECT, to an IPv4 or IPv6 address or a domain name. *)
Address(p, atyp) ==
    CASE atyp = 1 -> Read(p, 4)
      [] atyp = 4 -> Read(p, 16)
      [] atyp = 3 -> ReadCounted(p)
      [] OTHER -> Stop(p, "address_type")
Request(p) ==
    LET h == Read(p, 4)
        v == Require(h, Going(h) /\ h.got[1] = 5, "general_failure")
        c == Require(v, Going(v) /\ v.got[2] = 1, "command")
        a == IF Going(c) THEN Address(c, c.got[4]) ELSE c
        n == Read([a EXCEPT !.host = a.got], 2)
    IN  IF Going(n) THEN [n EXCEPT !.port = 256 * n.got[1] + n.got[2], !.out = "done"] ELSE n

Negotiate(bytes, auth) == Request(UserPass(Greet(Begin(bytes), auth), auth))

(* send_reply: the same address types, written.                            *)
AddressBytes(a) ==
    CASE a.type = 3 -> <<3, Len(a.host)>> \o a.host
      [] OTHER -> <<a.type>> \o a.host
EncodeAddress(a) == AddressBytes(a) \o <<a.port \div 256, a.port % 256>>
Reply(code, a) == <<5, code, 0>> \o EncodeAddress(a)

---------------------------------------------------------------------------
(* A client of RFC 1928 and RFC 1929: what it sends.                       *)
Client(methods, auth, cred, a) ==
    <<5, Len(methods)>> \o methods
    \o (IF auth.on THEN <<1, Len(cred.user)>> \o cred.user \o <<Len(cred.pass)>> \o cred.pass
        ELSE <<>>)
    \o <<5, 1, 0>> \o EncodeAddress(a)

(* Whoever speaks the protocol is understood, whatever the lengths of the  *)
(* names: the target is the one asked for, only the right credentials get  *)
(* that far, and of what the client sent early, the first bytes for the    *)
(* target, none are taken.  A client that has not sent everything is       *)
(* waited for, never refused.                                              *)
HandshakeIsExact(x) ==
    LET bytes == Client(x.methods, x.auth, x.cred, x.addr)
        p == Negotiate(bytes \o x.early, x.auth)
        wanted == IF x.auth.on THEN 2 ELSE 0
        right == wanted \in ToSet(x.methods)
                 /\ (x.auth.on => x.cred.user = x.auth.user /\ x.cred.pass = x.auth.pass)
    IN
    /\ right <=> p.out = "done"
    /\ right => p.host = x.addr.host /\ p.port = x.addr.port /\ p.rest = x.early
    /\ ~right => p.out = "not_allowed"
    /\ right => \A n \in 0 .. Len(bytes) - 1 : Negotiate(SubSeq(bytes, 1, n), x.auth).out = "short"
============================================================================
