------------------------------- MODULE Forge -------------------------------
(***************************************************************************)
(* The persistent connections of ForgeEngine, the playbook runs that send  *)
(* over them, and the Forge tab that starts and cancels the runs.          *)
(*                                                                         *)
(* A connection has a background reader that moves chunks from the socket  *)
(* to a queue; senders take chunks from the queue.  Either side, or the    *)
(* operator, may close it.  A worker is one click on Run or Send: a task   *)
(* that goes through the frames of the playbook; the next click cancels it *)
(* (run_worker(exclusive=True)).                                           *)
(***************************************************************************)
EXTENDS Naturals, Sequences, FiniteSets

CONSTANTS
    MaxConns,     \* bound: forge connections opened in a behaviour
    MaxClicks,    \* bound: clicks on Run or Send, over all setups
    Setups        \* playbooks: frame kinds, transport, host, whether bound to a
                  \* forwarder's session, and the bounds on clicks, on
                  \* connections, and on sessions the operator ends

ASSUME ForgeAssumption ==
    /\ MaxConns \in Nat /\ MaxClicks \in Nat
    /\ \A s \in Setups : /\ s.script \in Seq({"c2s", "s2c", "bad"}) \ {<<>>}
                        /\ {s.udp, s.host, s.bound} \subseteq BOOLEAN
                        /\ s.clicks \in 1 .. MaxClicks /\ s.ops \in Nat
                        /\ s.conns \in 1 .. MaxConns

Conns == 1 .. MaxConns
Proxy == 0                       \* a session of a forwarder
NoSession == MaxConns + 1
Sessions == Conns \cup {Proxy}
Workers == 1 .. MaxClicks

Data(r) == [kind |-> "data", req |-> r]
EOF == [kind |-> "eof", req |-> 0]
ERR == [kind |-> "err", req |-> 0]

VARIABLES
    setup,     \* the playbook, its transport and host
    sess,      \* SessionRegistry: the state of each session
    open,      \* keys of ForgeEngine._open_connections
    reader,    \* the background reader of each connection
    wire,      \* chunks on their way from the server
    queue,     \* ForgeConnection.queue
    asked,     \* requests written to each session
    answered,  \* requests the server has answered
    produced,  \* history: the chunks that left the wire, in order
    taken,     \* history: the chunks senders took, in order
    closes,    \* history: calls of close_callback
    log,       \* Session.frames: direction and request
    source,    \* playbook.source_session_id
    running,   \* ForgeTab._running
    clicks,    \* workers started
    ops,       \* sessions the operator closed or deleted
    worker     \* the tasks

conns == <<sess, open, reader, wire, queue, asked, answered, produced, taken, closes>>
tab == <<source, running, clicks>>
vars == <<setup, ops, conns, log, tab, worker>>

Idle == [kind |-> "run", pc |-> "none", cancelled |-> FALSE, cell |-> NoSession,
         pre |-> NoSession, frame |-> 1, conn |-> NoSession, req |-> 0,
         got |-> <<>>]

PCs == {"none", "start", "send", "connect", "announce", "drain", "collect",
        "callback", "log", "inject", "window", "done"}

TypeOK ==
    /\ setup \in Setups
    /\ sess \in [Sessions -> {"none", "active", "closed", "deleted"}]
    /\ open \subseteq Conns
    /\ reader \in [Conns -> {"none", "reading", "closing", "done"}]
    /\ source \in Sessions \cup {NoSession} /\ running \in BOOLEAN
    /\ clicks \in 0 .. MaxClicks
    /\ \A w \in Workers : worker[w].pc \in PCs /\ worker[w].cell \in Sessions \cup {NoSession}

Init ==
    /\ setup \in Setups
    /\ sess = [s \in Sessions |-> IF s = Proxy /\ setup.bound THEN "active" ELSE "none"]
    /\ source = IF setup.bound THEN Proxy ELSE NoSession
    /\ open = {} /\ reader = [c \in Conns |-> "none"]
    /\ wire = [s \in Sessions |-> <<>>] /\ queue = [c \in Conns |-> <<>>]
    /\ asked = [s \in Sessions |-> 0] /\ answered = [s \in Sessions |-> 0]
    /\ produced = [c \in Conns |-> <<>>] /\ taken = [c \in Conns |-> <<>>]
    /\ closes = [c \in Conns |-> 0] /\ log = [s \in Sessions |-> <<>>]
    /\ running = FALSE /\ clicks = 0 /\ ops = 0
    /\ worker = [w \in Workers |-> Idle]

Active(s) == s \in Sessions /\ sess[s] = "active"
Finished(w) == worker[w].pc \in {"none", "done"}

---------------------------------------------------------------------------
\* Slip: a connection is closed as often as somebody closes it.
CloseAgain(c, by) ==
    /\ open' = open \ {c}
    /\ sess' = [sess EXCEPT ![c] = IF @ = "active" THEN "closed" ELSE @]
    /\ closes' = [closes EXCEPT ![c] = @ + 1]
    /\ reader' = [reader EXCEPT ![c] = IF by = "reader" THEN "closing" ELSE "done"]

(* Closing a connection: idempotent, for only the first caller finds it in *)
(* _open_connections.  by is the reader or anyone else.                    *)
Close(c, by) ==
    IF c \notin open THEN UNCHANGED <<open, sess, reader, closes>>
    ELSE /\ open' = open \ {c}
         /\ sess' = [sess EXCEPT ![c] = IF @ = "active" THEN "closed" ELSE @]
         /\ closes' = [closes EXCEPT ![c] = @ + 1]
         /\ reader' = [reader EXCEPT ![c] =
                IF by = "reader" THEN "closing" ELSE IF @ = "reading" THEN "done" ELSE @]

\* Slip: the reader leaves the close to the next send.
ReaderStepLazy(c) ==
    /\ reader[c] = "reading" /\ wire[c] # <<>>
    /\ queue' = [queue EXCEPT ![c] = Append(@, Head(wire[c]))]
    /\ produced' = [produced EXCEPT ![c] = Append(@, Head(wire[c]))]
    /\ wire' = [wire EXCEPT ![c] = Tail(@)]
    /\ UNCHANGED <<setup, ops, sess, open, reader, asked, answered, taken, closes, log, tab, worker>>

(* The reader moves one chunk to the queue; after EOF or an error it also  *)
(* closes the connection, whether or not anyone is sending.                *)
ReaderStep(c) ==
    /\ reader[c] = "reading" /\ wire[c] # <<>>
    /\ LET chunk == Head(wire[c]) IN
       /\ queue' = [queue EXCEPT ![c] = Append(@, chunk)]
       /\ produced' = [produced EXCEPT ![c] = Append(@, chunk)]
       /\ IF chunk.kind = "data" THEN UNCHANGED <<open, sess, reader, closes>>
                                 ELSE Close(c, "reader")
    /\ wire' = [wire EXCEPT ![c] = Tail(@)]
    /\ UNCHANGED <<setup, ops, asked, answered, taken, log, tab, worker>>

(* The close callback returns to the reader, which ends.                   *)
ReaderEnds(c) ==
    /\ reader[c] = "closing"
    /\ reader' = [reader EXCEPT ![c] = "done"]
    /\ UNCHANGED <<setup, ops, sess, open, wire, queue, asked, answered, produced, taken,
                   closes, log, tab, worker>>

(* A UDP endpoint has no reader: datagrams and errors go to the queue.     *)
DatagramReceived(c) ==
    /\ setup.udp /\ c \in open /\ wire[c] # <<>>
    /\ queue' = [queue EXCEPT ![c] = Append(@, Head(wire[c]))]
    /\ produced' = [produced EXCEPT ![c] = Append(@, Head(wire[c]))]
    /\ wire' = [wire EXCEPT ![c] = Tail(@)]
    /\ UNCHANGED <<setup, ops, sess, open, reader, asked, answered, taken, closes, log, tab, worker>>

(* The server answers its requests in order; a TCP server may also close,  *)
(* and a connection may fail.                                              *)
Gone(s) == wire[s] # <<>> /\ wire[s][Len(wire[s])].kind # "data"
Quiet(s) == s \in Conns => sess[s] # "none" /\ ~Gone(s) /\ reader[s] \notin {"closing", "done"}

ServerAnswers(s) ==
    /\ Quiet(s) /\ answered[s] < asked[s]
    /\ answered' = [answered EXCEPT ![s] = @ + 1]
    /\ IF s = Proxy
       THEN /\ log' = [log EXCEPT ![s] = Append(@, [dir |-> "s2c", req |-> answered'[s]])]
            /\ UNCHANGED wire
       ELSE /\ wire' = [wire EXCEPT ![s] = Append(@, Data(answered'[s]))]
            /\ UNCHANGED log
    /\ UNCHANGED <<setup, ops, sess, open, reader, queue, asked, produced, taken, closes, tab, worker>>

ServerCloses(c) ==
    /\ Quiet(c) /\ c \in open
    /\ \E chunk \in (IF setup.udp THEN {ERR} ELSE {EOF, ERR}) :
         wire' = [wire EXCEPT ![c] = Append(@, chunk)]
    /\ setup.udp => ERR \notin {taken[c][i] : i \in DOMAIN taken[c]}
                            \cup {queue[c][i] : i \in DOMAIN queue[c]}
    /\ UNCHANGED <<setup, ops, sess, open, reader, queue, asked, answered, produced, taken, closes,
                   log, tab, worker>>

ProxySessionCloses ==
    /\ sess[Proxy] = "active"
    /\ sess' = [sess EXCEPT ![Proxy] = "closed"]
    /\ UNCHANGED <<setup, ops, open, reader, wire, queue, asked, answered, produced, taken, closes,
                   log, tab, worker>>

(* terminate_session on a forge session; delete_session leaves the socket. *)
Terminate(c) ==
    /\ c \in open /\ ops < setup.ops /\ ops' = ops + 1
    /\ Close(c, "operator")
    /\ UNCHANGED <<setup, wire, queue, asked, answered, produced, taken, log, tab, worker>>

Delete(c) ==
    /\ sess[c] \in {"active", "closed"} /\ ops < setup.ops /\ ops' = ops + 1
    /\ sess' = [sess EXCEPT ![c] = "deleted"]
    /\ UNCHANGED <<setup, open, reader, wire, queue, asked, answered, produced, taken, closes,
                   log, tab, worker>>

---------------------------------------------------------------------------
(* The Forge tab.  Run is not blocked by a run; Send is.  Both refuse a    *)
(* bound session that has closed, and both cancel the worker before them.  *)
Click(kind) ==
    /\ clicks < setup.clicks
    /\ source # NoSession => Active(source)
    /\ kind = "single" => ~running
    /\ running' = (running \/ kind = "run")
    /\ clicks' = clicks + 1
    /\ worker' = [w \in Workers |->
           IF w = clicks' THEN [Idle EXCEPT !.kind = kind, !.pc = "start"]
           ELSE [worker[w] EXCEPT !.cancelled = @ \/ ~Finished(w)]]
    /\ UNCHANGED <<setup, ops, conns, log, source>>

(* btn-stop, and selecting another playbook.                               *)
StopButton ==
    /\ running
    /\ running' = FALSE
    /\ UNCHANGED <<setup, ops, conns, log, source, clicks, worker>>

Goto(w, r) == worker' = [worker EXCEPT ![w] = r]

\* Slip: a run that raised leaves the flag set.
LeaveRunning(w, cell) ==
    LET final == IF Active(cell) THEN cell ELSE NoSession
        me == worker[w]
    IN  /\ source' = IF me.kind = "run" \/ final # me.pre THEN final ELSE source
        /\ running' = (running /\ (me.kind # "run" \/ me.frame <= Len(setup.script)))
        /\ Goto(w, [Idle EXCEPT !.kind = me.kind, !.pc = "done"])

(* The finally blocks of run_playbook and of the worker, without an await. *)
Leave(w, cell) ==
    LET final == IF Active(cell) THEN cell ELSE NoSession
        me == worker[w]
    IN  /\ source' = IF me.kind = "run" \/ final # me.pre THEN final ELSE source
        /\ running' = (running /\ me.kind # "run")
        /\ Goto(w, [Idle EXCEPT !.kind = me.kind, !.pc = "done"])

(* run_playbook reads the binding and drops one of the wrong transport.    *)
Start(w) ==
    LET mismatch == source = Proxy /\ setup.udp IN
    /\ worker[w].pc = "start" /\ ~worker[w].cancelled
    /\ Goto(w, [worker[w] EXCEPT !.pc = "send", !.pre = source,
                                 !.cell = IF mismatch THEN NoSession ELSE source])
    /\ source' = IF mismatch /\ worker[w].kind = "run" THEN NoSession ELSE source
    /\ UNCHANGED <<setup, ops, conns, log, running, clicks>>

(* The cancellation of a worker arrives at the await it is in.  One that   *)
(* has not begun never enters its try block.                               *)
Cancelled(w) ==
    /\ worker[w].cancelled /\ ~Finished(w)
    /\ IF worker[w].pc = "start"
       THEN Goto(w, [Idle EXCEPT !.pc = "done"]) /\ UNCHANGED <<source, running>>
       ELSE Leave(w, worker[w].cell)
    /\ UNCHANGED <<setup, ops, conns, log, clicks>>

Frames(w) == IF worker[w].kind = "single" THEN <<Head(setup.script)>> ELSE setup.script

NextFrame(w, cell) ==
    Goto(w, [worker[w] EXCEPT !.pc = "send", !.frame = @ + 1, !.cell = cell, !.got = <<>>,
                              !.conn = NoSession, !.req = 0])

(* send_on_forge_session: write, then wait for the queue.                  *)
BeginSend(w, c, cell) ==
    /\ asked' = [asked EXCEPT ![c] = @ + 1]
    /\ Goto(w, [worker[w] EXCEPT !.pc = IF setup.udp THEN "collect" ELSE "drain",
                                 !.cell = cell, !.conn = c, !.req = asked'[c]])

(* PlaybookEngine.run with send_fn, up to the first await of a frame.      *)
SendFn(w) ==
    LET cell == IF Active(worker[w].cell) THEN worker[w].cell ELSE NoSession
        i == worker[w].frame
        usable == i <= Len(Frames(w)) /\ Frames(w)[i] # "bad"
    IN
    /\ worker[w].pc = "send" /\ ~worker[w].cancelled
    /\ \/ /\ ~usable                             \* finished, or ValueError
          /\ Leave(w, worker[w].cell)
          /\ UNCHANGED <<asked>>
       \/ /\ usable
          /\ \/ /\ cell \in open /\ Frames(w)[i] = "c2s"
                /\ BeginSend(w, cell, cell)
             \/ /\ cell # Proxy
                /\ Frames(w)[i] = "s2c" \/ (cell = NoSession /\ ~setup.host)
                /\ NextFrame(w, cell)
                /\ UNCHANGED asked
             \/ /\ cell = Proxy                  \* inject_to_server, inject_to_client
                /\ asked' = [asked EXCEPT ![Proxy] = IF Frames(w)[i] = "c2s" THEN @ + 1 ELSE @]
                /\ Goto(w, [worker[w] EXCEPT !.pc = "inject", !.cell = cell])
             \/ /\ cell = NoSession /\ Frames(w)[i] = "c2s" /\ setup.host
                /\ Goto(w, [worker[w] EXCEPT !.pc = "connect", !.cell = cell])
                /\ UNCHANGED asked
          /\ UNCHANGED <<source, running>>
    /\ UNCHANGED <<setup, ops, sess, open, reader, wire, queue, answered, produced, taken, closes,
                   log, clicks>>

(* open_forge_session: the connection and its session appear in one step;  *)
(* the identifier reaches the run only after the event is published.       *)
Connected(w) ==
    /\ worker[w].pc = "connect" /\ ~worker[w].cancelled
    /\ \E c \in 1 .. setup.conns :
         /\ \A d \in Conns : sess[d] = "none" <=> d >= c
         /\ sess' = [sess EXCEPT ![c] = "active"] /\ open' = open \cup {c}
         /\ reader' = [reader EXCEPT ![c] = IF setup.udp THEN "none" ELSE "reading"]
         /\ Goto(w, [worker[w] EXCEPT !.pc = "announce", !.conn = c])
    /\ UNCHANGED <<setup, ops, wire, queue, asked, answered, produced, taken, closes, log, tab>>

ConnectFails(w) ==
    /\ worker[w].pc = "connect" /\ ~worker[w].cancelled
    /\ NextFrame(w, NoSession)
    /\ UNCHANGED <<setup, ops, conns, log, tab>>

\* Slip: the connection that was opened is taken to be open.
AnnouncedUnchecked(w) ==
    /\ worker[w].pc = "announce" /\ ~worker[w].cancelled
    /\ BeginSend(w, worker[w].conn, worker[w].conn)
    /\ UNCHANGED <<setup, ops, sess, open, reader, wire, queue, answered, produced, taken, closes,
                   log, tab>>

(* SessionOpenedEvent is published; the send follows at once, and fails if *)
(* the session has gone in the meantime.                                   *)
Announced(w) ==
    LET c == worker[w].conn IN
    /\ worker[w].pc = "announce" /\ ~worker[w].cancelled
    /\ IF c \in open /\ sess[c] # "deleted" THEN BeginSend(w, c, c)
       ELSE NextFrame(w, c) /\ UNCHANGED asked
    /\ UNCHANGED <<setup, ops, sess, open, reader, wire, queue, answered, produced, taken, closes,
                   log, tab>>

Drained(w) ==
    /\ worker[w].pc = "drain" /\ ~worker[w].cancelled
    /\ \/ Goto(w, [worker[w] EXCEPT !.pc = "collect"]) /\ UNCHANGED <<open, sess, reader, closes>>
       \/ /\ worker[w].conn \notin open \/ Gone(worker[w].conn)     \* drain() raises
          /\ Close(worker[w].conn, "sender")
          /\ Goto(w, [worker[w] EXCEPT !.pc = "callback"])
    /\ UNCHANGED <<setup, ops, wire, queue, asked, answered, produced, taken, log, tab>>

\* Slip: a chunk that was read stays in the queue.
CollectPeek(w) ==
    LET c == worker[w].conn IN
    /\ worker[w].pc = "collect" /\ ~worker[w].cancelled /\ queue[c] # <<>>
    /\ Head(queue[c]).kind = "data" /\ Len(worker[w].got) < 2
    /\ Goto(w, [worker[w] EXCEPT !.got = Append(@, Head(queue[c]).req)])
    /\ taken' = [taken EXCEPT ![c] = Append(@, Head(queue[c]))]
    /\ UNCHANGED <<setup, ops, sess, open, reader, wire, queue, asked, answered, produced, closes,
                   log, tab>>

(* queue.get(): a chunk of the response, or the news that it is over.      *)
Collect(w) ==
    LET c == worker[w].conn IN
    /\ worker[w].pc = "collect" /\ ~worker[w].cancelled /\ queue[c] # <<>>
    /\ LET chunk == Head(queue[c]) IN
       IF chunk.kind = "data"
       THEN /\ Goto(w, [worker[w] EXCEPT !.got = Append(@, chunk.req)])
            /\ UNCHANGED <<open, sess, reader, closes>>
       ELSE /\ Close(c, "sender")
            /\ Goto(w, [worker[w] EXCEPT !.pc = "callback"])
    /\ taken' = [taken EXCEPT ![c] = Append(@, Head(queue[c]))]
    /\ queue' = [queue EXCEPT ![c] = Tail(@)]
    /\ UNCHANGED <<setup, ops, wire, asked, answered, produced, log, tab>>


(* The response is complete: the receive timeout, or the return of the     *)
(* close callback.  The request is logged next.                            *)
ResponseEnds(w) ==
    LET c == worker[w].conn IN
    /\ worker[w].pc \in {"collect", "callback"} /\ ~worker[w].cancelled
    /\ IF sess[c] = "deleted" THEN NextFrame(w, worker[w].cell) /\ UNCHANGED log
       ELSE /\ log' = [log EXCEPT ![c] = Append(@, [dir |-> "c2s", req |-> worker[w].req])]
            /\ Goto(w, [worker[w] EXCEPT !.pc = "log"])
    /\ UNCHANGED <<setup, ops, conns, tab>>

(* Each answer is logged after the event of the frame before it.           *)
LogAnswer(w) ==
    LET c == worker[w].conn IN
    /\ worker[w].pc = "log" /\ ~worker[w].cancelled
    /\ IF worker[w].got = <<>> THEN NextFrame(w, worker[w].cell) /\ UNCHANGED log
       ELSE /\ log' = IF sess[c] = "deleted" THEN log
                      ELSE [log EXCEPT ![c] =
                               Append(@, [dir |-> "s2c", req |-> Head(worker[w].got)])]
            /\ Goto(w, [worker[w] EXCEPT !.got = Tail(@)])
    /\ UNCHANGED <<setup, ops, conns, tab>>

(* Injection into a session of a forwarder: logged after the write, then   *)
(* the response window, then the frames captured since.                    *)
Injected(w) ==
    /\ worker[w].pc = "inject" /\ ~worker[w].cancelled
    /\ \/ /\ log' = [log EXCEPT ![Proxy] =
                        Append(@, [dir |-> Frames(w)[worker[w].frame], req |-> 0])]
          /\ Goto(w, [worker[w] EXCEPT !.pc = "window"])
       \/ NextFrame(w, worker[w].cell) /\ UNCHANGED log       \* the writer was gone
    /\ UNCHANGED <<setup, ops, conns, tab>>

WindowEnds(w) ==
    /\ worker[w].pc = "window" /\ ~worker[w].cancelled
    /\ NextFrame(w, worker[w].cell)
    /\ UNCHANGED <<setup, ops, conns, log, tab>>

(* What a task does when nothing but the event loop must let it.           *)
Proceeds(w) ==
    \/ Start(w) \/ Cancelled(w) \/ SendFn(w) \/ Connected(w) \/ ConnectFails(w) \/ Announced(w)
    \/ Collect(w) \/ ResponseEnds(w) \/ LogAnswer(w) \/ Injected(w) \/ WindowEnds(w)

WorkerStep(w) == Proceeds(w) \/ Drained(w)

ReaderOf(c) == ReaderStep(c) \/ ReaderEnds(c)

Next ==
    \/ \E w \in Workers : WorkerStep(w)
    \/ \E c \in Conns : ReaderOf(c) \/ DatagramReceived(c) \/ ServerCloses(c)
                        \/ Terminate(c) \/ Delete(c)
    \/ \E s \in Sessions : ServerAnswers(s)
    \/ ProxySessionCloses
    \/ \E kind \in {"run", "single"} : Click(kind)
    \/ StopButton

(* Every task that can run does run: timers fire, subscribers return.      *)
Fairness ==
    /\ \A w \in Workers : WF_vars(Proceeds(w))
    /\ \A c \in Conns : WF_vars(ReaderOf(c))

(* A server reads what it is sent, or is gone: drain() has no timeout, and *)
(* without this a send waits in it for ever.                               *)
ServerReads == \A w \in Workers : WF_vars(Drained(w))

Spec == Init /\ [][Next]_vars /\ Fairness /\ ServerReads

---------------------------------------------------------------------------
(* What leaves the socket of a connection reaches the senders once and in  *)
(* order, whoever of them takes it (forge/engine.py:703 shares the queue   *)
(* between sends), nothing follows the end of a TCP stream, and no answer  *)
(* is logged that was not taken, or twice.                                 *)
Logged(c) == {i \in DOMAIN log[c] : log[c][i].dir = "s2c"}
ChunksInOrder ==
    \A c \in Conns :
        /\ produced[c] = taken[c] \o queue[c]
        /\ \A i \in 1 .. Len(produced[c]) - 1 : produced[c][i].kind # "data" => setup.udp
        /\ \A i, j \in Logged(c) : i # j => log[c][i].req # log[c][j].req
        /\ \A i \in Logged(c) : \E k \in DOMAIN taken[c] : taken[c][k] = Data(log[c][i].req)

(* The registry says ACTIVE exactly of the connections that are open, and  *)
(* the close callback runs once, whichever of the reader, a sender and the *)
(* operator closes first (forge/engine.py:652).                            *)
RegistryAgrees ==
    \A c \in Conns :
        /\ sess[c] = "active" => c \in open
        /\ c \in open => sess[c] \in {"active", "deleted"} /\ closes[c] = 0
        /\ sess[c] # "none" /\ c \notin open => closes[c] = 1

(* The flag that blocks Send and shows live traffic is never left set by a *)
(* run that is gone (ui/tabs/forge.py:1187).                               *)
RunningIsBacked ==
    running => \E w \in Workers : worker[w].kind = "run" /\ ~Finished(w)

(* A request is only ever written to a connection that is still open, even *)
(* if it was opened or checked before an await (api.py:1442, 966).         *)
WritesAreOpen ==
    [][\A c \in Conns : asked'[c] # asked[c] => c \in open]_vars

(* A server that closes or resets is noticed although nobody is sending    *)
(* (forge/engine.py:637).                                                  *)
PeerCloseNoticed ==
    \A c \in Conns : (wire[c] # <<>> /\ Gone(c) /\ reader[c] = "reading") ~> c \notin open

(* Every run and every send comes to an end, whether the server answers,   *)
(* closes or is silent, as long as it reads, and whatever the operator does*)
WorkersEnd == \A w \in Workers : worker[w].pc # "none" ~> worker[w].pc = "done"

(* What the registry and the tab say of connections and runs is so.        *)
StatusIsTrue == RegistryAgrees /\ RunningIsBacked


(* api.py:1375: "When the connection is established source_session_id is   *)
(* set on the playbook so the same TCP session is reused on subsequent     *)
(* runs".  While no worker runs, every open connection is the one the      *)
(* playbook is bound to.                                                   *)
OneConnection ==
    (\A w \in Workers : Finished(w)) => \A c \in Conns : Active(c) => source = c
============================================================================
