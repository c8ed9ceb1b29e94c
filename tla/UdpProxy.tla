------------------------------- MODULE UdpProxy ------------------------------
(***************************************************************************)
(* A UDP forwarder: the listening socket, the flows ProxyEngine makes of   *)
(* datagrams that share a client address (core/udp_proxy.py and the UDP    *)
(* half of core/proxy.py), and the operator who terminates, deletes and    *)
(* injects through ProtoPokeAPI.  Every datagram is handled by an asyncio  *)
(* task of its own; an action is what one task does between two awaits.    *)
(*                                                                         *)
(* A session, its flow and its upstream socket are named by the client     *)
(* datagram that opened them.  A listening socket is named by the start    *)
(* that bound it; 0 is None.                                               *)
(*                                                                         *)
(* A definition that begins "Slip:" is no part of the specification: it is *)
(* a mistake the next definition could contain, used to see the property   *)
(* that forbids it fail.                                                   *)
(***************************************************************************)
EXTENDS Naturals, FiniteSets

CONSTANTS Datagram,     \* datagrams from clients; also name the sessions
          Reply,        \* datagrams from the server
          Client,       \* client addresses
          ClientOf,     \* the source address of each client datagram
          MaxSessions,  \* max_sessions, 0 = unlimited
          Embedded,     \* a program calls ProxyEngine.stop() itself, as its
                        \* documentation shows; ProtoPokeAPI never does for UDP
          MaxStarts,    \* bound: starts of the forwarder
          MaxCalls      \* bound: calls of delete_session, inject_to_client,
                        \* inject_to_server and stop_forwarder together

Task == Datagram \cup Reply
None == "none"
Operator == "operator"       \* where an injected frame comes from

ASSUME UdpAssumption ==
    /\ Datagram \cap Reply = {} /\ None \notin Datagram /\ Operator \notin Task
    /\ ClientOf \in [Datagram -> Client]
    /\ MaxSessions \in Nat /\ Embedded \in BOOLEAN
    /\ MaxStarts \in Nat /\ MaxCalls \in Nat

VARIABLES
    listener,     \* _udp_listen_transport
    starts,
    pending,      \* the flows stop() has still to close
    stopping,     \* stop() waits for subscribers of a SessionClosedEvent
    asked,        \* stop_forwarder() has returned and no start() since
    task,         \* where the task of each datagram stands
    flow,         \* the flow a datagram is handled in
    known,        \* sessions in the registry
    state,        \* session.info.state
    by_addr,      \* _udp_flows_by_addr
    flows,        \* _udp_flows
    ended,        \* flows with flow.closed
    upstream,     \* flows whose upstream socket is open
    heard_on,     \* flow.listen_transport
    log,          \* session.frames
    seqno,        \* the sequence counters of the two framers of each flow
    sent,         \* datagrams that left for their destination
    calls,        \* counter for its bound
    stage, verdict    \* the tamper gate

engineVars == <<listener, starts, pending, stopping, asked>>
sessionVars == <<known, state>>
flowVars == <<by_addr, flows, ended, upstream, heard_on>>
recordVars == <<log, seqno>>
gateVars == <<stage, verdict>>
vars == <<engineVars, task, flow, sessionVars, flowVars, recordVars, sent,
          calls, gateVars>>

Gate == INSTANCE VerdictGate WITH Unit <- Task

Dir == {"up", "down"}        \* CLIENT_TO_SERVER, SERVER_TO_CLIENT
DirOf(t) == IF t \in Datagram THEN "up" ELSE "down"
Frame == [from : Task \cup {Operator}, dir : Dir, seq : Nat,
          kind : {"captured", "tamper", "injected"}]

TypeOK ==
    /\ listener \in 0..MaxStarts /\ starts \in 0..MaxStarts
    /\ pending \subseteq Datagram
    /\ stopping \in BOOLEAN /\ asked \in BOOLEAN
    /\ task \in [Task -> {"unsent", "arrived", "opening", "failing", "announcing",
                          "captured", "held", "completed", "relogged", "done"}]
    /\ flow \in [Task -> Datagram \cup {None}]
    /\ known \subseteq Datagram
    /\ state \in [Datagram -> {None, "CONNECTING", "ACTIVE", "CLOSED"}]
    /\ by_addr \in [Client -> Datagram \cup {None}]
    /\ flows \subseteq Datagram /\ ended \subseteq Datagram
    /\ upstream \subseteq Datagram
    /\ heard_on \in [Datagram -> 0..MaxStarts]
    /\ log \in [Datagram -> SUBSET Frame]
    /\ seqno \in [Datagram -> [Dir -> Nat]]
    /\ sent \subseteq Task
    /\ calls \in 0..MaxCalls
    /\ stage \in [Task -> Gate!Stage]
    /\ verdict \in [Task -> Gate!Action \cup {Gate!NoVerdict}]

Init ==
    /\ listener = 0 /\ starts = 0 /\ pending = {}
    /\ stopping = FALSE /\ asked = FALSE
    /\ task = [t \in Task |-> "unsent"]
    /\ flow = [t \in Task |-> None]
    /\ known = {} /\ state = [s \in Datagram |-> None]
    /\ by_addr = [a \in Client |-> None]
    /\ flows = {} /\ ended = {} /\ upstream = {}
    /\ heard_on = [s \in Datagram |-> 0]
    /\ log = [s \in Datagram |-> {}]
    /\ seqno = [s \in Datagram |-> [d \in Dir |-> 0]]
    /\ sent = {} /\ calls = 0
    /\ Gate!GateInit

------------------------------------------------------------------------------
(* Sessions and flows                                                       *)

ActiveSessions == {s \in known : state[s] \in {"CONNECTING", "ACTIVE"}}

\* mark_active and mark_closed ignore a session that was deleted.
Mark(s, x) == state' = [state EXCEPT ![s] = IF s \in known THEN x ELSE @]

Goto(t, p) == task' = [task EXCEPT ![t] = p]

\* The frame of t enters the log of s with the framer's next number.
Record(s, t, k) ==
    /\ log' = [log EXCEPT ![s] = @ \cup {[from |-> t, dir |-> DirOf(t),
                                          seq |-> seqno[s][DirOf(t)], kind |-> k]}]
    /\ seqno' = [seqno EXCEPT ![s][DirOf(t)] = @ + 1]

\* Slip: the lookup tables keep the flow.
CloseFlowKept(s) ==
    /\ ended' = ended \cup {s}
    /\ upstream' = upstream \ {s}
    /\ flows' = flows \ {s}
    /\ Mark(s, "CLOSED")
    /\ UNCHANGED by_addr

\* _close_udp_flow() up to the publishing of SessionClosedEvent.  The table
\* of addresses loses the client's entry, whichever flow it is.
CloseFlow(s) ==
    /\ ended' = ended \cup {s}
    /\ upstream' = upstream \ {s}
    /\ by_addr' = [by_addr EXCEPT ![ClientOf[s]] = None]
    /\ flows' = flows \ {s}
    /\ Mark(s, "CLOSED")

------------------------------------------------------------------------------
(* The task of one datagram                                                 *)

\* process_udp_datagram() up to the publishing of FrameCapturedEvent.
Capture(t, s) ==
    /\ Record(s, t, "captured")
    /\ flow' = [flow EXCEPT ![t] = s]
    /\ Goto(t, "captured")

Abandoned(t) == Goto(t, "done") /\ UNCHANGED <<flow, recordVars>>

\* Slip: the flow is not looked at again after the wait.
EnterUnchecked(t, s) == Capture(t, s)

\* if flow.closed: return
Enter(t, s) == IF s \in ended THEN Abandoned(t) ELSE Capture(t, s)

Arrive(d) ==
    /\ task[d] = "unsent" /\ listener # 0
    /\ Goto(d, "arrived")
    /\ UNCHANGED <<engineVars, flow, sessionVars, flowVars, recordVars, sent,
                   calls, gateVars>>

\* Slip: one session too many.
LimitExceeded == MaxSessions > 0 /\ Cardinality(ActiveSessions) > MaxSessions

LimitReached == MaxSessions > 0 /\ Cardinality(ActiveSessions) >= MaxSessions

\* The client is unknown: create the session, await the upstream endpoint.
OpenFlow(d) ==
    IF listener = 0 \/ LimitReached
    THEN Goto(d, "done") /\ UNCHANGED sessionVars
    ELSE /\ known' = known \cup {d}
         /\ state' = [state EXCEPT ![d] = "CONNECTING"]
         /\ Goto(d, "opening")

OnClientDatagram(d) ==
    LET s == by_addr[ClientOf[d]] IN
    /\ task[d] = "arrived"
    /\ IF s = None
       THEN OpenFlow(d) /\ UNCHANGED <<flow, recordVars>>
       ELSE Enter(d, s) /\ UNCHANGED sessionVars
    /\ UNCHANGED <<engineVars, flowVars, sent, calls, gateVars>>

\* Slip: the endpoint fails and the session keeps its state.
OpenFailsUnmarked(d) ==
    /\ task[d] = "opening"
    /\ Goto(d, "failing")
    /\ UNCHANGED <<engineVars, flow, sessionVars, flowVars, recordVars, sent,
                   calls, gateVars>>

OpenFails(d) ==
    /\ task[d] = "opening"
    /\ Mark(d, "CLOSED")
    /\ Goto(d, "failing")
    /\ UNCHANGED <<engineVars, flow, known, flowVars, recordVars, sent,
                   calls, gateVars>>

FailurePublished(d) ==
    /\ task[d] = "failing"
    /\ Goto(d, "done")
    /\ UNCHANGED <<engineVars, flow, sessionVars, flowVars, recordVars, sent,
                   calls, gateVars>>

\* The endpoint is there: register the flow under the client's address, even
\* where another datagram registered one meanwhile, and under its session.
FlowOpened(d) ==
    /\ task[d] = "opening"
    /\ heard_on' = [heard_on EXCEPT ![d] = listener]
    /\ upstream' = upstream \cup {d}
    /\ by_addr' = [by_addr EXCEPT ![ClientOf[d]] = d]
    /\ flows' = flows \cup {d}
    /\ Mark(d, "ACTIVE")
    /\ Goto(d, "announcing")
    /\ UNCHANGED <<engineVars, flow, known, ended, recordVars, sent, calls,
                   gateVars>>

\* SessionOpenedEvent was delivered.
Announced(d) ==
    /\ task[d] = "announcing"
    /\ Enter(d, d)
    /\ UNCHANGED <<engineVars, sessionVars, flowVars, sent, calls, gateVars>>

\* The server answers on a flow's socket; its task looks the session up.
ServerAnswers(r, s) ==
    /\ task[r] = "unsent" /\ s \in upstream
    /\ Goto(r, "arrived")
    /\ flow' = [flow EXCEPT ![r] = s]
    /\ UNCHANGED <<engineVars, sessionVars, flowVars, recordVars, sent,
                   calls, gateVars>>

OnServerDatagram(r) ==
    /\ task[r] = "arrived"
    /\ IF flow[r] \in flows THEN Enter(r, flow[r]) ELSE Abandoned(r)
    /\ UNCHANGED <<engineVars, sessionVars, flowVars, sent, calls, gateVars>>

\* tamper_controller.process(): through at once, or held.
Intercept(t) ==
    /\ task[t] = "captured"
    /\ \/ Gate!Pass(t) /\ Goto(t, "completed")
       \/ Gate!Hold(t) /\ Goto(t, "held")
    /\ UNCHANGED <<engineVars, flow, sessionVars, flowVars, recordVars, sent,
                   calls>>

Released(t) ==
    /\ task[t] = "held"
    /\ Gate!Release(t)
    /\ Goto(t, "completed")
    /\ UNCHANGED <<engineVars, flow, sessionVars, flowVars, recordVars, sent,
                   calls>>

\* sendto() on a closed socket sends nothing; a flow that was registered while
\* there was no listening socket has none, and the task fails.
Reachable(s, d) == IF d = "up" THEN s \in upstream
                               ELSE heard_on[s] # 0 /\ heard_on[s] = listener

SendTo(t) ==
    /\ sent' = IF Reachable(flow[t], DirOf(t)) THEN sent \cup {t} ELSE sent
    /\ Goto(t, "done")
    /\ UNCHANGED recordVars

\* Slip: the verdict is looked at after an edit only.
ForwardUndropped(t) ==
    IF verdict[t] = "MODIFIED"
    THEN /\ Record(flow[t], t, "tamper")
         /\ Goto(t, "relogged")
         /\ UNCHANGED sent
    ELSE SendTo(t)

\* After InterceptCompletedEvent: drop, log the edited frame, or send.
Forward(t) ==
    CASE verdict[t] = "DROP"     -> Goto(t, "done") /\ UNCHANGED <<recordVars, sent>>
      [] verdict[t] = "MODIFIED" -> /\ Record(flow[t], t, "tamper")
                                    /\ Goto(t, "relogged")
                                    /\ UNCHANGED sent
      [] verdict[t] = "FORWARD"  -> SendTo(t)

Completed(t) ==
    /\ task[t] = "completed"
    /\ Forward(t)
    /\ UNCHANGED <<engineVars, flow, sessionVars, flowVars, calls, gateVars>>

Relogged(t) ==
    /\ task[t] = "relogged"
    /\ SendTo(t)
    /\ UNCHANGED <<engineVars, flow, sessionVars, flowVars, calls, gateVars>>

TaskStep(t) == \/ Intercept(t) \/ Released(t) \/ Completed(t) \/ Relogged(t)
               \/ t \in Datagram /\ (\/ OnClientDatagram(t) \/ OpenFails(t)
                                     \/ FailurePublished(t) \/ FlowOpened(t)
                                     \/ Announced(t))
               \/ t \in Reply /\ OnServerDatagram(t)

------------------------------------------------------------------------------
(* Starting and stopping                                                    *)

\* A second start() while listening fails to bind, and changes nothing.
Start ==
    /\ listener = 0 /\ starts < MaxStarts
    /\ starts' = starts + 1
    /\ listener' = starts + 1
    /\ asked' = FALSE
    /\ UNCHANGED <<pending, stopping, task, flow, sessionVars, flowVars,
                   recordVars, sent, calls, gateVars>>

Held == {t \in Task : stage[t] = "held"}

ForwardHeld == IF Held = {} THEN UNCHANGED gateVars
                            ELSE Gate!Decide(Held, "FORWARD")

\* stop() goes on with the flows P of its list: those closed meanwhile are
\* skipped, closing one waits for the event's subscribers, and after the last
\* the tamper controller forwards what it holds.
CloseRest(P) ==
    LET S == P \ ended IN
    \/ /\ S = {}
       /\ pending' = {} /\ stopping' = FALSE
       /\ ForwardHeld
       /\ UNCHANGED <<state, flowVars>>
    \/ \E s \in S : /\ CloseFlow(s)
                    /\ pending' = S \ {s} /\ stopping' = TRUE
                    /\ UNCHANGED <<heard_on, gateVars>>

\* Slip: stop() closes the flows of the sessions in the registry.
StopBeginsKnown ==
    /\ Embedded /\ ~stopping
    /\ listener' = 0
    /\ CloseRest(flows \cap known)
    /\ UNCHANGED <<starts, asked, task, flow, known, recordVars, sent, calls>>

StopBegins ==
    /\ Embedded /\ ~stopping
    /\ listener' = 0
    /\ CloseRest(flows)
    /\ UNCHANGED <<starts, asked, task, flow, known, recordVars, sent, calls>>

StopGoesOn ==
    /\ stopping
    /\ CloseRest(pending)
    /\ UNCHANGED <<listener, starts, asked, task, flow, known, recordVars, sent,
                   calls>>

\* ProtoPokeAPI.stop_forwarder() calls engine.stop() if engine._server is not
\* None.  A UDP forwarder has no _server, so nothing is called.
StopForwarder ==
    /\ listener # 0 /\ calls < MaxCalls
    /\ calls' = calls + 1
    /\ asked' = TRUE
    /\ UNCHANGED <<listener, starts, pending, stopping, task, flow, sessionVars,
                   flowVars, recordVars, sent, gateVars>>

------------------------------------------------------------------------------
(* The operator                                                             *)

\* The API finds the engine through the registry; an embedding program calls
\* the engine itself.
MayName(s) == s \in known \/ Embedded

Terminate(s) ==
    /\ MayName(s) /\ s \in flows
    /\ CloseFlow(s)
    /\ UNCHANGED <<engineVars, task, flow, known, heard_on, recordVars, sent,
                   calls, gateVars>>

\* delete_session(): the record goes, the flow stays.
Delete(s) ==
    /\ s \in known /\ calls < MaxCalls
    /\ calls' = calls + 1
    /\ known' = known \ {s}
    /\ UNCHANGED <<engineVars, task, flow, state, flowVars, recordVars, sent,
                   gateVars>>

Verdict(U, a) ==
    /\ Gate!Decide(U, a)
    /\ UNCHANGED <<engineVars, task, flow, sessionVars, flowVars, recordVars,
                   sent, calls>>

Logged(s, d) == {f \in log[s] : f.dir = d}

\* Slip: the number of the last frame.
LastSequenceNumber(s, d) == Cardinality(Logged(s, d)) - 1

\* Without a relay to ask, the number of frames there are.
NextSequenceNumber(s, d) == Cardinality(Logged(s, d))

\* inject_to_server() and inject_to_client() of the API.  The counters of the
\* flow's framers do not move.  A flow without a listening socket raises before
\* anything is logged.
Inject(s, d) ==
    /\ s \in known \cap flows /\ calls < MaxCalls
    /\ d = "down" => heard_on[s] # 0
    /\ calls' = calls + 1
    /\ log' = [log EXCEPT ![s] = @ \cup
                  {[from |-> Operator, dir |-> d, kind |-> "injected",
                    seq |-> NextSequenceNumber(s, d)]}]
    /\ UNCHANGED <<engineVars, task, flow, sessionVars, flowVars, seqno, sent,
                   gateVars>>

Next ==
    \/ \E t \in Task : TaskStep(t)
    \/ \E d \in Datagram : Arrive(d)
    \/ \E r \in Reply, s \in Datagram : ServerAnswers(r, s)
    \/ Start \/ StopBegins \/ StopGoesOn \/ StopForwarder
    \/ \E s \in Datagram : \/ Terminate(s) \/ Delete(s)
                           \/ \E d \in Dir : Inject(s, d)
    \/ Held # {} /\ Verdict(Held, "FORWARD")
    \/ \E t \in Task, a \in Gate!Action : Verdict({t}, a)

Spec == Init /\ [][Next]_vars

------------------------------------------------------------------------------
(* Properties                                                               *)

\* max_sessions is checked and the session created in one step: the live
\* sessions never exceed the limit, though every opening waits for its
\* endpoint while others arrive.
UdpSessionLimit == MaxSessions > 0 => Cardinality(ActiveSessions) <= MaxSessions

\* The two tables and the sockets agree, through racing openings, operator
\* terminations and stop(): a client's datagrams are routed to a flow of that
\* client which can still be terminated, and the flows that can be are exactly
\* those with an upstream socket to close.
TablesAgree ==
    /\ \A a \in Client : by_addr[a] # None =>
          by_addr[a] \in flows /\ ClientOf[by_addr[a]] = a
    /\ flows = upstream
    /\ flows \cap ended = {}

\* A live session is one somebody will or can close: it is being opened, or
\* its flow is registered.
LiveIsOwned == \A s \in ActiveSessions : task[s] = "opening" \/ s \in flows

\* "raced with idle sweeper; drop": no datagram is captured on a flow that was
\* closed while its task waited, for the endpoint or for subscribers.
CaptureIsLive ==
    [][\A t \in Task : task'[t] = "captured" /\ task[t] # "captured" =>
          flow'[t] \in flows /\ flow'[t] \notin ended]_vars

\* What stop() leaves behind.  A flow whose endpoint was still pending when
\* stop() took its list survives it, but it cannot answer its client: no flow
\* outlives the listening socket it would answer through.
SurvivorsAreMute ==
    \A s \in flows \ pending : heard_on[s] \in {0, listener}

\* No datagram leaves undecided or against its verdict, whatever is terminated
\* or stopped while it is held; one that was edited leaves only after the
\* edited frame is in the log.
VerdictGoverns ==
    \A t \in sent :
        /\ stage[t] = "released"
        /\ verdict[t] # "DROP"
        /\ verdict[t] = "MODIFIED" =>
              \E f \in log[flow[t]] : f.kind = "tamper" /\ f.from = t

\* The sessions, the two tables and the sockets tell one story: the limit
\* holds, every live session is in the tables or on its way there, and what
\* survives stop() cannot answer.
FlowsAgree == TypeOK /\ UdpSessionLimit /\ TablesAgree /\ LiveIsOwned /\ SurvivorsAreMute

------------------------------------------------------------------------------
(* What the code's documentation says and this code does not do             *)

\* architecture.md: "One UdpFlow per (client_host, client_port) tuple".
OneFlowPerClient ==
    \A s, t \in flows : ClientOf[s] = ClientOf[t] => s = t

\* stop_forwarder(): "Stop a single forwarder by name."
StopForwarderStops == asked => listener = 0
==============================================================================
