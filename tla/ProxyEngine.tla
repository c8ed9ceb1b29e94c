----------------------------- MODULE ProxyEngine -----------------------------
(***************************************************************************)
(* Accepting, connecting, running, terminating and stopping sessions:      *)
(* ProxyEngine (core/proxy.py) for TCP and SOCKS5 forwarders, over the     *)
(* shared SessionRegistry (core/session.py) and the shared tamper          *)
(* controller.  A connection handler, a session task and a call of stop()  *)
(* are separate asyncio tasks; each action is what one of them does        *)
(* between two awaits.                                                     *)
(*                                                                         *)
(* The relay of a session (module SessionRelay) is reduced to what the     *)
(* engine can see of it: it runs, may hold a frame, ends by itself, and    *)
(* when cancelled may hold one more frame (the framer's rest) first.       *)
(*                                                                         *)
(* A definition that begins "Slip:" is no part of the specification: it is *)
(* a mistake the next definition could contain, used to see the property   *)
(* that forbids it fail.                                                   *)
(***************************************************************************)
EXTENDS Naturals, FiniteSets

CONSTANTS Conn,             \* client connections; also names their session
          Forwarder,
          ForwarderOf,      \* the forwarder a connection arrives at
          Type,             \* forwarder_type: "tcp" or "socks5"
          MaxSessions,      \* max_sessions, 0 = unlimited
          HandlersMayRaise, \* what a handler does not catch is raised: the name
                            \* a SOCKS5 client asks for, a custom framer's file
          WaitClosedBlocks, \* Server.wait_closed() waits for open connections
                            \* (Python 3.12), or returns at once (3.11)
          MaxStarts,        \* bound: starts of each forwarder
          MaxDeletes        \* bound: calls of delete_session

ASSUME EngineAssumption ==
    /\ ForwarderOf \in [Conn -> Forwarder]
    /\ Type \in [Forwarder -> {"tcp", "socks5"}]
    /\ MaxSessions \in [Forwarder -> Nat]
    /\ HandlersMayRaise \in BOOLEAN /\ WaitClosedBlocks \in BOOLEAN
    /\ MaxStarts \in Nat /\ MaxDeletes \in Nat

VARIABLES
    server,      \* _server: none, listening, or closed and not yet reset
    starts,      \* number of starts
    stop,        \* where the forwarder's stop() stands
    awaiting,    \* the session tasks stop() gathers
    handler,     \* where the handler of each connection stands
    known,       \* sessions in the registry
    state,       \* session.info.state (ONLY_* counts as ACTIVE here)
    writers,     \* sessions in _session_*_writers
    relays,      \* sessions in _session_relays
    tasks,       \* sessions in _session_tasks
    task,        \* where each session task stands
    held,        \* sessions with a frame in the tamper controller
    client_open, server_open,              \* sockets
    opened, closed,                        \* Session{Opened,Closed}Events
    deletes

engineVars == <<server, starts, stop, awaiting>>
registryVars == <<known, state>>
mapVars == <<writers, relays, tasks>>
socketVars == <<client_open, server_open>>
eventVars == <<opened, closed>>
vars == <<engineVars, handler, registryVars, mapVars, task, held, socketVars,
          eventVars, deletes>>

TypeOK ==
    /\ server \in [Forwarder -> {"none", "listening", "closed"}]
    /\ starts \in [Forwarder -> 0..MaxStarts]
    /\ stop \in [Forwarder -> {"idle", "gather", "wait_closed"}]
    /\ awaiting \in [Forwarder -> SUBSET Conn]
    /\ handler \in [Conn -> {"none", "negotiating", "connecting", "refusing",
                             "failing", "replying", "opening", "ended"}]
    /\ state \in [Conn -> {"none", "CONNECTING", "ACTIVE", "CLOSED"}]
    /\ task \in [Conn -> {"none", "scheduled", "running", "unwinding",
                          "flushing", "closing", "closing_client",
                          "closing_server", "cleanup", "publishing", "ended",
                          "never_ran"}]
    /\ \A s \in {known, writers, relays, tasks, held, client_open, server_open,
                 opened, closed} : s \subseteq Conn
    /\ deletes \in 0..MaxDeletes

Init ==
    /\ server = [f \in Forwarder |-> "none"]
    /\ starts = [f \in Forwarder |-> 0]
    /\ stop = [f \in Forwarder |-> "idle"]
    /\ awaiting = [f \in Forwarder |-> {}]
    /\ handler = [c \in Conn |-> "none"]
    /\ state = [c \in Conn |-> "none"]
    /\ task = [c \in Conn |-> "none"]
    /\ known = {} /\ writers = {} /\ relays = {} /\ tasks = {} /\ held = {}
    /\ client_open = {} /\ server_open = {}
    /\ opened = {} /\ closed = {} /\ deletes = 0

------------------------------------------------------------------------------
(* The registry                                                             *)

Live(c) == state[c] \in {"CONNECTING", "ACTIVE"}
ActiveSessions == {c \in known : Live(c)}

Create(c) == /\ known' = known \cup {c}
             /\ state' = [state EXCEPT ![c] = "CONNECTING"]

\* mark_active and mark_closed look the session up and ignore unknown ones.
Mark(c, s) == state' = [state EXCEPT ![c] = IF c \in known THEN s ELSE @]

------------------------------------------------------------------------------
(* The connection handler                                                   *)

\* Slip: one session too many.
LimitExceeded(f) == MaxSessions[f] > 0 /\ Cardinality(ActiveSessions) > MaxSessions[f]

LimitReached(f) == MaxSessions[f] > 0 /\ Cardinality(ActiveSessions) >= MaxSessions[f]

Move(c, s) == handler' = [handler EXCEPT ![c] = s]

\* An exception nobody catches ends the handler and nothing else; whether the
\* client's transport is closed then (Python 3.12) or stays (3.11) is open.
Abandon(c) == /\ HandlersMayRaise
              /\ Move(c, "ended")
              /\ \E gone \in {{}, {c}} : client_open' = client_open \ gone

\* A client connects.  Over the limit its connection is closed; a TCP handler
\* creates the session without suspending, a SOCKS5 handler negotiates first.
Accept(c) ==
    LET f == ForwarderOf[c] IN
    /\ handler[c] = "none" /\ server[f] = "listening"
    /\ \/ /\ LimitReached(f)
          /\ Move(c, "ended")
          /\ UNCHANGED <<registryVars, client_open>>
       \/ /\ ~LimitReached(f) /\ Type[f] = "tcp"
          /\ Create(c) /\ Move(c, "connecting")
          /\ client_open' = client_open \cup {c}
       \/ /\ ~LimitReached(f) /\ Type[f] = "socks5"
          /\ Move(c, "negotiating")
          /\ client_open' = client_open \cup {c}
          /\ UNCHANGED registryVars
    /\ UNCHANGED <<engineVars, mapVars, task, held, server_open, eventVars,
                   deletes>>

Negotiated(c) ==
    /\ handler[c] = "negotiating"
    /\ \/ Create(c) /\ Move(c, "connecting") /\ UNCHANGED client_open
       \/ /\ Move(c, "ended")                      \* handshake failed
          /\ client_open' = client_open \ {c}
          /\ UNCHANGED registryVars
       \/ Abandon(c) /\ UNCHANGED registryVars
    /\ UNCHANGED <<engineVars, mapVars, task, held, server_open, eventVars,
                   deletes>>

\* mark_active, register the writers, publish SessionOpenedEvent.
Activate(c) ==
    /\ Mark(c, "ACTIVE")
    /\ writers' = writers \cup {c}
    /\ Move(c, "opening")

Connected(c) ==
    /\ handler[c] = "connecting"
    /\ server_open' = server_open \cup {c}
    /\ IF Type[ForwarderOf[c]] = "socks5"
       THEN Move(c, "replying") /\ UNCHANGED <<state, writers>>
       ELSE Activate(c)
    /\ UNCHANGED <<engineVars, known, relays, tasks, task, held, client_open,
                   eventVars, deletes>>

\* Slip: the client of a failed connection is not closed.
GiveUpOpen(c) ==
    /\ UNCHANGED client_open
    /\ Mark(c, "CLOSED")
    /\ Move(c, "failing")

\* Close the client, mark the session CLOSED, publish the failure.
GiveUp(c) ==
    /\ client_open' = client_open \ {c}
    /\ Mark(c, "CLOSED")
    /\ Move(c, "failing")

\* A timeout or an OSError is answered; anything else (a host name that cannot
\* be encoded: UnicodeError, ValueError) leaves the session CONNECTING.
ConnectFails(c) ==
    /\ handler[c] = "connecting"
    /\ \/ Type[ForwarderOf[c]] = "socks5" /\ Move(c, "refusing") /\ UNCHANGED <<state, client_open>>
       \/ Type[ForwarderOf[c]] = "tcp" /\ GiveUp(c)
       \/ Abandon(c) /\ UNCHANGED state
    /\ UNCHANGED <<engineVars, known, mapVars, task, held, server_open,
                   eventVars, deletes>>

Refused(c) ==
    /\ handler[c] = "refusing"
    /\ GiveUp(c)
    /\ UNCHANGED <<engineVars, known, mapVars, task, held, server_open,
                   eventVars, deletes>>

FailurePublished(c) ==
    /\ handler[c] = "failing"
    /\ Move(c, "ended")
    /\ UNCHANGED <<engineVars, registryVars, mapVars, task, held, socketVars,
                   eventVars, deletes>>

Replied(c) ==
    /\ handler[c] = "replying"
    /\ \/ Activate(c) /\ UNCHANGED socketVars
       \/ /\ client_open' = client_open \ {c}      \* the reply failed
          /\ server_open' = server_open \ {c}
          /\ Mark(c, "CLOSED")
          /\ Move(c, "ended")
          /\ UNCHANGED writers
    /\ UNCHANGED <<engineVars, known, relays, tasks, task, held, eventVars,
                   deletes>>

\* After SessionOpenedEvent: create the framers, the relay and the session
\* task.  An exception from a framer ends the handler there, with the session
\* ACTIVE and its writers registered.
StartTask(c) ==
    /\ handler[c] = "opening"
    /\ opened' = opened \cup {c}
    /\ \/ /\ Move(c, "ended")
          /\ relays' = relays \cup {c}
          /\ tasks' = tasks \cup {c}
          /\ task' = [task EXCEPT ![c] = "scheduled"]
          /\ UNCHANGED client_open
       \/ Abandon(c) /\ UNCHANGED <<relays, tasks, task>>
    /\ UNCHANGED <<engineVars, registryVars, writers, held, server_open, closed,
                   deletes>>

Handler(c) == \/ Connected(c) \/ ConnectFails(c) \/ Refused(c)
              \/ FailurePublished(c) \/ Replied(c) \/ StartTask(c)

------------------------------------------------------------------------------
(* The session task                                                         *)

Goto(c, s) == task' = [task EXCEPT ![c] = s]

SessionBegins(c) ==
    /\ task[c] = "scheduled"
    /\ Goto(c, "running")
    /\ UNCHANGED <<engineVars, handler, registryVars, mapVars, held, socketVars,
                   eventVars, deletes>>

\* A frame is held for the operator; while unwinding, the framer's rest.
HoldFrame(c) ==
    /\ c \notin held
    /\ \/ task[c] = "running" /\ UNCHANGED task
       \/ task[c] = "unwinding" /\ Goto(c, "flushing")
    /\ held' = held \cup {c}
    /\ UNCHANGED <<engineVars, handler, registryVars, mapVars, socketVars,
                   eventVars, deletes>>

\* Both relays ended: by themselves when both peers are gone.
PeersGone(c) ==
    /\ task[c] = "running" /\ c \notin held
    /\ Goto(c, "closing")
    /\ UNCHANGED <<engineVars, handler, registryVars, mapVars, held, socketVars,
                   eventVars, deletes>>

Unwound(c) ==
    /\ task[c] \in {"unwinding", "flushing"} /\ c \notin held
    /\ Goto(c, "closing")
    /\ UNCHANGED <<engineVars, handler, registryVars, mapVars, held, socketVars,
                   eventVars, deletes>>

\* BidirectionalRelay._close_all_writers: close the client's writer, wait until
\* it has sent the rest and is closed, then the same for the server's.
CloseClient(c) ==
    /\ task[c] = "closing"
    /\ client_open' = client_open \ {c}
    /\ Goto(c, "closing_client")
    /\ UNCHANGED <<engineVars, handler, registryVars, mapVars, held, server_open,
                   eventVars, deletes>>

CloseServer(c) ==
    /\ task[c] = "closing_client"
    /\ server_open' = server_open \ {c}
    /\ Goto(c, "closing_server")
    /\ UNCHANGED <<engineVars, handler, registryVars, mapVars, held, client_open,
                   eventVars, deletes>>

\* Slip: the writers stay registered.
CleanUpRegistered(c) ==
    /\ relays' = relays \ {c}
    /\ Mark(c, "CLOSED")
    /\ Goto(c, "publishing")
    /\ UNCHANGED <<engineVars, handler, known, writers, tasks, held, socketVars,
                   eventVars, deletes>>

\* _run_session's finally block, up to the SessionClosedEvent.
CleanUp(c) ==
    /\ writers' = writers \ {c}
    /\ relays' = relays \ {c}
    /\ Mark(c, "CLOSED")
    /\ Goto(c, "publishing")
    /\ UNCHANGED <<engineVars, handler, known, tasks, held, socketVars, eventVars,
                   deletes>>

\* The server's writer is closed too, or the waiting was cancelled.
Closed(c) == task[c] = "closing_server" /\ CleanUp(c)
Interrupted(c) == task[c] = "cleanup" /\ CleanUp(c)

ClosedPublished(c) ==
    /\ task[c] = "publishing"
    /\ closed' = closed \cup {c}
    /\ Goto(c, "ended")
    /\ UNCHANGED <<engineVars, handler, registryVars, mapVars, held, socketVars,
                   opened, deletes>>

\* The done-callback of the task.
Reap(c) ==
    /\ task[c] \in {"ended", "never_ran"} /\ c \in tasks
    /\ tasks' = tasks \ {c}
    /\ UNCHANGED <<engineVars, handler, registryVars, writers, relays, task,
                   held, socketVars, eventVars, deletes>>

\* What the event loop alone makes a session task do, and what also needs the
\* peer, whose closing sends what is buffered first and has no timeout.
SessionStep(c) == \/ SessionBegins(c) \/ Unwound(c) \/ CloseClient(c)
                  \/ Interrupted(c) \/ ClosedPublished(c) \/ Reap(c)
ClosedStep(c) == CloseServer(c) \/ Closed(c)

------------------------------------------------------------------------------
(* Cancellation                                                             *)

\* Cancelled before its first step a task never enters its body.  Cancelled
\* while it waits for a peer it goes on with the clean-up, and the server's
\* socket stays open if the client's was waited for; while publishing it
\* delivers no SessionClosedEvent.
AfterCancel(s) ==
    CASE s = "scheduled"                          -> "never_ran"
      [] s = "running"                            -> "unwinding"
      [] s \in {"unwinding", "flushing"}          -> "closing"
      [] s \in {"closing_client", "closing_server"} -> "cleanup"
      [] s = "publishing"                         -> "ended"
      [] OTHER                                    -> s

\* task.cancel() on the session tasks of S; the gate drops what they held.
Cancel(S) ==
    /\ task' = [c \in Conn |-> IF c \in S THEN AfterCancel(task[c]) ELSE task[c]]
    /\ held' = held \ S

\* terminate_session(); without a task it returns False and does nothing.
Terminate(c) ==
    /\ c \in tasks /\ task[c] # "ended"
    /\ Cancel({c})
    /\ UNCHANGED <<engineVars, handler, registryVars, mapVars, socketVars,
                   eventVars, deletes>>

------------------------------------------------------------------------------
(* Starting and stopping a forwarder                                        *)

Start(f) ==
    /\ server[f] = "none" /\ starts[f] < MaxStarts
    /\ server' = [server EXCEPT ![f] = "listening"]
    /\ starts' = [starts EXCEPT ![f] = @ + 1]
    /\ UNCHANGED <<stop, awaiting, handler, registryVars, mapVars, task, held,
                   socketVars, eventVars, deletes>>

\* stop(): close the listener, cancel the tasks registered now, gather them.
StopBegin(f) ==
    LET S == {c \in tasks : ForwarderOf[c] = f} IN
    /\ server[f] = "listening"
    /\ server' = [server EXCEPT ![f] = "closed"]
    /\ stop' = [stop EXCEPT ![f] = "gather"]
    /\ awaiting' = [awaiting EXCEPT ![f] = S]
    /\ Cancel(S)
    /\ UNCHANGED <<starts, handler, registryVars, mapVars, socketVars, eventVars,
                   deletes>>

\* _server = None, then the tamper controller's shutdown(), which forwards
\* whatever is held, for any forwarder.
StopEnds(f) ==
    /\ server' = [server EXCEPT ![f] = "none"]
    /\ stop' = [stop EXCEPT ![f] = "idle"]
    /\ held' = {}

Gathered(f) ==
    /\ stop[f] = "gather"
    /\ \A c \in awaiting[f] : task[c] \in {"ended", "never_ran"}
    /\ IF WaitClosedBlocks
       THEN stop' = [stop EXCEPT ![f] = "wait_closed"] /\ UNCHANGED <<server, held>>
       ELSE StopEnds(f)
    /\ UNCHANGED <<starts, awaiting, handler, registryVars, mapVars, task,
                   socketVars, eventVars, deletes>>

ConnectionsOf(f) == {c \in Conn : ForwarderOf[c] = f}

WaitedClosed(f) ==
    /\ stop[f] = "wait_closed"
    /\ ConnectionsOf(f) \cap client_open = {}
    /\ StopEnds(f)
    /\ UNCHANGED <<starts, awaiting, handler, registryVars, mapVars, task,
                   socketVars, eventVars, deletes>>

StopStep(f) == Gathered(f) \/ WaitedClosed(f)

------------------------------------------------------------------------------
(* The operator                                                             *)

Verdict(c) ==
    /\ c \in held
    /\ held' = held \ {c}
    /\ UNCHANGED <<engineVars, handler, registryVars, mapVars, task, socketVars,
                   eventVars, deletes>>

\* delete_session(): the record goes, the connection stays.
Delete(c) ==
    /\ c \in known /\ deletes < MaxDeletes
    /\ deletes' = deletes + 1
    /\ known' = known \ {c}
    /\ UNCHANGED <<engineVars, handler, state, mapVars, task, held, socketVars,
                   eventVars>>

Next ==
    \/ \E c \in Conn : \/ Accept(c) \/ Negotiated(c) \/ Handler(c)
                       \/ SessionStep(c) \/ ClosedStep(c) \/ HoldFrame(c) \/ PeersGone(c)
                       \/ Terminate(c) \/ Verdict(c) \/ Delete(c)
    \/ \E f \in Forwarder : Start(f) \/ StopBegin(f) \/ StopStep(f)

Spec == Init /\ [][Next]_vars

\* Ready tasks run, and connecting ends, if only by connect_timeout; nothing
\* is assumed of clients (a SOCKS5 handshake has no timeout) or of the operator.
LoopFairness == /\ \A c \in Conn : WF_vars(Handler(c)) /\ WF_vars(SessionStep(c))
                /\ \A f \in Forwarder : WF_vars(StopStep(f))

\* Peers read what is sent to them, so that a closed transport gets closed.
PeersRead == \A c \in Conn : WF_vars(ClosedStep(c))

FairSpec == Spec /\ LoopFairness /\ PeersRead

------------------------------------------------------------------------------
(* Properties                                                               *)

\* A TCP forwarder checks max_sessions and creates the session in one step:
\* its live sessions never exceed the limit, even when handlers race.
TcpSessionLimit ==
    \A f \in Forwarder : Type[f] = "tcp" /\ MaxSessions[f] > 0 =>
        Cardinality(ActiveSessions \cap ConnectionsOf(f)) <= MaxSessions[f]

\* SessionClosedEvent is the last word: it follows SessionOpenedEvent, and by
\* then nothing of the session is left to inject into or to decide, and the
\* session is CLOSED unless its record was deleted before.
ClosedEventIsLast ==
    \A c \in closed : /\ c \in opened
                      /\ c \notin writers \cup relays \cup held
                      /\ c \notin client_open
                      /\ c \in known => state[c] = "CLOSED"

\* A session that is called CLOSED is over, however it came to that: a failed
\* or refused connection, a failed reply, both relays ended, a cancellation at
\* any of its stages.  Its client is disconnected, nothing can be injected, no
\* relay runs and no frame of it is held; only the server's socket may have
\* been left open, by a cancellation while the client's was waited for.
ClosedIsOver ==
    \A c \in known : state[c] = "CLOSED" =>
        c \notin client_open \cup writers \cup relays \cup held

\* As long as a session's relay runs, injection finds the writers of both of
\* its sockets, and both are open.  (From then on until the clean-up it finds
\* a writer that is closed.)
RunningIsInjectable ==
    \A c \in Conn : task[c] \in {"running", "unwinding", "flushing"} =>
        c \in writers \cap relays \cap client_open \cap server_open

\* Whoever waits on a held frame is a session whose relay is still running,
\* and no frame stays held that nobody waits for.
HeldIsAwaited == \A c \in held : task[c] \in {"running", "flushing"}

\* The registry's word, the engine's maps, the sockets and the controller's
\* held frames tell the same of a session, whatever its handler and its task
\* have gone through.
SessionsAgree == TypeOK /\ ClosedIsOver /\ RunningIsInjectable /\ HeldIsAwaited

\* stop() gets past its cancelled session tasks: every one of them ends.
StopGathers == \A f \in Forwarder : stop[f] = "gather" ~> stop[f] # "gather"

------------------------------------------------------------------------------
(* What the code's documentation says and this code does not do             *)

\* config.md: max_sessions is the number of "concurrent sessions".
SessionLimit ==
    \A f \in Forwarder : MaxSessions[f] > 0 =>
        Cardinality(ActiveSessions \cap ConnectionsOf(f)) <= MaxSessions[f]

\* models.py: CONNECTING is "Client accepted; connecting to server", ACTIVE
\* "Both sides up; data flowing": somebody connects, or runs the session.
LiveIsServed ==
    \A c \in ActiveSessions :
        \/ handler[c] \notin {"none", "ended"}
        \/ task[c] \notin {"none", "never_ran", "ended"}

\* inject_to_client() and inject_to_server(): "Returns True on success, False if
\* the session is not active".
WritersAreOpen ==
    \A c \in writers : c \in client_open /\ c \in server_open

\* stop(), after the gather: "All connections are now closed; wait_closed()
\* returns immediately."
StopClosesConnections ==
    \A f \in Forwarder : stop[f] = "wait_closed" =>
        ConnectionsOf(f) \cap client_open = {}
==============================================================================
