-------------------------- MODULE ProxyEngineProofs --------------------------
(***************************************************************************)
(* Theorems about the proxy engine for any number of connections,          *)
(* forwarders, starts and deletions.  IInv is the inductive invariant they *)
(* rest on; ConnInv, its heart, says of one connection what each stage of  *)
(* its handler and of its session task has acquired and not yet given up.  *)
(***************************************************************************)
EXTENDS ProxyEngine, FiniteSetTheorems, TLAPS

\* Stages of a session task: its relay runs; it closes the sockets; it has
\* still to clean up after the session.
Running == {"running", "unwinding", "flushing"}
Closing == {"closing_client", "closing_server", "cleanup"}
InCharge == {"scheduled", "closing", "never_ran"} \cup Running \cup Closing

\* What the handler holds; the session task takes over where it ends.
HandlerInv(c) ==
    /\ handler[c] \in {"none", "negotiating"} => c \notin known
    /\ handler[c] = "negotiating" => Type[ForwarderOf[c]] = "socks5"
    /\ handler[c] \in {"negotiating", "connecting", "refusing", "replying", "opening"} => c \in client_open
    /\ handler[c] \in {"replying", "opening"} => c \in server_open
    /\ handler[c] \in {"connecting", "refusing", "replying"} /\ c \in known => state[c] = "CONNECTING"
    /\ handler[c] = "opening" => c \in writers /\ (c \in known => Live(c))
    /\ handler[c] # "ended" => c \notin opened /\ (handler[c] # "opening" => c \notin writers)
    /\ c \notin opened => task[c] = "none"
    /\ handler[c] = "ended" /\ c \notin opened => c \notin writers

\* What the session task holds, and has given up when it is over.
TaskInv(c) ==
    /\ task[c] = "none" => c \notin tasks
    /\ c \in relays => task[c] \in InCharge
    /\ c \in writers => task[c] \in InCharge \cup {"none"}
    /\ task[c] \in {"scheduled"} \cup Running => c \in writers \cap relays \cap client_open \cap server_open
    /\ task[c] \in InCharge /\ c \in known => Live(c)
    /\ c \in held => task[c] \in {"running", "flushing"}
    /\ task[c] \in Closing => c \notin client_open
    /\ task[c] \in {"publishing", "ended"} => c \notin client_open /\ (c \in known => state[c] = "CLOSED")
    /\ c \in closed => task[c] = "ended"

\* What CLOSED means of one connection.
OverInv(c) ==
    c \in known /\ state[c] = "CLOSED" => c \notin client_open \cup writers \cup relays \cup held

ConnInv(c) == HandlerInv(c) /\ TaskInv(c) /\ OverInv(c)

IInv ==
    /\ TypeOK
    /\ IsFiniteSet(known)
    /\ \A c \in Conn : ConnInv(c)
    /\ TcpSessionLimit

------------------------------------------------------------------------------
(* Types                                                                    *)

\* Every step keeps every variable in its type.
LEMMA TypeStep ==
  ASSUME TypeOK, [Next]_vars
  PROVE  TypeOK'
<1> USE EngineAssumption DEF TypeOK, engineVars, registryVars, mapVars, socketVars, eventVars
<1>c. ASSUME NEW S \in SUBSET Conn, Cancel(S)
      PROVE  /\ task' \in [Conn -> {"none", "scheduled", "running", "unwinding",
                                    "flushing", "closing", "closing_client",
                                    "closing_server", "cleanup", "publishing", "ended",
                                    "never_ran"}]
             /\ held' \subseteq Conn
  BY <1>c DEF Cancel, AfterCancel
<1>1. ASSUME NEW c \in Conn, Accept(c) PROVE TypeOK'
  BY <1>1 DEF Accept, Create, Move
<1>2. ASSUME NEW c \in Conn, Negotiated(c) PROVE TypeOK'
  BY <1>2 DEF Negotiated, Abandon, Create, Move
<1>3. ASSUME NEW c \in Conn, Connected(c) PROVE TypeOK'
  BY <1>3 DEF Connected, Activate, Mark, Move
<1>4. ASSUME NEW c \in Conn, ConnectFails(c) PROVE TypeOK'
  BY <1>4 DEF ConnectFails, Abandon, GiveUp, Mark, Move
<1>5. ASSUME NEW c \in Conn, Refused(c) PROVE TypeOK'
  BY <1>5 DEF Refused, GiveUp, Mark, Move
<1>6. ASSUME NEW c \in Conn, FailurePublished(c) PROVE TypeOK'
  BY <1>6 DEF FailurePublished, Move
<1>7. ASSUME NEW c \in Conn, Replied(c) PROVE TypeOK'
  BY <1>7 DEF Replied, Activate, Mark, Move
<1>8. ASSUME NEW c \in Conn, StartTask(c) PROVE TypeOK'
  BY <1>8 DEF StartTask, Abandon, Move
<1>9. ASSUME NEW c \in Conn, SessionBegins(c) PROVE TypeOK'
  BY <1>9 DEF SessionBegins, Goto
<1>10. ASSUME NEW c \in Conn, Unwound(c) PROVE TypeOK'
  BY <1>10 DEF Unwound, Goto
<1>11. ASSUME NEW c \in Conn, Closed(c) \/ Interrupted(c) PROVE TypeOK'
  BY <1>11 DEF Closed, Interrupted, CleanUp, Mark, Goto
<1>23. ASSUME NEW c \in Conn, CloseClient(c) PROVE TypeOK'
  BY <1>23 DEF CloseClient, Goto
<1>24. ASSUME NEW c \in Conn, CloseServer(c) PROVE TypeOK'
  BY <1>24 DEF CloseServer, Goto
<1>12. ASSUME NEW c \in Conn, ClosedPublished(c) PROVE TypeOK'
  BY <1>12 DEF ClosedPublished, Goto
<1>13. ASSUME NEW c \in Conn, Reap(c) PROVE TypeOK'
  BY <1>13 DEF Reap
<1>14. ASSUME NEW c \in Conn, HoldFrame(c) PROVE TypeOK'
  BY <1>14 DEF HoldFrame, Goto
<1>15. ASSUME NEW c \in Conn, PeersGone(c) PROVE TypeOK'
  BY <1>15 DEF PeersGone, Goto
<1>16. ASSUME NEW c \in Conn, Verdict(c) PROVE TypeOK'
  BY <1>16 DEF Verdict
<1>17. ASSUME NEW c \in Conn, Delete(c) PROVE TypeOK'
  BY <1>17 DEF Delete
<1>18. ASSUME NEW c \in Conn, Terminate(c) PROVE TypeOK'
  BY <1>c, <1>18 DEF Terminate
<1>19. ASSUME NEW f \in Forwarder, Start(f) PROVE TypeOK'
  BY <1>19 DEF Start
<1>20. ASSUME NEW f \in Forwarder, StopBegin(f) PROVE TypeOK'
  BY <1>c, <1>20 DEF StopBegin
<1>21. ASSUME NEW f \in Forwarder, StopStep(f) PROVE TypeOK'
  BY <1>21 DEF StopStep, Gathered, WaitedClosed, StopEnds
<1>22. CASE UNCHANGED vars
  BY <1>22 DEF vars
<1> HIDE DEF TypeOK
<1> QED
  BY <1>1, <1>2, <1>3, <1>4, <1>5, <1>6, <1>7, <1>8, <1>9, <1>10, <1>11,
     <1>12, <1>13, <1>14, <1>15, <1>16, <1>17, <1>18, <1>19, <1>20, <1>21, <1>22, <1>23, <1>24 DEF Next, Handler, SessionStep, ClosedStep

------------------------------------------------------------------------------
(* One connection                                                           *)

\* Each step of a handler, of a session task or of a cancellation hands over
\* what it holds to the next owner, or gives it up.
LEMMA ConnStep ==
  ASSUME TypeOK, \A c \in Conn : ConnInv(c), [Next]_vars
  PROVE  \A c \in Conn : ConnInv(c)'
<1> USE EngineAssumption DEF TypeOK, ConnInv, HandlerInv, TaskInv, OverInv, InCharge, Running, Closing, Live, engineVars, registryVars, mapVars, socketVars, eventVars
<1>c. ASSUME NEW S \in SUBSET tasks, Cancel(S), UNCHANGED <<handler, registryVars, mapVars, socketVars, eventVars>>
      PROVE  \A x \in Conn : ConnInv(x)'
  BY <1>c DEF Cancel, AfterCancel
<1>1. ASSUME NEW c \in Conn, Accept(c) PROVE \A x \in Conn : ConnInv(x)'
  BY <1>1 DEF Accept, Create, Move
<1>2. ASSUME NEW c \in Conn, Negotiated(c) PROVE \A x \in Conn : ConnInv(x)'
  BY <1>2 DEF Negotiated, Abandon, Create, Move
<1>3. ASSUME NEW c \in Conn, Connected(c) PROVE \A x \in Conn : ConnInv(x)'
  BY <1>3 DEF Connected, Activate, Mark, Move
<1>4. ASSUME NEW c \in Conn, ConnectFails(c) PROVE \A x \in Conn : ConnInv(x)'
  BY <1>4 DEF ConnectFails, Abandon, GiveUp, Mark, Move
<1>5. ASSUME NEW c \in Conn, Refused(c) PROVE \A x \in Conn : ConnInv(x)'
  BY <1>5 DEF Refused, GiveUp, Mark, Move
<1>6. ASSUME NEW c \in Conn, FailurePublished(c) PROVE \A x \in Conn : ConnInv(x)'
  BY <1>6 DEF FailurePublished, Move
<1>7. ASSUME NEW c \in Conn, Replied(c) PROVE \A x \in Conn : ConnInv(x)'
  BY <1>7 DEF Replied, Activate, Mark, Move
<1>8. ASSUME NEW c \in Conn, StartTask(c) PROVE \A x \in Conn : ConnInv(x)'
  BY <1>8 DEF StartTask, Abandon, Move
<1>9. ASSUME NEW c \in Conn, SessionBegins(c) PROVE \A x \in Conn : ConnInv(x)'
  BY <1>9 DEF SessionBegins, Goto
<1>10. ASSUME NEW c \in Conn, Unwound(c) PROVE \A x \in Conn : ConnInv(x)'
  BY <1>10 DEF Unwound, Goto
<1>11. ASSUME NEW c \in Conn, Closed(c) \/ Interrupted(c) PROVE \A x \in Conn : ConnInv(x)'
  BY <1>11 DEF Closed, Interrupted, CleanUp, Mark, Goto
<1>23. ASSUME NEW c \in Conn, CloseClient(c) PROVE \A x \in Conn : ConnInv(x)'
  BY <1>23 DEF CloseClient, Goto
<1>24. ASSUME NEW c \in Conn, CloseServer(c) PROVE \A x \in Conn : ConnInv(x)'
  BY <1>24 DEF CloseServer, Goto
<1>12. ASSUME NEW c \in Conn, ClosedPublished(c) PROVE \A x \in Conn : ConnInv(x)'
  BY <1>12 DEF ClosedPublished, Goto
<1>13. ASSUME NEW c \in Conn, Reap(c) PROVE \A x \in Conn : ConnInv(x)'
  BY <1>13 DEF Reap
<1>14. ASSUME NEW c \in Conn, HoldFrame(c) PROVE \A x \in Conn : ConnInv(x)'
  BY <1>14 DEF HoldFrame, Goto
<1>15. ASSUME NEW c \in Conn, PeersGone(c) PROVE \A x \in Conn : ConnInv(x)'
  BY <1>15 DEF PeersGone, Goto
<1>16. ASSUME NEW c \in Conn, Verdict(c) PROVE \A x \in Conn : ConnInv(x)'
  BY <1>16 DEF Verdict
<1>17. ASSUME NEW c \in Conn, Delete(c) PROVE \A x \in Conn : ConnInv(x)'
  BY <1>17 DEF Delete
<1>18. ASSUME NEW c \in Conn, Terminate(c) PROVE \A x \in Conn : ConnInv(x)'
  BY <1>c, <1>18 DEF Terminate
<1>19. ASSUME NEW f \in Forwarder, Start(f) PROVE \A x \in Conn : ConnInv(x)'
  BY <1>19 DEF Start
<1>20. ASSUME NEW f \in Forwarder, StopBegin(f) PROVE \A x \in Conn : ConnInv(x)'
  BY <1>c, <1>20 DEF StopBegin
<1>21. ASSUME NEW f \in Forwarder, StopStep(f) PROVE \A x \in Conn : ConnInv(x)'
  BY <1>21 DEF StopStep, Gathered, WaitedClosed, StopEnds
<1>22. CASE UNCHANGED vars
  BY <1>22 DEF vars
<1> HIDE DEF TypeOK, ConnInv
<1> QED
  BY <1>1, <1>2, <1>3, <1>4, <1>5, <1>6, <1>7, <1>8, <1>9, <1>10, <1>11,
     <1>12, <1>13, <1>14, <1>15, <1>16, <1>17, <1>18, <1>19, <1>20, <1>21, <1>22, <1>23, <1>24 DEF Next, Handler, SessionStep, ClosedStep

------------------------------------------------------------------------------
(* The limit                                                                *)

LiveAt(f) == ActiveSessions \cap ConnectionsOf(f)

\* At a TCP forwarder only an accepted connection makes a session live, and
\* only while the registry as a whole is below the limit: a handler activates
\* a session that counts already, and everything else ends one.
LEMMA LiveStep ==
  ASSUME TypeOK, \A c \in Conn : ConnInv(c), [Next]_vars,
         NEW f \in Forwarder, Type[f] = "tcp"
  PROVE  \/ LiveAt(f)' \subseteq LiveAt(f)
         \/ ~LimitReached(f) /\ \E c \in Conn : LiveAt(f)' \subseteq LiveAt(f) \cup {c}
<1> USE EngineAssumption DEF TypeOK, LiveAt, ActiveSessions, ConnectionsOf, Live, registryVars
<1> DEFINE Fewer == LiveAt(f)' \subseteq LiveAt(f)
<1>s. ASSUME UNCHANGED registryVars PROVE Fewer
  BY <1>s
<1>m. ASSUME NEW c \in Conn, Mark(c, "CLOSED"), UNCHANGED known PROVE Fewer
  BY <1>m DEF Mark
<1>a. ASSUME NEW c \in Conn, Activate(c), UNCHANGED known, handler[c] \in {"connecting", "replying"}
      PROVE  Fewer
  BY <1>a DEF Activate, Mark, ConnInv, HandlerInv
<1>1. ASSUME NEW c \in Conn, Accept(c)
      PROVE  Fewer \/ (~LimitReached(f) /\ LiveAt(f)' \subseteq LiveAt(f) \cup {c})
  <2>1. CASE UNCHANGED registryVars
    BY <1>s, <2>1
  <2>2. CASE ~LimitReached(ForwarderOf[c]) /\ Create(c)
    <3>1. CASE ForwarderOf[c] = f
      BY <2>2, <3>1 DEF Create
    <3>2. CASE ForwarderOf[c] # f
      BY <2>2, <3>2 DEF Create
    <3> QED
      BY <3>1, <3>2
  <2> QED
    BY <1>1, <2>1, <2>2 DEF Accept
<1>2. ASSUME NEW c \in Conn, Negotiated(c) PROVE Fewer
  <2>1. ForwarderOf[c] # f
    BY <1>2 DEF Negotiated, ConnInv, HandlerInv
  <2> QED
    BY <1>2, <1>s, <2>1 DEF Negotiated, Create
<1>3. ASSUME NEW c \in Conn, Connected(c) \/ Replied(c) PROVE Fewer
  BY <1>3, <1>a, <1>m, <1>s DEF Connected, Replied
<1>4. ASSUME NEW c \in Conn, ConnectFails(c) \/ Refused(c) \/ Closed(c) \/ Interrupted(c) PROVE Fewer
  BY <1>4, <1>m, <1>s DEF ConnectFails, Refused, GiveUp, Closed, Interrupted, CleanUp
<1>5. ASSUME NEW c \in Conn,
             \/ FailurePublished(c) \/ StartTask(c) \/ SessionBegins(c) \/ Unwound(c)
             \/ ClosedPublished(c) \/ Reap(c) \/ HoldFrame(c) \/ PeersGone(c) \/ Verdict(c)
             \/ CloseClient(c) \/ CloseServer(c) \/ Terminate(c)
      PROVE  Fewer
  BY <1>5, <1>s DEF FailurePublished, StartTask, SessionBegins, Unwound, ClosedPublished,
                    Reap, HoldFrame, PeersGone, Verdict, CloseClient, CloseServer, Terminate
<1>6. ASSUME NEW c \in Conn, Delete(c) PROVE Fewer
  BY <1>6 DEF Delete
<1>7. ASSUME NEW g \in Forwarder, Start(g) \/ StopBegin(g) \/ StopStep(g) PROVE Fewer
  BY <1>7, <1>s DEF Start, StopBegin, StopStep, Gathered, WaitedClosed
<1>8. ASSUME UNCHANGED vars PROVE Fewer
  BY <1>8, <1>s DEF vars
<1> HIDE DEF TypeOK, LiveAt
<1> QED
  BY <1>1, <1>2, <1>3, <1>4, <1>5, <1>6, <1>7, <1>8 DEF Next, Handler, SessionStep, ClosedStep

\* The registry stays finite.
LEMMA KnownStep ==
  ASSUME IsFiniteSet(known), [Next]_vars
  PROVE  IsFiniteSet(known')
<1>1. \/ known' \subseteq known
      \/ \E c \in Conn : known' = known \cup {c}
  BY DEF Next, Handler, SessionStep, ClosedStep, StopStep, Accept, Negotiated, Create, Connected, ConnectFails,
         Refused, FailurePublished, Replied, StartTask, SessionBegins, Unwound, CloseClient,
         CloseServer, Closed, Interrupted, CleanUp,
         ClosedPublished, Reap, HoldFrame, PeersGone, Terminate, Verdict, Delete, Start,
         StopBegin, Gathered, WaitedClosed, registryVars, vars
<1>2. CASE known' \subseteq known
  BY <1>2, FS_Subset
<1>3. ASSUME NEW c \in Conn, known' = known \cup {c} PROVE IsFiniteSet(known')
  BY <1>3, FS_AddElement
<1> QED
  BY <1>1, <1>2, <1>3

\* The live sessions of a TCP forwarder never exceed its limit.
LEMMA LimitStep ==
  ASSUME TypeOK, IsFiniteSet(known), \A c \in Conn : ConnInv(c), TcpSessionLimit,
         [Next]_vars
  PROVE  TcpSessionLimit'
<1> SUFFICES ASSUME NEW f \in Forwarder, Type[f] = "tcp", MaxSessions[f] > 0
             PROVE  Cardinality(LiveAt(f)') <= MaxSessions[f]
  BY DEF TcpSessionLimit, LiveAt, ConnectionsOf
<1> DEFINE max == MaxSessions[f]
           n == Cardinality(LiveAt(f))
<1>0. max \in Nat
  BY EngineAssumption
<1>1. IsFiniteSet(ActiveSessions) /\ LiveAt(f) \subseteq ActiveSessions
  BY FS_Subset DEF ActiveSessions, LiveAt
<1>2. IsFiniteSet(LiveAt(f)) /\ n <= Cardinality(ActiveSessions)
  BY <1>1, FS_Subset
<1>3. n \in Nat /\ Cardinality(ActiveSessions) \in Nat
  BY <1>1, <1>2, FS_CardinalityType
<1>4. n <= max
  BY DEF TcpSessionLimit, LiveAt
<1>5. CASE LiveAt(f)' \subseteq LiveAt(f)
  <2>1. Cardinality(LiveAt(f)') <= n /\ Cardinality(LiveAt(f)') \in Nat
    BY <1>2, <1>5, FS_Subset, FS_CardinalityType
  <2> QED
    BY <1>0, <1>3, <1>4, <2>1
<1>6. ASSUME ~LimitReached(f), NEW c \in Conn, LiveAt(f)' \subseteq LiveAt(f) \cup {c}
      PROVE  Cardinality(LiveAt(f)') <= max
  <2> DEFINE More == LiveAt(f) \cup {c}
  <2>1. IsFiniteSet(More) /\ Cardinality(More) = IF c \in LiveAt(f) THEN n ELSE n + 1
    BY <1>2, FS_AddElement
  <2>2. Cardinality(LiveAt(f)') <= Cardinality(More)
    BY <1>6, <2>1, FS_Subset
  <2>3. Cardinality(More) \in Nat /\ Cardinality(LiveAt(f)') \in Nat
    BY <1>6, <2>1, FS_Subset, FS_CardinalityType
  <2>4. n + 1 <= max
    BY <1>0, <1>2, <1>3, <1>6 DEF LimitReached
  <2> HIDE DEF More, n, max
  <2> QED
    BY <1>0, <1>3, <2>1, <2>2, <2>3, <2>4
<1> QED
  BY <1>5, <1>6, LiveStep

------------------------------------------------------------------------------
(* The theorems                                                             *)

\* The inductive invariant holds initially, and every step keeps it.
LEMMA IInvHolds == Spec => []IInv
<1>1. Init => IInv
  <2> SUFFICES ASSUME Init PROVE IInv
    OBVIOUS
  <2> USE EngineAssumption DEF Init
  <2>1. TypeOK
    BY DEF TypeOK
  <2>2. \A c \in Conn : ConnInv(c)
    BY DEF ConnInv, HandlerInv, TaskInv, OverInv, InCharge, Running, Closing
  <2>3. IsFiniteSet(known) /\ Cardinality({}) = 0
    BY FS_EmptySet
  <2>4. TcpSessionLimit
    <3> HIDE DEF Init
    <3>1. ASSUME NEW f \in Forwarder, MaxSessions[f] > 0
          PROVE  Cardinality(ActiveSessions \cap ConnectionsOf(f)) <= MaxSessions[f]
      <4>1. ActiveSessions \cap ConnectionsOf(f) = {}
        BY DEF ActiveSessions, Init
      <4>2. Cardinality(ActiveSessions \cap ConnectionsOf(f)) = 0
        BY <2>3, <4>1
      <4>3. MaxSessions[f] \in Nat
        OBVIOUS
      <4> QED
        BY <4>2, <4>3
    <3> QED
      BY <3>1 DEF TcpSessionLimit
  <2> QED
    BY <2>1, <2>2, <2>3, <2>4 DEF IInv
<1>2. IInv /\ [Next]_vars => IInv'
  BY TypeStep, ConnStep, KnownStep, LimitStep DEF IInv
<1> QED
  BY <1>1, <1>2, PTL DEF Spec

\* For any number of racing connections, a TCP forwarder never has more live
\* sessions than its limit.
THEOREM TcpLimitHolds == Spec => []TcpSessionLimit
<1>1. IInv => TcpSessionLimit
  BY DEF IInv
<1> QED
  BY <1>1, IInvHolds, PTL

\* A session called CLOSED is over, one whose relay runs is injectable with
\* both sockets open, and a held frame has a relay that waits for it, whatever
\* is terminated, stopped or deleted meanwhile and whatever handlers raise.
THEOREM SessionsAlwaysAgree == Spec => []SessionsAgree
<1>1. IInv => SessionsAgree
  <2> SUFFICES ASSUME IInv PROVE SessionsAgree
    OBVIOUS
  <2>1. TypeOK /\ \A c \in Conn : ConnInv(c)
    BY DEF IInv
  <2>2. ClosedIsOver
    BY <2>1 DEF ClosedIsOver, ConnInv, OverInv, TypeOK
  <2>3. RunningIsInjectable /\ HeldIsAwaited
    BY <2>1 DEF RunningIsInjectable, HeldIsAwaited, ConnInv, TaskInv, Running, TypeOK
  <2> QED
    BY <2>1, <2>2, <2>3 DEF SessionsAgree
<1> QED
  BY <1>1, IInvHolds, PTL

\* SessionClosedEvent is the last word on a session: nothing of it is left to
\* inject into, to decide or to close.
THEOREM ClosedEventIsAlwaysLast == Spec => []ClosedEventIsLast
<1>1. IInv => ClosedEventIsLast
  BY DEF IInv, ClosedEventIsLast, ConnInv, HandlerInv, TaskInv, InCharge, Running, Closing, TypeOK
<1> QED
  BY <1>1, IInvHolds, PTL
==============================================================================
