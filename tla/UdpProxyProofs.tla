---------------------------- MODULE UdpProxyProofs ---------------------------
(***************************************************************************)
(* Theorems about a UDP forwarder for any number of datagrams, clients,    *)
(* starts and calls.  IInv is the inductive invariant they all rest on.    *)
(***************************************************************************)
EXTENDS UdpProxy, FiniteSetTheorems, TLAPS

\* Where a datagram's task stands and where its unit stands in the gate.
TaskInv(t) ==
    /\ task[t] \in {"unsent", "arrived", "opening", "failing", "announcing", "captured"}
          => stage[t] = "new"
    /\ task[t] = "held" => stage[t] \in {"held", "decided"}
    /\ task[t] \in {"completed", "relogged"} => stage[t] = "released"
    /\ stage[t] = "held" => task[t] = "held"
    /\ stage[t] \in {"decided", "released"} => verdict[t] \in Gate!Action
    /\ task[t] = "captured" \/ stage[t] # "new" => flow[t] \in Datagram
    /\ t \in Reply => task[t] \notin {"opening", "failing", "announcing"}

\* An edited datagram is in the log of its flow before it is sent.
EditLogged(t) == \E f \in log[flow[t]] : f.kind = "tamper" /\ f.from = t
SendInv(t) ==
    /\ task[t] = "relogged" => verdict[t] = "MODIFIED" /\ EditLogged(t)
    /\ t \in sent => /\ stage[t] = "released" /\ verdict[t] # "DROP"
                     /\ verdict[t] = "MODIFIED" => EditLogged(t)

\* A session, its task and its flow.
SessionInv(s) ==
    /\ task[s] = "opening" /\ s \in known => state[s] = "CONNECTING"
    /\ task[s] = "announcing" => s \in flows \cup ended
    /\ s \in flows \cup ended => task[s] \notin {"unsent", "arrived", "opening", "failing"}

\* stop() closes flows that are open or were closed meanwhile, never unborn.
TablesInv ==
    /\ \A s \in Datagram : SessionInv(s)
    /\ pending \subseteq flows \cup ended
    /\ TablesAgree
    /\ LiveIsOwned
    /\ SurvivorsAreMute

IInv ==
    /\ TypeOK
    /\ \A s \in Datagram : IsFiniteSet(log[s])
    /\ IsFiniteSet(known)
    /\ \A t \in Task : TaskInv(t)
    /\ \A t \in Task : SendInv(t)
    /\ TablesInv
    /\ UdpSessionLimit

\* The gate never leaves a unit in a state that is none, and touches only the
\* units it is asked to.
LEMMA GateTypes ==
  ASSUME stage \in [Task -> Gate!Stage], verdict \in [Task -> Gate!Action \cup {Gate!NoVerdict}],
         \/ \E t \in Task : Gate!Pass(t) \/ Gate!Hold(t) \/ Gate!Release(t)
         \/ \E U \in SUBSET Task, a \in Gate!Action : Gate!Decide(U, a)
  PROVE  /\ stage' \in [Task -> Gate!Stage]
         /\ verdict' \in [Task -> Gate!Action \cup {Gate!NoVerdict}]
BY DEF Gate!Pass, Gate!Hold, Gate!Release, Gate!Decide, Gate!Stage, Gate!Action, Gate!NoVerdict

------------------------------------------------------------------------------
(* Types                                                                    *)

\* Every step keeps every variable in its type.  The logs are finite, so the
\* number an injection takes, the count of the frames there are, is one.
LEMMA TypeStep ==
  ASSUME TypeOK, \A s \in Datagram : IsFiniteSet(log[s]), \A t \in Task : TaskInv(t), [Next]_vars
  PROVE  TypeOK'
<1> USE UdpAssumption DEF TypeOK, Dir, engineVars, sessionVars, flowVars, recordVars
<1>g. ASSUME NEW U \in SUBSET Task, NEW a \in Gate!Action, Gate!Decide(U, a)
      PROVE  /\ stage' \in [Task -> Gate!Stage]
             /\ verdict' \in [Task -> Gate!Action \cup {Gate!NoVerdict}]
  BY <1>g, GateTypes
<1>r. ASSUME NEW s \in Datagram, NEW t \in Task, NEW k \in {"captured", "tamper"}, Record(s, t, k)
      PROVE  /\ log' \in [Datagram -> SUBSET Frame]
             /\ seqno' \in [Datagram -> [Dir -> Nat]]
  <2>1. DirOf(t) \in Dir
    BY DEF DirOf
  <2>2. [from |-> t, dir |-> DirOf(t), seq |-> seqno[s][DirOf(t)], kind |-> k] \in Frame
    BY <2>1 DEF Frame
  <2> QED
    BY <1>r, <2>1, <2>2 DEF Record
<1>c. ASSUME NEW s \in Datagram, CloseFlow(s)
      PROVE  /\ state' \in [Datagram -> {None, "CONNECTING", "ACTIVE", "CLOSED"}]
             /\ by_addr' \in [Client -> Datagram \cup {None}]
             /\ flows' \subseteq Datagram /\ ended' \subseteq Datagram /\ upstream' \subseteq Datagram
  BY <1>c DEF CloseFlow, Mark
<1>e. ASSUME NEW t \in Task, NEW s \in Datagram, Enter(t, s)
      PROVE  /\ task' \in [Task -> {"unsent", "arrived", "opening", "failing", "announcing",
                                    "captured", "held", "completed", "relogged", "done"}]
             /\ flow' \in [Task -> Datagram \cup {None}]
             /\ log' \in [Datagram -> SUBSET Frame]
             /\ seqno' \in [Datagram -> [Dir -> Nat]]
  <2>1. CASE s \in ended
    BY <1>e, <2>1 DEF Enter, Abandoned, Goto
  <2>2. CASE s \notin ended
    <3>1. Capture(t, s)
      BY <1>e, <2>2 DEF Enter
    <3>2. log' \in [Datagram -> SUBSET Frame] /\ seqno' \in [Datagram -> [Dir -> Nat]]
      <4>1. Record(s, t, "captured")
        BY <3>1 DEF Capture
      <4> QED
        BY <1>r, <4>1
    <3> QED
      BY <3>1, <3>2 DEF Capture, Goto
  <2> QED
    BY <2>1, <2>2
<1>1. ASSUME NEW d \in Datagram, OnClientDatagram(d) PROVE TypeOK'
  <2>1. d \in Task
    BY DEF Task
  <2>2. CASE by_addr[ClientOf[d]] = None
    BY <1>1, <2>1, <2>2 DEF OnClientDatagram, OpenFlow, Goto, gateVars
  <2>3. CASE by_addr[ClientOf[d]] # None
    BY <1>1, <1>e, <2>1, <2>3 DEF OnClientDatagram, gateVars
  <2> QED
    BY <2>2, <2>3
<1>2. ASSUME NEW d \in Datagram, OpenFails(d) \/ FailurePublished(d) \/ FlowOpened(d) PROVE TypeOK'
  BY <1>2, SMTT(30) DEF OpenFails, FailurePublished, FlowOpened, Goto, Mark, gateVars, Task
<1>3. ASSUME NEW d \in Datagram, Announced(d) PROVE TypeOK'
  BY <1>3, <1>e DEF Announced, gateVars, Task
<1>4. ASSUME NEW r \in Reply, OnServerDatagram(r) PROVE TypeOK'
  BY <1>4, <1>e, ZenonT(30) DEF OnServerDatagram, Abandoned, Goto, gateVars, Task
<1>5. ASSUME NEW t \in Task, Intercept(t) \/ Released(t) PROVE TypeOK'
  BY <1>5, GateTypes DEF Intercept, Released, Goto
<1>6. ASSUME NEW t \in Task, Completed(t) \/ Relogged(t) PROVE TypeOK'
  <2>1. ASSUME SendTo(t) PROVE /\ sent' \subseteq Task
                               /\ task' \in [Task -> {"unsent", "arrived", "opening", "failing", "announcing",
                                    "captured", "held", "completed", "relogged", "done"}]
                               /\ UNCHANGED recordVars
    BY <2>1 DEF SendTo, Goto
  <2>2. CASE Relogged(t)
    BY <2>1, <2>2 DEF Relogged, gateVars
  <2>3. CASE Completed(t)
    <3>1. verdict[t] \in {"FORWARD", "DROP", "MODIFIED"}
      BY <2>3 DEF Completed, TaskInv, Gate!Action
    <3>2. CASE verdict[t] = "FORWARD"
      BY <2>1, <2>3, <3>2 DEF Completed, Forward, gateVars
    <3>3. CASE verdict[t] = "DROP"
      BY <2>3, <3>3 DEF Completed, Forward, Goto, gateVars
    <3>4. CASE verdict[t] = "MODIFIED"
      <4>1. Record(flow[t], t, "tamper") /\ flow[t] \in Datagram
        BY <2>3, <3>4 DEF Completed, Forward, TaskInv
      <4>2. log' \in [Datagram -> SUBSET Frame] /\ seqno' \in [Datagram -> [Dir -> Nat]]
        BY <1>r, <4>1
      <4> QED
        BY <2>3, <3>4, <4>2 DEF Completed, Forward, Goto, gateVars
    <3> QED
      BY <3>1, <3>2, <3>3, <3>4
  <2> QED
    BY <1>6, <2>2, <2>3
<1>7. ASSUME NEW d \in Datagram, Arrive(d) PROVE TypeOK'
  BY <1>7 DEF Arrive, Goto, gateVars, Task
<1>8. ASSUME NEW r \in Reply, NEW s \in Datagram, ServerAnswers(r, s) PROVE TypeOK'
  BY <1>8 DEF ServerAnswers, Goto, gateVars, Task
<1>9. CASE Start \/ StopForwarder
  <2>1. CASE Start
    <3>1. starts' \in 0..MaxStarts /\ listener' \in 0..MaxStarts
      BY <2>1 DEF Start
    <3> QED
      BY <2>1, <3>1 DEF Start, gateVars
  <2>2. CASE StopForwarder
    BY <2>2 DEF StopForwarder, gateVars
  <2> QED
    BY <1>9, <2>1, <2>2
<1>10. ASSUME NEW P \in SUBSET Datagram, CloseRest(P)
       PROVE  /\ pending' \subseteq Datagram /\ stopping' \in BOOLEAN
              /\ state' \in [Datagram -> {None, "CONNECTING", "ACTIVE", "CLOSED"}]
              /\ by_addr' \in [Client -> Datagram \cup {None}]
              /\ flows' \subseteq Datagram /\ ended' \subseteq Datagram /\ upstream' \subseteq Datagram
              /\ heard_on' = heard_on
              /\ stage' \in [Task -> Gate!Stage]
              /\ verdict' \in [Task -> Gate!Action \cup {Gate!NoVerdict}]
  <2>1. ASSUME P \ ended = {}, ForwardHeld
        PROVE  /\ stage' \in [Task -> Gate!Stage]
               /\ verdict' \in [Task -> Gate!Action \cup {Gate!NoVerdict}]
    BY <2>1, <1>g DEF ForwardHeld, Held, Gate!Action, gateVars
  <2>2. CASE P \ ended = {}
    BY <1>10, <2>1, <2>2 DEF CloseRest
  <2>3. CASE P \ ended # {}
    BY <1>10, <1>c, <2>3 DEF CloseRest, gateVars
  <2> QED
    BY <2>2, <2>3
<1>11. CASE StopBegins \/ StopGoesOn
  BY <1>10, <1>11 DEF StopBegins, StopGoesOn
<1>12. ASSUME NEW s \in Datagram, Terminate(s) PROVE TypeOK'
  BY <1>12, <1>c DEF Terminate, gateVars
<1>13. ASSUME NEW s \in Datagram, Delete(s) PROVE TypeOK'
  BY <1>13 DEF Delete, gateVars
<1>14. ASSUME NEW s \in Datagram, NEW d \in Dir, Inject(s, d) PROVE TypeOK'
  <2>1. Cardinality(Logged(s, d)) \in Nat
    <3>1. IsFiniteSet(Logged(s, d))
      BY FS_Subset DEF Logged
    <3> QED
      BY <3>1, FS_CardinalityType
  <2> QED
    BY <1>14, <2>1 DEF Inject, NextSequenceNumber, Frame, gateVars
<1>15. ASSUME NEW U \in SUBSET Task, NEW a \in Gate!Action, Verdict(U, a) PROVE TypeOK'
  BY <1>15, <1>g DEF Verdict
<1>16. CASE UNCHANGED vars
  BY <1>16 DEF vars, gateVars
<1>17. ASSUME NEW t \in Task, TaskStep(t) PROVE TypeOK'
  <2> HIDE DEF TypeOK
  <2> QED
    BY <1>1, <1>2, <1>3, <1>4, <1>5, <1>6, <1>17 DEF TaskStep
<1>18. CASE (Held # {} /\ Verdict(Held, "FORWARD")) \/ (\E t \in Task, a \in Gate!Action : Verdict({t}, a))
  <2> HIDE DEF TypeOK
  <2> QED
    BY <1>15, <1>18 DEF Held, Gate!Action
<1> HIDE DEF TypeOK
<1> QED
  BY <1>7, <1>8, <1>9, <1>11, <1>12, <1>13, <1>14, <1>16, <1>17, <1>18 DEF Next

------------------------------------------------------------------------------
(* The tasks and the gate                                                   *)

\* A datagram enters a flow with its unit still new, and its task keeps step
\* with the gate from there on.
LEMMA TaskInvStep ==
  ASSUME TypeOK, \A t \in Task : TaskInv(t), [Next]_vars
  PROVE  \A t \in Task : TaskInv(t)'
<1> USE UdpAssumption DEF TypeOK, TaskInv, Goto
<1>e. ASSUME NEW t \in Task, NEW s \in Datagram, Enter(t, s), UNCHANGED gateVars,
             task[t] \in {"arrived", "announcing"}
      PROVE  \A u \in Task : TaskInv(u)'
  <2>1. CASE s \in ended
    BY <1>e, <2>1 DEF Enter, Abandoned, gateVars
  <2>2. CASE s \notin ended
    BY <1>e, <2>2 DEF Enter, Capture, gateVars
  <2> QED
    BY <2>1, <2>2
<1>1. ASSUME NEW d \in Datagram, OnClientDatagram(d) PROVE \A u \in Task : TaskInv(u)'
  <2>1. d \in Task /\ d \notin Reply
    BY DEF Task
  <2>2. CASE by_addr[ClientOf[d]] = None
    BY <1>1, <2>1, <2>2 DEF OnClientDatagram, OpenFlow, gateVars
  <2>3. CASE by_addr[ClientOf[d]] # None
    <3>1. by_addr[ClientOf[d]] \in Datagram
      BY <2>3
    <3> QED
      BY <1>1, <1>e, <2>1, <2>3, <3>1 DEF OnClientDatagram
  <2> QED
    BY <2>2, <2>3
<1>2. ASSUME NEW d \in Datagram, OpenFails(d) \/ FailurePublished(d) \/ FlowOpened(d) \/ Arrive(d)
      PROVE  \A u \in Task : TaskInv(u)'
  <2>1. d \in Task /\ d \notin Reply
    BY DEF Task
  <2> QED
    BY <1>2, <2>1 DEF OpenFails, FailurePublished, FlowOpened, Arrive, gateVars
<1>3. ASSUME NEW d \in Datagram, Announced(d) PROVE \A u \in Task : TaskInv(u)'
  BY <1>3, <1>e DEF Announced, Task
<1>4. ASSUME NEW r \in Reply, OnServerDatagram(r) PROVE \A u \in Task : TaskInv(u)'
  <2>1. CASE flow[r] \in flows
    BY <1>4, <1>e, <2>1 DEF OnServerDatagram, Task
  <2>2. CASE flow[r] \notin flows
    BY <1>4, <2>2 DEF OnServerDatagram, Abandoned, Task, gateVars
  <2> QED
    BY <2>1, <2>2
<1>5. ASSUME NEW t \in Task, Intercept(t) PROVE \A u \in Task : TaskInv(u)'
  BY <1>5 DEF Intercept, Gate!Pass, Gate!Hold, Gate!Stage, Gate!Action
<1>6. ASSUME NEW t \in Task, Released(t) PROVE \A u \in Task : TaskInv(u)'
  BY <1>6 DEF Released, Gate!Release, Gate!Stage
<1>7. ASSUME NEW t \in Task, Completed(t) \/ Relogged(t) PROVE \A u \in Task : TaskInv(u)'
  <2>1. verdict[t] \in {"FORWARD", "DROP", "MODIFIED"}
    BY <1>7 DEF Completed, Relogged, Gate!Action
  <2>2. task' = [task EXCEPT ![t] = "done"] \/ task' = [task EXCEPT ![t] = "relogged"]
    BY <1>7, <2>1 DEF Completed, Relogged, Forward, SendTo
  <2> QED
    BY <1>7, <2>2 DEF Completed, Relogged, gateVars
<1>8. ASSUME NEW r \in Reply, NEW s \in Datagram, ServerAnswers(r, s) PROVE \A u \in Task : TaskInv(u)'
  BY <1>8 DEF ServerAnswers, Task, gateVars
<1>9. ASSUME NEW U \in SUBSET Task, NEW a \in Gate!Action, Gate!Decide(U, a), UNCHANGED <<task, flow>>
      PROVE  \A u \in Task : TaskInv(u)'
  BY <1>9 DEF Gate!Decide, Gate!Stage
<1>10. ASSUME NEW P \in SUBSET Datagram, CloseRest(P), UNCHANGED <<task, flow>>
       PROVE  \A u \in Task : TaskInv(u)'
  <2>1. UNCHANGED gateVars \/ Gate!Decide(Held, "FORWARD")
    BY <1>10 DEF CloseRest, ForwardHeld
  <2>2. Held \in SUBSET Task /\ "FORWARD" \in Gate!Action
    BY DEF Held, Gate!Action
  <2>3. CASE UNCHANGED gateVars
    BY <1>10, <2>3 DEF gateVars
  <2> QED
    BY <1>9, <1>10, <2>1, <2>2, <2>3
<1>11. CASE StopBegins \/ StopGoesOn
  BY <1>10, <1>11 DEF StopBegins, StopGoesOn
<1>12. CASE Start \/ StopForwarder
  BY <1>12 DEF Start, StopForwarder, gateVars
<1>13. ASSUME NEW s \in Datagram, Terminate(s) \/ Delete(s) \/ (\E d \in Dir : Inject(s, d))
       PROVE  \A u \in Task : TaskInv(u)'
  BY <1>13 DEF Terminate, Delete, Inject, gateVars
<1>14. ASSUME NEW U \in SUBSET Task, NEW a \in Gate!Action, Verdict(U, a) PROVE \A u \in Task : TaskInv(u)'
  BY <1>9, <1>14 DEF Verdict
<1>15. CASE UNCHANGED vars
  BY <1>15 DEF vars, gateVars
<1> HIDE DEF TypeOK, TaskInv
<1>16. ASSUME NEW t \in Task, TaskStep(t) PROVE \A u \in Task : TaskInv(u)'
  BY <1>1, <1>2, <1>3, <1>4, <1>5, <1>6, <1>7, <1>16 DEF TaskStep
<1>17. CASE (Held # {} /\ Verdict(Held, "FORWARD")) \/ (\E t \in Task, a \in Gate!Action : Verdict({t}, a))
  BY <1>14, <1>17 DEF Held, Gate!Action
<1> QED
  BY <1>2, <1>8, <1>11, <1>12, <1>13, <1>15, <1>16, <1>17 DEF Next

------------------------------------------------------------------------------
(* What is sent                                                             *)

\* What no step takes back: a released unit keeps its verdict, a datagram that
\* passed the gate stays in its flow, and a log only grows.
LEMMA KeptByEveryStep ==
  ASSUME TypeOK, \A t \in Task : TaskInv(t), [Next]_vars
  PROVE  /\ \A t \in Task : stage[t] = "released" =>
                 stage'[t] = "released" /\ verdict'[t] = verdict[t]
         /\ \A t \in Task : stage[t] # "new" => flow'[t] = flow[t]
         /\ \A s \in Datagram : log[s] \subseteq log'[s]
<1> DEFINE Gated == \A t \in Task : stage[t] = "released" =>
                          stage'[t] = "released" /\ verdict'[t] = verdict[t]
           Routed == \A t \in Task : stage[t] # "new" => flow'[t] = flow[t]
           Grows == \A s \in Datagram : log[s] \subseteq log'[s]
           Kept == Gated /\ Routed /\ Grows
<1> SUFFICES Kept
  OBVIOUS
<1> USE UdpAssumption DEF TypeOK
<1>r. ASSUME NEW s \in Datagram, NEW t \in Task, NEW k, Record(s, t, k) PROVE Grows
  BY <1>r DEF Record
<1>u. UNCHANGED gateVars => Gated
  BY DEF gateVars
<1>l. UNCHANGED recordVars => Grows
  BY DEF recordVars
<1>e. ASSUME NEW t \in Task, NEW s \in Datagram, Enter(t, s), task[t] \in {"arrived", "announcing"}
      PROVE  Routed /\ Grows
  <2>1. CASE s \in ended
    BY <1>e, <1>l, <2>1 DEF Enter, Abandoned, recordVars
  <2>2. CASE s \notin ended
    <3>1. Record(s, t, "captured") /\ flow' = [flow EXCEPT ![t] = s]
      BY <1>e, <2>2 DEF Enter, Capture
    <3>2. stage[t] = "new"
      BY <1>e DEF TaskInv
    <3> QED
      BY <1>r, <3>1, <3>2
  <2> QED
    BY <2>1, <2>2
<1>d. ASSUME NEW U \in SUBSET Task, NEW a, Gate!Decide(U, a) PROVE Gated
  BY <1>d DEF Gate!Decide
<1>1. ASSUME NEW d \in Datagram, OnClientDatagram(d) PROVE Kept
  <2>1. CASE by_addr[ClientOf[d]] = None
    BY <1>1, <1>u, <1>l, <2>1 DEF OnClientDatagram
  <2>2. CASE by_addr[ClientOf[d]] # None
    BY <1>1, <1>u, <1>e, <2>2 DEF OnClientDatagram, Task
  <2> QED
    BY <2>1, <2>2
<1>2. ASSUME NEW d \in Datagram, OpenFails(d) \/ FailurePublished(d) \/ FlowOpened(d) \/ Arrive(d)
      PROVE  Kept
  BY <1>2, <1>u, <1>l DEF OpenFails, FailurePublished, FlowOpened, Arrive
<1>3. ASSUME NEW d \in Datagram, Announced(d) PROVE Kept
  BY <1>3, <1>e, <1>u DEF Announced, Task
<1>4. ASSUME NEW r \in Reply, OnServerDatagram(r) PROVE Kept
  <2>1. CASE flow[r] \in flows
    BY <1>4, <1>e, <1>u, <2>1 DEF OnServerDatagram, Task
  <2>2. CASE flow[r] \notin flows
    BY <1>4, <1>u, <1>l, <2>2 DEF OnServerDatagram, Abandoned
  <2> QED
    BY <2>1, <2>2
<1>5. ASSUME NEW t \in Task, Intercept(t) \/ Released(t) PROVE Kept
  BY <1>5, <1>l DEF Intercept, Released, Gate!Pass, Gate!Hold, Gate!Release
<1>6. ASSUME NEW t \in Task, Completed(t) \/ Relogged(t) PROVE Kept
  <2>1. verdict[t] \in {"FORWARD", "DROP", "MODIFIED"} /\ flow[t] \in Datagram
    BY <1>6 DEF Completed, Relogged, Gate!Action, TaskInv
  <2>2. UNCHANGED recordVars \/ Record(flow[t], t, "tamper")
    BY <1>6, <2>1 DEF Completed, Relogged, Forward, SendTo
  <2>3. Grows
    BY <1>l, <1>r, <2>1, <2>2
  <2> QED
    BY <1>6, <1>u, <2>3 DEF Completed, Relogged
<1>7. ASSUME NEW r \in Reply, NEW s \in Datagram, ServerAnswers(r, s) PROVE Kept
  <2>1. stage[r] = "new"
    BY <1>7 DEF ServerAnswers, TaskInv, Task
  <2> QED
    BY <1>7, <1>u, <1>l, <2>1 DEF ServerAnswers, Task
<1>8. CASE StopBegins \/ StopGoesOn
  <2>1. UNCHANGED gateVars \/ Gate!Decide(Held, "FORWARD")
    BY <1>8 DEF StopBegins, StopGoesOn, CloseRest, ForwardHeld
  <2> QED
    BY <1>8, <1>u, <1>l, <1>d, <2>1 DEF StopBegins, StopGoesOn, Held
<1>9. CASE Start \/ StopForwarder
  BY <1>9, <1>u, <1>l DEF Start, StopForwarder
<1>10. ASSUME NEW s \in Datagram, Terminate(s) \/ Delete(s) PROVE Kept
  BY <1>10, <1>u, <1>l DEF Terminate, Delete
<1>11. ASSUME NEW s \in Datagram, NEW d \in Dir, Inject(s, d) PROVE Kept
  BY <1>11, <1>u DEF Inject
<1>12. ASSUME NEW U \in SUBSET Task, NEW a, Verdict(U, a) PROVE Kept
  BY <1>12, <1>d, <1>l DEF Verdict
<1>13. CASE UNCHANGED vars
  BY <1>13, <1>u, <1>l DEF vars
<1> HIDE DEF TypeOK, Kept
<1>14. ASSUME NEW t \in Task, TaskStep(t) PROVE Kept
  BY <1>1, <1>2, <1>3, <1>4, <1>5, <1>6, <1>14 DEF TaskStep
<1>15. CASE (Held # {} /\ Verdict(Held, "FORWARD")) \/ (\E t \in Task, a \in Gate!Action : Verdict({t}, a))
  <2>1. Held \in SUBSET Task
    BY DEF Held
  <2> QED
    BY <1>12, <1>15, <2>1
<1> QED
  BY <1>2, <1>7, <1>8, <1>9, <1>10, <1>11, <1>13, <1>14, <1>15 DEF Next

\* A datagram is marked edited only with its edited frame in the log, and sent
\* only with a verdict that lets it.
LEMMA SendInvStep ==
  ASSUME TypeOK, \A t \in Task : TaskInv(t), \A t \in Task : SendInv(t), [Next]_vars
  PROVE  \A t \in Task : SendInv(t)'
<1> USE UdpAssumption
<1>k. /\ \A t \in Task : stage[t] = "released" => stage'[t] = "released" /\ verdict'[t] = verdict[t]
      /\ \A t \in Task : stage[t] # "new" => flow'[t] = flow[t]
      /\ \A s \in Datagram : log[s] \subseteq log'[s]
  BY KeptByEveryStep
<1>l. ASSUME NEW t \in Task, EditLogged(t), stage[t] # "new" PROVE EditLogged(t)'
  <2>1. flow[t] \in Datagram
    BY <1>l DEF TaskInv
  <2> QED
    BY <1>k, <1>l, <2>1 DEF EditLogged
<1> DEFINE Quiet == UNCHANGED sent /\ \A u \in Task : task'[u] = "relogged" => task[u] = "relogged"
<1>q. ASSUME Quiet PROVE \A u \in Task : SendInv(u)'
  <2> SUFFICES ASSUME NEW u \in Task PROVE SendInv(u)'
    OBVIOUS
  <2>1. task'[u] = "relogged" => verdict'[u] = "MODIFIED" /\ EditLogged(u)'
    BY <1>k, <1>l, <1>q DEF SendInv, TaskInv
  <2>2. u \in sent' => /\ stage'[u] = "released" /\ verdict'[u] # "DROP"
                       /\ verdict'[u] = "MODIFIED" => EditLogged(u)'
    BY <1>k, <1>l, <1>q DEF SendInv
  <2> QED
    BY <2>1, <2>2 DEF SendInv
<1>g. ASSUME NEW t \in Task, NEW p, Goto(t, p), p # "relogged", UNCHANGED sent PROVE Quiet
  BY <1>g DEF Goto, TypeOK
<1>e. ASSUME NEW t \in Task, NEW s \in Datagram, Enter(t, s), UNCHANGED sent PROVE Quiet
  BY <1>e, <1>g DEF Enter, Abandoned, Capture
<1>1. ASSUME NEW d \in Datagram, OnClientDatagram(d) PROVE Quiet
  <2>1. CASE by_addr[ClientOf[d]] = None
    BY <1>1, <1>g, <2>1 DEF OnClientDatagram, OpenFlow, Task
  <2>2. CASE by_addr[ClientOf[d]] # None
    BY <1>1, <1>e, <2>2 DEF OnClientDatagram, Task, TypeOK
  <2> QED
    BY <2>1, <2>2
<1>2. ASSUME NEW d \in Datagram, OpenFails(d) \/ FailurePublished(d) \/ FlowOpened(d) \/ Arrive(d)
      PROVE  Quiet
  BY <1>2, <1>g DEF OpenFails, FailurePublished, FlowOpened, Arrive, Task
<1>3. ASSUME NEW d \in Datagram, Announced(d) PROVE Quiet
  BY <1>3, <1>e DEF Announced, Task
<1>4. ASSUME NEW r \in Reply, OnServerDatagram(r) PROVE Quiet
  BY <1>4, <1>e, <1>g DEF OnServerDatagram, Abandoned, Task, TypeOK
<1>5. ASSUME NEW t \in Task, Intercept(t) \/ Released(t) PROVE Quiet
  BY <1>5, <1>g DEF Intercept, Released
<1>6. ASSUME NEW t \in Task, Completed(t) \/ Relogged(t) PROVE \A u \in Task : SendInv(u)'
  <2>0. /\ verdict[t] \in {"FORWARD", "DROP", "MODIFIED"} /\ flow[t] \in Datagram
        /\ stage[t] = "released" /\ UNCHANGED <<stage, verdict, flow>>
    BY <1>6 DEF Completed, Relogged, Gate!Action, TaskInv, gateVars
  <2>s. ASSUME SendTo(t), verdict[t] # "DROP", verdict[t] = "MODIFIED" => EditLogged(t)
        PROVE  \A u \in Task : SendInv(u)'
    <3> SUFFICES ASSUME NEW u \in Task PROVE SendInv(u)'
      OBVIOUS
    <3>1. CASE u = t
      BY <1>l, <2>0, <2>s, <3>1 DEF SendTo, Goto, SendInv, TypeOK
    <3>2. CASE u # t
      <4>1. task'[u] = task[u] /\ (u \in sent' <=> u \in sent)
        BY <2>s, <3>2 DEF SendTo, Goto, TypeOK
      <4>2. EditLogged(u) /\ stage[u] # "new" => EditLogged(u)'
        BY <1>l
      <4> QED
        BY <2>0, <4>1, <4>2 DEF SendInv, TaskInv
    <3> QED
      BY <3>1, <3>2
  <2>1. CASE Relogged(t)
    BY <2>1, <2>s DEF Relogged, SendInv
  <2>2. CASE Completed(t) /\ verdict[t] = "FORWARD"
    BY <2>2, <2>s DEF Completed, Forward
  <2>3. CASE Completed(t) /\ verdict[t] = "DROP"
    BY <1>g, <1>q, <2>3 DEF Completed, Forward
  <2>4. CASE Completed(t) /\ verdict[t] = "MODIFIED"
    <3>1. Record(flow[t], t, "tamper") /\ task' = [task EXCEPT ![t] = "relogged"] /\ UNCHANGED sent
      BY <2>4 DEF Completed, Forward, Goto
    <3>2. EditLogged(t)'
      <4> DEFINE f == [from |-> t, dir |-> DirOf(t), seq |-> seqno[flow[t]][DirOf(t)], kind |-> "tamper"]
      <4>1. f \in log'[flow[t]]
        BY <2>0, <3>1 DEF Record, TypeOK
      <4>2. f.kind = "tamper" /\ f.from = t
        OBVIOUS
      <4> QED
        BY <2>0, <4>1, <4>2 DEF EditLogged
    <3>3. ASSUME NEW u \in Task PROVE SendInv(u)'
      <4>1. CASE u = t
        BY <2>0, <2>4, <3>1, <3>2, <4>1 DEF SendInv, TypeOK
      <4>2. CASE u # t
        <5>1. task'[u] = task[u]
          BY <3>1, <4>2 DEF TypeOK
        <5>2. EditLogged(u) /\ stage[u] # "new" => EditLogged(u)'
          BY <1>l
        <5> QED
          BY <2>0, <3>1, <5>1, <5>2 DEF SendInv, TaskInv
      <4> QED
        BY <4>1, <4>2
    <3> QED
      BY <3>3
  <2> QED
    BY <1>6, <2>0, <2>1, <2>2, <2>3, <2>4
<1>7. ASSUME NEW r \in Reply, NEW s \in Datagram, ServerAnswers(r, s) PROVE Quiet
  BY <1>7, <1>g DEF ServerAnswers, Task
<1>8. ASSUME UNCHANGED <<task, sent>> PROVE Quiet
  BY <1>8
<1>9. StopBegins \/ StopGoesOn \/ Start \/ StopForwarder => UNCHANGED <<task, sent>>
  BY DEF StopBegins, StopGoesOn, Start, StopForwarder
<1>10. ASSUME NEW s \in Datagram, Terminate(s) \/ Delete(s) \/ (\E d \in Dir : Inject(s, d))
       PROVE  UNCHANGED <<task, sent>>
  BY <1>10 DEF Terminate, Delete, Inject
<1>11. ASSUME NEW U, NEW a, Verdict(U, a) PROVE UNCHANGED <<task, sent>>
  BY <1>11 DEF Verdict
<1>12. CASE UNCHANGED vars
  BY <1>8, <1>q, <1>12 DEF vars
<1> HIDE DEF Quiet
<1>13. ASSUME NEW t \in Task, TaskStep(t) PROVE \A u \in Task : SendInv(u)'
  BY <1>q, <1>1, <1>2, <1>3, <1>4, <1>5, <1>6, <1>13 DEF TaskStep
<1>14. CASE (Held # {} /\ Verdict(Held, "FORWARD")) \/ (\E t \in Task, a \in Gate!Action : Verdict({t}, a))
  BY <1>q, <1>8, <1>11, <1>14
<1> QED
  BY <1>q, <1>2, <1>7, <1>8, <1>9, <1>10, <1>12, <1>13, <1>14 DEF Next

------------------------------------------------------------------------------
(* Sessions, tables and sockets                                             *)

\* Openings, terminations and stop() keep the two tables, the sockets and the
\* registry in agreement.  That the flows stop() still has to close are open
\* or closed, never unborn, is what makes each close find its flow.
LEMMA TablesInvStep ==
  ASSUME TypeOK, \A t \in Task : TaskInv(t), TablesInv, [Next]_vars
  PROVE  TablesInv'
<1> USE UdpAssumption DEF TypeOK, engineVars, flowVars, sessionVars
<1> DEFINE Rest == UNCHANGED <<listener, pending, flowVars>>
<1>m. ASSUME NEW t \in Task, NEW p, Goto(t, p), Rest, UNCHANGED sessionVars,
             p \notin {"unsent", "arrived", "opening", "failing", "announcing"}, task[t] # "opening"
      PROVE  TablesInv'
  BY <1>m DEF Goto, TablesInv, SessionInv, TablesAgree, LiveIsOwned, SurvivorsAreMute, ActiveSessions
<1>e. ASSUME NEW t \in Task, NEW s \in Datagram, Enter(t, s), Rest, UNCHANGED sessionVars,
             task[t] # "opening"
      PROVE  TablesInv'
  <2>1. Goto(t, "done") \/ Goto(t, "captured")
    BY <1>e DEF Enter, Abandoned, Capture
  <2> QED
    BY <1>e, <1>m, <2>1
<1>c. ASSUME NEW s \in flows, CloseFlow(s), UNCHANGED <<task, known>>
      PROVE  /\ \A x \in Datagram : SessionInv(x)'
             /\ TablesAgree'
             /\ LiveIsOwned'
             /\ flows' = flows \ {s} /\ ended' = ended \cup {s}
  <2> USE <1>c DEF CloseFlow, Mark
  <2>1. \A x \in Datagram : SessionInv(x)'
    BY DEF TablesInv, SessionInv
  <2>2. TablesAgree'
    BY DEF TablesInv, TablesAgree
  <2>3. LiveIsOwned'
    BY DEF TablesInv, LiveIsOwned, ActiveSessions
  <2> QED
    BY <2>1, <2>2, <2>3
<1>1. ASSUME NEW d \in Datagram, OnClientDatagram(d) PROVE TablesInv'
  <2>1. CASE by_addr[ClientOf[d]] = None /\ (listener = 0 \/ LimitReached)
    BY <1>1, <1>m, <2>1 DEF OnClientDatagram, OpenFlow, Task
  <2>2. CASE by_addr[ClientOf[d]] = None /\ ~(listener = 0 \/ LimitReached)
    <3>1. /\ task[d] = "arrived" /\ task' = [task EXCEPT ![d] = "opening"]
          /\ known' = known \cup {d} /\ state' = [state EXCEPT ![d] = "CONNECTING"]
          /\ Rest
      BY <1>1, <2>2 DEF OnClientDatagram, OpenFlow, Goto
    <3>2. d \in Task /\ d \notin flows /\ d \notin ended
      BY <3>1 DEF TablesInv, SessionInv, Task
    <3> QED
      BY <3>1, <3>2 DEF TablesInv, SessionInv, TablesAgree, LiveIsOwned, SurvivorsAreMute, ActiveSessions
  <2>3. CASE by_addr[ClientOf[d]] # None
    BY <1>1, <1>e, <2>3 DEF OnClientDatagram, Task
  <2> QED
    BY <2>1, <2>2, <2>3
<1>2. ASSUME NEW d \in Datagram, Arrive(d) PROVE TablesInv'
  BY <1>2 DEF Arrive, Goto, Task, TablesInv, SessionInv, TablesAgree, LiveIsOwned, SurvivorsAreMute, ActiveSessions
<1>3. ASSUME NEW d \in Datagram, OpenFails(d) PROVE TablesInv'
  BY <1>3 DEF OpenFails, Goto, Mark, Task, TablesInv, SessionInv, TablesAgree, LiveIsOwned, SurvivorsAreMute, ActiveSessions
<1>4. ASSUME NEW d \in Datagram, FailurePublished(d) PROVE TablesInv'
  BY <1>4, <1>m DEF FailurePublished, Task
<1>5. ASSUME NEW d \in Datagram, FlowOpened(d) PROVE TablesInv'
  <2> USE <1>5 DEF FlowOpened, Goto, Mark
  <2>0. d \in Task /\ d \notin flows \cup ended
    BY DEF TablesInv, SessionInv, Task
  <2>1. \A x \in Datagram : SessionInv(x)'
    BY <2>0 DEF TablesInv, SessionInv
  <2>2. TablesAgree'
    BY <2>0 DEF TablesInv, TablesAgree
  <2>3. LiveIsOwned'
    BY <2>0 DEF TablesInv, LiveIsOwned, ActiveSessions
  <2>4. SurvivorsAreMute' /\ pending' \subseteq flows' \cup ended'
    BY <2>0 DEF TablesInv, SurvivorsAreMute
  <2> QED
    BY <2>1, <2>2, <2>3, <2>4 DEF TablesInv
<1>6. ASSUME NEW d \in Datagram, Announced(d) PROVE TablesInv'
  BY <1>6, <1>e DEF Announced, Task
<1>7. ASSUME NEW r \in Reply, OnServerDatagram(r) PROVE TablesInv'
  <2>1. CASE flow[r] \in flows
    BY <1>7, <1>e, <2>1 DEF OnServerDatagram, Task
  <2>2. CASE flow[r] \notin flows
    BY <1>7, <1>m, <2>2 DEF OnServerDatagram, Abandoned, Task
  <2> QED
    BY <2>1, <2>2
<1>8. ASSUME NEW t \in Task, Intercept(t) \/ Released(t) PROVE TablesInv'
  BY <1>8, <1>m DEF Intercept, Released
<1>9. ASSUME NEW t \in Task, Completed(t) \/ Relogged(t) PROVE TablesInv'
  <2>1. verdict[t] \in {"FORWARD", "DROP", "MODIFIED"}
    BY <1>9 DEF Completed, Relogged, Gate!Action, TaskInv
  <2>2. Goto(t, "done") \/ Goto(t, "relogged")
    BY <1>9, <2>1 DEF Completed, Relogged, Forward, SendTo
  <2> QED
    BY <1>9, <1>m, <2>2 DEF Completed, Relogged
<1>10. ASSUME NEW r \in Reply, NEW s \in Datagram, ServerAnswers(r, s) PROVE TablesInv'
  <2>1. \A x \in Datagram : task'[x] = task[x]
    BY <1>10 DEF ServerAnswers, Goto
  <2> QED
    BY <1>10, <2>1 DEF ServerAnswers, TablesInv, SessionInv, TablesAgree, LiveIsOwned, SurvivorsAreMute, ActiveSessions
<1>11. CASE Start
  <2>1. SurvivorsAreMute'
    BY <1>11 DEF Start, TablesInv, SurvivorsAreMute
  <2> QED
    BY <1>11, <2>1 DEF Start, TablesInv, SessionInv, TablesAgree, LiveIsOwned, ActiveSessions
<1>12. ASSUME UNCHANGED <<task, sessionVars, listener, pending, flowVars>> PROVE TablesInv'
  BY <1>12 DEF TablesInv, SessionInv, TablesAgree, LiveIsOwned, SurvivorsAreMute, ActiveSessions
<1>13. ASSUME NEW P \in SUBSET Datagram, CloseRest(P), UNCHANGED <<task, known>>,
              P \subseteq flows \cup ended,
              \A s \in flows \ P : heard_on[s] \in {0, listener'}
       PROVE  TablesInv'
  <2>1. CASE P \ ended = {}
    <3>1. pending' = {} /\ UNCHANGED <<state, flowVars>>
      BY <1>13, <2>1 DEF CloseRest
    <3> QED
      BY <1>13, <2>1, <3>1 DEF TablesInv, SessionInv, TablesAgree, LiveIsOwned, SurvivorsAreMute, ActiveSessions
  <2>2. ASSUME NEW s \in P \ ended, CloseFlow(s), pending' = (P \ ended) \ {s}, UNCHANGED heard_on
        PROVE  TablesInv'
    <3>1. s \in flows
      BY <1>13, <2>2
    <3>2. /\ \A x \in Datagram : SessionInv(x)'
          /\ TablesAgree'
          /\ LiveIsOwned'
          /\ flows' = flows \ {s} /\ ended' = ended \cup {s}
      BY <1>13, <1>c, <2>2, <3>1
    <3>3. pending' \subseteq flows' \cup ended'
      BY <1>13, <2>2, <3>2
    <3>4. SurvivorsAreMute'
      BY <1>13, <2>2, <3>2 DEF SurvivorsAreMute, TablesInv, TablesAgree
    <3> QED
      BY <3>2, <3>3, <3>4 DEF TablesInv
  <2> QED
    BY <1>13, <2>1, <2>2 DEF CloseRest
<1>14. CASE StopBegins
  BY <1>13, <1>14 DEF StopBegins
<1>15. CASE StopGoesOn
  BY <1>13, <1>15 DEF StopGoesOn, TablesInv, SurvivorsAreMute
<1>16. CASE StopForwarder
  BY <1>12, <1>16 DEF StopForwarder
<1>17. ASSUME NEW s \in Datagram, Terminate(s) PROVE TablesInv'
  <2>1. /\ \A x \in Datagram : SessionInv(x)'
        /\ TablesAgree'
        /\ LiveIsOwned'
        /\ flows' = flows \ {s} /\ ended' = ended \cup {s}
    BY <1>17, <1>c DEF Terminate
  <2> QED
    BY <1>17, <2>1 DEF Terminate, TablesInv, SurvivorsAreMute
<1>18. ASSUME NEW s \in Datagram, Delete(s) PROVE TablesInv'
  BY <1>18 DEF Delete, TablesInv, SessionInv, TablesAgree, LiveIsOwned, SurvivorsAreMute, ActiveSessions
<1>19. ASSUME NEW s \in Datagram, NEW d \in Dir, Inject(s, d) PROVE TablesInv'
  BY <1>12, <1>19 DEF Inject
<1>20. ASSUME NEW U, NEW a, Verdict(U, a) PROVE TablesInv'
  BY <1>12, <1>20 DEF Verdict
<1>21. CASE UNCHANGED vars
  BY <1>12, <1>21 DEF vars
<1> HIDE DEF TypeOK
<1>22. ASSUME NEW t \in Task, TaskStep(t) PROVE TablesInv'
  BY <1>1, <1>3, <1>4, <1>5, <1>6, <1>7, <1>8, <1>9, <1>22 DEF TaskStep
<1>23. CASE (Held # {} /\ Verdict(Held, "FORWARD")) \/ (\E t \in Task, a \in Gate!Action : Verdict({t}, a))
  BY <1>20, <1>23
<1> QED
  BY <1>2, <1>10, <1>11, <1>14, <1>15, <1>16, <1>17, <1>18, <1>19, <1>21, <1>22, <1>23 DEF Next

------------------------------------------------------------------------------
(* The limit                                                                *)

\* A step makes at most one session live, and only below the limit: whatever
\* else changes a session's state or the registry finds it live already, or
\* ends it.
LEMMA LiveStep ==
  ASSUME TypeOK, TablesInv, [Next]_vars
  PROVE  \/ ActiveSessions' \subseteq ActiveSessions /\ known' \subseteq known
         \/ /\ ~LimitReached
            /\ \E d \in Datagram : /\ ActiveSessions' \subseteq ActiveSessions \cup {d}
                                   /\ known' = known \cup {d}
<1> USE UdpAssumption DEF TypeOK
<1> DEFINE Fewer == ActiveSessions' \subseteq ActiveSessions /\ known' \subseteq known
<1>s. ASSUME UNCHANGED sessionVars PROVE Fewer
  BY <1>s DEF sessionVars, ActiveSessions
<1>c. ASSUME NEW s \in Datagram, CloseFlow(s) \/ Mark(s, "CLOSED"), UNCHANGED known PROVE Fewer
  BY <1>c DEF CloseFlow, Mark, ActiveSessions
<1>1. ASSUME NEW d \in Datagram, OnClientDatagram(d), ~Fewer
      PROVE  /\ ~LimitReached
             /\ ActiveSessions' \subseteq ActiveSessions \cup {d} /\ known' = known \cup {d}
  <2>1. ~LimitReached /\ known' = known \cup {d} /\ state' = [state EXCEPT ![d] = "CONNECTING"]
    BY <1>1, <1>s DEF OnClientDatagram, OpenFlow
  <2> QED
    BY <2>1 DEF ActiveSessions
<1>2. ASSUME NEW d \in Datagram, OpenFails(d) PROVE Fewer
  BY <1>2, <1>c DEF OpenFails
<1>3. ASSUME NEW d \in Datagram, FlowOpened(d) PROVE Fewer
  <2>1. /\ UNCHANGED known
        /\ state' = [state EXCEPT ![d] = IF d \in known THEN "ACTIVE" ELSE @]
        /\ d \in known => state[d] = "CONNECTING"
    BY <1>3 DEF FlowOpened, Mark, TablesInv, SessionInv
  <2> QED
    BY <2>1 DEF ActiveSessions
<1>4. ASSUME NEW d \in Datagram, FailurePublished(d) \/ Announced(d) \/ Arrive(d) PROVE Fewer
  BY <1>4, <1>s DEF FailurePublished, Announced, Arrive
<1>5. ASSUME NEW t \in Task, Intercept(t) \/ Released(t) \/ Completed(t) \/ Relogged(t) PROVE Fewer
  BY <1>5, <1>s DEF Intercept, Released, Completed, Relogged
<1>6. ASSUME NEW r \in Reply, OnServerDatagram(r) \/ (\E s \in Datagram : ServerAnswers(r, s)) PROVE Fewer
  BY <1>6, <1>s DEF OnServerDatagram, ServerAnswers
<1>7. ASSUME StopBegins \/ StopGoesOn PROVE Fewer
  <2>1. UNCHANGED known /\ (UNCHANGED state \/ \E s \in Datagram : CloseFlow(s))
    BY <1>7 DEF StopBegins, StopGoesOn, CloseRest
  <2> QED
    BY <1>c, <1>s, <2>1 DEF sessionVars
<1>8. ASSUME Start \/ StopForwarder PROVE Fewer
  BY <1>8, <1>s DEF Start, StopForwarder
<1>9. ASSUME NEW s \in Datagram, Terminate(s) PROVE Fewer
  BY <1>9, <1>c DEF Terminate
<1>10. ASSUME NEW s \in Datagram, Delete(s) PROVE Fewer
  BY <1>10 DEF Delete, ActiveSessions
<1>11. ASSUME NEW s \in Datagram, NEW d \in Dir, Inject(s, d) PROVE Fewer
  BY <1>11, <1>s DEF Inject
<1>12. ASSUME NEW U, NEW a, Verdict(U, a) PROVE Fewer
  BY <1>12, <1>s DEF Verdict
<1>13. ASSUME UNCHANGED vars PROVE Fewer
  BY <1>13, <1>s DEF vars
<1> HIDE DEF TypeOK, Fewer
<1>14. ASSUME NEW t \in Task, TaskStep(t)
       PROVE  \/ Fewer
              \/ /\ ~LimitReached
                 /\ \E d \in Datagram : /\ ActiveSessions' \subseteq ActiveSessions \cup {d}
                                        /\ known' = known \cup {d}
  BY <1>1, <1>2, <1>3, <1>4, <1>5, <1>6, <1>14 DEF TaskStep
<1>15. \/ Fewer
       \/ /\ ~LimitReached
          /\ \E d \in Datagram : /\ ActiveSessions' \subseteq ActiveSessions \cup {d}
                                 /\ known' = known \cup {d}
  BY <1>4, <1>6, <1>7, <1>8, <1>9, <1>10, <1>11, <1>12, <1>13, <1>14 DEF Next
<1> QED
  BY <1>15 DEF Fewer

\* The live sessions never exceed the limit.
LEMMA LimitStep ==
  ASSUME TypeOK, TablesInv, IsFiniteSet(known), UdpSessionLimit, [Next]_vars
  PROVE  UdpSessionLimit' /\ IsFiniteSet(known')
<1>1. IsFiniteSet(ActiveSessions)
  BY FS_Subset DEF ActiveSessions
<1>2. CASE ActiveSessions' \subseteq ActiveSessions /\ known' \subseteq known
  <2>1. IsFiniteSet(known') /\ Cardinality(ActiveSessions') <= Cardinality(ActiveSessions)
    BY <1>1, <1>2, FS_Subset
  <2>2. Cardinality(ActiveSessions) \in Nat /\ Cardinality(ActiveSessions') \in Nat
    BY <1>1, <1>2, FS_Subset, FS_CardinalityType
  <2> QED
    BY <2>1, <2>2, UdpAssumption DEF UdpSessionLimit
<1>3. ASSUME NEW d \in Datagram, ~LimitReached,
             ActiveSessions' \subseteq ActiveSessions \cup {d}, known' = known \cup {d}
      PROVE  UdpSessionLimit' /\ IsFiniteSet(known')
  <2> DEFINE All == ActiveSessions \cup {d}
  <2>0. Cardinality(ActiveSessions) \in Nat
    BY <1>1, FS_CardinalityType
  <2>1. IsFiniteSet(All) /\ Cardinality(All) <= Cardinality(ActiveSessions) + 1
    <3>1. /\ IsFiniteSet(All)
          /\ Cardinality(All) = IF d \in ActiveSessions THEN Cardinality(ActiveSessions)
                                                        ELSE Cardinality(ActiveSessions) + 1
      BY <1>1, FS_AddElement
    <3> HIDE DEF All
    <3> QED
      BY <2>0, <3>1
  <2>2. IsFiniteSet(ActiveSessions') /\ Cardinality(ActiveSessions') <= Cardinality(All)
    BY <1>3, <2>1, FS_Subset
  <2>3. IsFiniteSet(known')
    BY <1>3, FS_AddElement
  <2>4. /\ Cardinality(ActiveSessions) \in Nat /\ Cardinality(ActiveSessions') \in Nat
        /\ Cardinality(All) \in Nat
    BY <1>1, <2>1, <2>2, FS_CardinalityType
  <2> HIDE DEF All
  <2> QED
    BY <1>3, <2>1, <2>2, <2>3, <2>4, UdpAssumption DEF UdpSessionLimit, LimitReached
<1> QED
  BY <1>2, <1>3, LiveStep

\* Logs stay finite.
LEMMA LogStep ==
  ASSUME TypeOK, \A s \in Datagram : IsFiniteSet(log[s]), \A t \in Task : TaskInv(t), [Next]_vars
  PROVE  \A s \in Datagram : IsFiniteSet(log'[s])
<1> USE UdpAssumption
<1> DEFINE Finite == \A s \in Datagram : IsFiniteSet(log'[s])
<1> SUFFICES Finite
  OBVIOUS
<1>1. ASSUME NEW s \in Datagram, NEW f, log' = [log EXCEPT ![s] = @ \cup {f}] PROVE Finite
  <2>1. \A x \in Datagram : log'[x] = log[x] \/ log'[x] = log[x] \cup {f}
    BY <1>1 DEF TypeOK
  <2>2. \A x \in Datagram : IsFiniteSet(log[x] \cup {f})
    BY FS_AddElement
  <2> QED
    BY <2>1, <2>2
<1>2. ASSUME UNCHANGED log PROVE Finite
  BY <1>2
<1> HIDE DEF Finite
<1>3. ASSUME NEW t \in Task, NEW s \in Datagram, Enter(t, s) PROVE Finite
  BY <1>1, <1>2, <1>3 DEF Enter, Abandoned, Capture, Record, recordVars
<1>4. ASSUME NEW t \in Task, TaskStep(t) PROVE Finite
  <2>1. CASE Completed(t) \/ Relogged(t)
    <3>1. verdict[t] \in {"FORWARD", "DROP", "MODIFIED"} /\ flow[t] \in Datagram
      BY <2>1 DEF Completed, Relogged, Gate!Action, TaskInv
    <3>2. UNCHANGED recordVars \/ Record(flow[t], t, "tamper")
      BY <2>1, <3>1 DEF Completed, Relogged, Forward, SendTo
    <3> QED
      BY <1>1, <1>2, <3>1, <3>2 DEF Record, recordVars
  <2>2. ASSUME t \in Datagram, OnClientDatagram(t) PROVE Finite
    BY <1>2, <1>3, <2>2 DEF OnClientDatagram, recordVars, TypeOK
  <2>3. ASSUME t \in Datagram, OpenFails(t) \/ FailurePublished(t) \/ FlowOpened(t) PROVE Finite
    BY <1>2, <2>3 DEF OpenFails, FailurePublished, FlowOpened, recordVars
  <2>4. ASSUME t \in Datagram, Announced(t) PROVE Finite
    BY <1>3, <2>4 DEF Announced
  <2>5. ASSUME t \in Reply, OnServerDatagram(t) PROVE Finite
    BY <1>2, <1>3, <2>5 DEF OnServerDatagram, Abandoned, recordVars, TypeOK
  <2>6. CASE Intercept(t) \/ Released(t)
    BY <1>2, <2>6 DEF Intercept, Released, recordVars
  <2> QED
    BY <1>4, <2>1, <2>2, <2>3, <2>4, <2>5, <2>6 DEF TaskStep
<1>5. ASSUME NEW s \in Datagram, NEW d \in Dir, Inject(s, d) PROVE Finite
  BY <1>1, <1>5 DEF Inject
<1>6. ASSUME NEW s \in Datagram, Terminate(s) \/ Delete(s) \/ (\E r \in Reply : ServerAnswers(r, s)) \/ Arrive(s)
      PROVE  Finite
  BY <1>2, <1>6 DEF Terminate, Delete, ServerAnswers, Arrive, recordVars
<1>7. CASE StopBegins \/ StopGoesOn \/ Start \/ StopForwarder \/ UNCHANGED vars
  BY <1>2, <1>7 DEF StopBegins, StopGoesOn, Start, StopForwarder, vars, recordVars
<1>8. ASSUME NEW U, NEW a, Verdict(U, a) PROVE Finite
  BY <1>2, <1>8 DEF Verdict, recordVars
<1> QED
  BY <1>4, <1>5, <1>6, <1>7, <1>8 DEF Next

------------------------------------------------------------------------------
(* The theorems                                                             *)

\* The inductive invariant holds of every forwarder, and every step keeps it.
LEMMA IInvHolds == Spec => []IInv
<1>1. Init => IInv
  <2> SUFFICES ASSUME Init PROVE IInv
    OBVIOUS
  <2> USE UdpAssumption DEF Init
  <2>1. TypeOK
    <3>1. /\ stage \in [Task -> Gate!Stage]
          /\ verdict \in [Task -> Gate!Action \cup {Gate!NoVerdict}]
      BY DEF Gate!GateInit, Gate!Stage, Gate!NoVerdict
    <3>2. seqno \in [Datagram -> [Dir -> Nat]] /\ log \in [Datagram -> SUBSET Frame]
      OBVIOUS
    <3>3. /\ listener \in 0..MaxStarts /\ starts \in 0..MaxStarts /\ calls \in 0..MaxCalls
          /\ heard_on \in [Datagram -> 0..MaxStarts]
      OBVIOUS
    <3>4. /\ task \in [Task -> {"unsent", "arrived", "opening", "failing", "announcing",
                                 "captured", "held", "completed", "relogged", "done"}]
          /\ flow \in [Task -> Datagram \cup {None}]
          /\ by_addr \in [Client -> Datagram \cup {None}]
          /\ state \in [Datagram -> {None, "CONNECTING", "ACTIVE", "CLOSED"}]
      OBVIOUS
    <3> QED
      BY <3>1, <3>2, <3>3, <3>4 DEF TypeOK
  <2>2. ActiveSessions = {} /\ IsFiniteSet({}) /\ Cardinality({}) = 0
    BY FS_EmptySet DEF ActiveSessions
  <2>3. (\A s \in Datagram : IsFiniteSet(log[s])) /\ IsFiniteSet(known)
    BY <2>2
  <2>4. \A t \in Task : TaskInv(t) /\ SendInv(t)
    BY DEF TaskInv, SendInv, Gate!GateInit
  <2>5. TablesInv
    BY <2>2 DEF TablesInv, SessionInv, TablesAgree, LiveIsOwned, SurvivorsAreMute, Task
  <2>6. UdpSessionLimit
    BY <2>2 DEF UdpSessionLimit
  <2> QED
    BY <2>1, <2>3, <2>4, <2>5, <2>6 DEF IInv
<1>2. IInv /\ [Next]_vars => IInv'
  BY TypeStep, TaskInvStep, SendInvStep, TablesInvStep, LimitStep, LogStep DEF IInv
<1> QED
  BY <1>1, <1>2, PTL DEF Spec

\* For any number of datagrams and clients: the session limit holds, the two
\* tables and the sockets agree, a live session is in the tables or being
\* opened, and what survives stop() cannot answer.
THEOREM FlowsAlwaysAgree == Spec => []FlowsAgree
<1>1. IInv => FlowsAgree
  BY DEF IInv, TablesInv, FlowsAgree
<1> QED
  BY <1>1, IInvHolds, PTL

\* No datagram leaves undecided, dropped, or edited before its edited frame is
\* in the log.
THEOREM VerdictAlwaysGoverns == Spec => []VerdictGoverns
<1>1. IInv => VerdictGoverns
  BY DEF IInv, SendInv, EditLogged, VerdictGoverns, TypeOK
<1> QED
  BY <1>1, IInvHolds, PTL

\* No datagram is captured on a flow that was closed while its task waited.
THEOREM CapturesAreLive == Spec => CaptureIsLive
<1> DEFINE Live == \A t \in Task : task'[t] = "captured" /\ task[t] # "captured" =>
                       flow'[t] \in flows /\ flow'[t] \notin ended
<1>1. IInv /\ [Next]_vars => Live
  <2> SUFFICES ASSUME IInv, [Next]_vars PROVE Live
    OBVIOUS
  <2> USE UdpAssumption DEF TypeOK
  <2>0. TypeOK /\ TablesInv /\ \A t \in Task : TaskInv(t)
    BY DEF IInv
  <2>g. ASSUME NEW t \in Task, NEW p, Goto(t, p), p # "captured" PROVE Live
    BY <2>0, <2>g DEF Goto
  <2>e. ASSUME NEW t \in Task, NEW s \in flows \cup ended, Enter(t, s) PROVE Live
    <3>1. s \in Datagram
      BY <2>0
    <3>2. CASE s \in ended
      BY <2>e, <2>g, <3>2 DEF Enter, Abandoned
    <3>3. CASE s \notin ended
      BY <2>0, <2>e, <3>1, <3>3 DEF Enter, Capture, Goto
    <3> QED
      BY <3>2, <3>3
  <2>s. ASSUME UNCHANGED task PROVE Live
    BY <2>s
  <2> HIDE DEF Live, TypeOK
  <2>1. ASSUME NEW d \in Datagram, OnClientDatagram(d) PROVE Live
    <3>1. CASE by_addr[ClientOf[d]] = None
      BY <2>1, <2>g, <3>1 DEF OnClientDatagram, OpenFlow, Task
    <3>2. CASE by_addr[ClientOf[d]] # None
      <4>1. by_addr[ClientOf[d]] \in flows
        BY <2>0, <3>2 DEF TablesInv, TablesAgree
      <4> QED
        BY <2>1, <2>e, <3>2, <4>1 DEF OnClientDatagram, Task
    <3> QED
      BY <3>1, <3>2
  <2>2. ASSUME NEW d \in Datagram, OpenFails(d) \/ FailurePublished(d) \/ FlowOpened(d) \/ Arrive(d)
        PROVE  Live
    BY <2>2, <2>g DEF OpenFails, FailurePublished, FlowOpened, Arrive, Task
  <2>3. ASSUME NEW d \in Datagram, Announced(d) PROVE Live
    BY <2>0, <2>3, <2>e DEF Announced, TablesInv, SessionInv, Task
  <2>4. ASSUME NEW r \in Reply, OnServerDatagram(r) PROVE Live
    BY <2>4, <2>e, <2>g DEF OnServerDatagram, Abandoned, Task
  <2>5. ASSUME NEW t \in Task, Intercept(t) \/ Released(t) PROVE Live
    BY <2>5, <2>g DEF Intercept, Released
  <2>6. ASSUME NEW t \in Task, Completed(t) \/ Relogged(t) PROVE Live
    <3>1. verdict[t] \in {"FORWARD", "DROP", "MODIFIED"}
      BY <2>0, <2>6 DEF Completed, Relogged, Gate!Action, TaskInv
    <3>2. Goto(t, "done") \/ Goto(t, "relogged")
      BY <2>6, <3>1 DEF Completed, Relogged, Forward, SendTo
    <3> QED
      BY <2>g, <3>2
  <2>7. ASSUME NEW r \in Reply, NEW s \in Datagram, ServerAnswers(r, s) PROVE Live
    BY <2>7, <2>g DEF ServerAnswers, Task
  <2>8. ASSUME NEW s \in Datagram, Terminate(s) \/ Delete(s) \/ (\E d \in Dir : Inject(s, d)) PROVE Live
    BY <2>8, <2>s DEF Terminate, Delete, Inject
  <2>9. ASSUME NEW U, NEW a, Verdict(U, a) PROVE Live
    BY <2>9, <2>s DEF Verdict
  <2>10. CASE StopBegins \/ StopGoesOn \/ Start \/ StopForwarder \/ UNCHANGED vars
    BY <2>10, <2>s DEF StopBegins, StopGoesOn, Start, StopForwarder, vars
  <2>11. ASSUME NEW t \in Task, TaskStep(t) PROVE Live
    BY <2>1, <2>2, <2>3, <2>4, <2>5, <2>6, <2>11 DEF TaskStep
  <2> QED
    BY <2>2, <2>7, <2>8, <2>9, <2>10, <2>11 DEF Next
<1> QED
  BY <1>1, IInvHolds, PTL DEF Spec, CaptureIsLive
=============================================================================
