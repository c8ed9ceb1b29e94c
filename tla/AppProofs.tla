------------------------------- MODULE AppProofs -------------------------------
(***************************************************************************)
(* Theorems about the app: the host of the MCP server, and the forwarders  *)
(* with their engines, for any names, ports, workers and budgets.  IInv is *)
(* the inductive invariant.                                                *)
(***************************************************************************)
EXTENDS App, FiniteSetTheorems, SequenceTheorems, WellFoundedInduction, TLAPS

---------------------------------------------------------------------------
(* The host.  An apply that waits remembers what is to be restored if the  *)
(* start after it fails.                                                   *)
Appliance ==
    {AtRest}
    \cup [pc : {"begin"}, want : Settings]
    \cup [pc : {"stopping"}, want : Settings, old : Settings, project : Settings, of : Servers]

ServerStates == {"none", "starting", "serving", "done", "leaked"}
HostTypes ==
    /\ settings \in Settings /\ projectMcp \in Settings
    /\ api \in Nat /\ provider \in Nat
    /\ nserver \in 0 .. MaxServers /\ handle \in 0 .. nserver
    /\ server \in [Servers -> [st : ServerStates, port : Ports, asked : BOOLEAN, api : Nat]]
    /\ applying \in [Appliers -> Appliance]
    /\ left \in [Kinds -> Nat] /\ faults \in 0 .. left.serverFaults

Waiting(a) == applying[a].pc = "stopping" /\ applying[a].want.on

(* Without a fault, settings that are on are carried out or about to be:   *)
(* an apply that waits for the old server will start a new one.            *)
HostFollows ==
    faults = left.serverFaults
    => IF settings.on
       THEN \/ handle # NoServer /\ handle = nserver /\ server[handle].port = settings.port
            \/ handle = NoServer /\ \E a \in Appliers : Waiting(a)
       ELSE ~IsRunning

HostInv ==
    /\ HostTypes
    /\ \A s \in Servers : s > nserver => server[s].st = "none"
    /\ ServersAreOwned
    /\ HostFollows

---------------------------------------------------------------------------
(* The forwarders.  Whatever a task or a message names exists.             *)
Names0 == Names \cup {"none"}
Mails(m) ==
    /\ m \in [kind : {"added", "applied", "enabled", "removed"}, old : Names,
              obj : 0 .. MaxObjs, on : BOOLEAN]
    /\ m.kind \in {"added", "applied"} => m.obj \in Objs
Posted == {m \in [kind : {"added", "applied", "enabled", "removed"}, old : Names,
                  obj : 0 .. MaxObjs, on : BOOLEAN] : Mails(m)}
Jobs == [kind : {"none"} \cup Starts \cup Stops, name : Names0, pc : {"begin", "wait", "done"},
         engine : Nat, fwd : 0 .. MaxObjs, rest : Seq(Names)]

Objects == [Objs -> [name : Names, enabled : BOOLEAN]]
ListsInv ==
    /\ nobj \in 0 .. MaxObjs
    /\ obj \in Objects
    /\ project \in Seq(Objs) /\ apiList \in Seq(Objs) /\ tab \in Seq(Objs)
    /\ form # NoForm => form \in [name : Names, enabled : BOOLEAN, taken : SUBSET Names]
    /\ mail \in Seq(Posted)

JobInv(j, n) ==
    /\ j \in Jobs /\ j.engine <= n
    /\ j.kind # "none" => j.name \in Names
TasksInv ==
    /\ DOMAIN task = Tasks /\ task = [t \in Tasks |-> task[t]]
    /\ \A t \in Tasks : JobInv(task[t], neng)

Sockets == {"none", "open", "closing", "lost"}
Engine == [name : Names0, server : Sockets]
EngineTable == [Engines -> Engine]
EngineTypes ==
    /\ neng \in 0 .. MaxEngines
    /\ engines \in [Names -> 0 .. neng]
    /\ eng \in EngineTable
    /\ live \in [Engines -> Names0]

EnginesInv ==
    /\ EngineTypes
    /\ \A e \in Engines : e > neng => eng[e].server = "none" /\ live[e] = "none"
    /\ SessionsFindEngine

FwdInv == ListsInv /\ TasksInv /\ EnginesInv
IInv == HostInv /\ FwdInv

---------------------------------------------------------------------------
(* The host.  Every action of it keeps its invariant; an action of the app *)
(* may take from the other budgets.                                        *)
Spends == left' \in [Kinds -> Nat] /\ left'.serverFaults = left.serverFaults

LEMMA ServerRecord ==
  ASSUME HostTypes, NEW s \in Servers
  PROVE  /\ server[s] = [x \in {"st", "port", "asked", "api"} |-> server[s][x]]
         /\ server[s].st \in ServerStates /\ server[s].port \in Ports
         /\ server[s].asked \in BOOLEAN /\ server[s].api \in Nat
  BY DEF HostTypes

LEMMA StartedServer ==
  ASSUME NEW s \in Settings, HostInv, ~IsRunning, nserver < MaxServers,
         nserver' = nserver + 1, handle' = nserver', UNCHANGED <<api, provider>>,
         server' = [server EXCEPT ![nserver'] =
            [st |-> "starting", port |-> s.port, asked |-> FALSE,
             api |-> IF provider = 0 THEN api ELSE provider]]
  PROVE  /\ nserver' \in 0 .. MaxServers /\ handle' \in 0 .. nserver' /\ handle' # NoServer
         /\ handle' = nserver' /\ handle' \in Servers
         /\ server' \in [Servers -> [st : ServerStates, port : Ports, asked : BOOLEAN, api : Nat]]
         /\ \A x \in Servers : x > nserver' => server'[x].st = "none"
         /\ ServersAreOwned'
         /\ server'[handle'].port = s.port
  <1>1. nserver \in Nat /\ MaxServers \in Nat /\ nserver' \in Servers /\ nserver + 1 \in 0 .. MaxServers
    BY MCPHostAssumption DEF HostInv, HostTypes, Servers
  <1>2. s.port \in Ports
    BY DEF Settings
  <1> DEFINE r == [st |-> "starting", port |-> s.port, asked |-> FALSE,
                   api |-> IF provider = 0 THEN api ELSE provider]
  <1>3. r \in [st : ServerStates, port : Ports, asked : BOOLEAN, api : Nat]
    BY <1>2 DEF HostInv, HostTypes, ServerStates
  <1>4. r.st = "starting" /\ r.port = s.port
    OBVIOUS
  <1> HIDE DEF r
  <1>5. server' = [server EXCEPT ![nserver'] = r]
    BY DEF r
  <1>6. server' \in [Servers -> [st : ServerStates, port : Ports, asked : BOOLEAN, api : Nat]]
    BY <1>1, <1>3, <1>5 DEF HostInv, HostTypes
  <1>7. server'[nserver'] = r /\ \A x \in Servers : x # nserver' => server'[x] = server[x]
    BY <1>1, <1>5 DEF HostInv, HostTypes
  <1>8. \A x \in Servers : x > nserver' => server'[x].st = "none"
    BY <1>1, <1>7 DEF HostInv, Servers
  <1>9. ServersAreOwned'
    <2> SUFFICES ASSUME NEW x \in Servers, server'[x].st \in Alive, ~server'[x].asked, x # nserver' PROVE FALSE
      BY DEF ServersAreOwned
    <2>1. server[x].st \in Alive /\ ~server[x].asked
      BY <1>7
    <2>2. handle = x
      BY <2>1 DEF HostInv, ServersAreOwned
    <2> QED
      BY <2>1, <2>2 DEF IsRunning, Servers, NoServer
  <1> QED
    BY <1>1, <1>4, <1>6, <1>7, <1>8, <1>9 DEF NoServer

LEMMA ApplianceFacts ==
  /\ AtRest \in Appliance /\ ~(AtRest.pc = "stopping")
  /\ \A w \in Settings : [pc |-> "begin", want |-> w] \in Appliance
  /\ \A w, o, p \in Settings : \A s \in Servers :
        LET x == [pc |-> "stopping", want |-> w, old |-> o, project |-> p, of |-> s] IN
        x \in Appliance /\ x.pc = "stopping" /\ x.want = w
  BY DEF Appliance, AtRest

(* A start keeps what is known of the servers.                             *)
LEMMA StartKeeps ==
  ASSUME NEW s \in Settings, HostInv, Start(s), UNCHANGED <<api, provider>>
  PROVE  /\ nserver' \in 0 .. MaxServers /\ handle' \in 0 .. nserver'
         /\ server' \in [Servers -> [st : ServerStates, port : Ports, asked : BOOLEAN, api : Nat]]
         /\ \A x \in Servers : x > nserver' => server'[x].st = "none"
         /\ ServersAreOwned'
         /\ IF ~s.on \/ IsRunning THEN UNCHANGED <<handle, server, nserver>>
            ELSE handle' # NoServer /\ handle' = nserver' /\ server'[handle'].port = s.port
  <1>1. CASE ~s.on \/ IsRunning
    <2>1. UNCHANGED <<handle, server, nserver>>
      BY <1>1 DEF Start
    <2> QED
      BY <1>1, <2>1 DEF HostInv, HostTypes, ServersAreOwned
  <1>2. CASE ~(~s.on \/ IsRunning)
    <2>1. /\ nserver < MaxServers
          /\ nserver' = nserver + 1 /\ handle' = nserver'
          /\ server' = [server EXCEPT ![nserver'] =
               [st |-> "starting", port |-> s.port, asked |-> FALSE,
                api |-> IF provider = 0 THEN api ELSE provider]]
      BY <1>2 DEF Start
    <2> QED
      BY <1>2, <2>1, StartedServer
  <1> QED
    BY <1>1, <1>2

LEMMA HostTypesFromParts ==
  ASSUME HostInv, Spends, api' \in Nat, provider' \in Nat,
         settings' \in Settings, projectMcp' \in Settings,
         nserver' \in 0 .. MaxServers, handle' \in 0 .. nserver',
         server' \in [Servers -> [st : ServerStates, port : Ports, asked : BOOLEAN, api : Nat]],
         applying' \in [Appliers -> Appliance], faults' \in 0 .. left.serverFaults
  PROVE  HostTypes'
  BY DEF HostInv, HostTypes, Spends

LEMMA ApplyBeginsKeeps ==
  ASSUME HostInv, Spends, NEW a \in Appliers, NEW new \in Settings, ApplyBegins(a, new)
  PROVE  HostInv'
  <1> DEFINE stored == IF a = "pump" THEN new ELSE projectMcp
             rest == [applying EXCEPT ![a] = AtRest]
  <1>1. stored \in Settings /\ settings \in Settings /\ projectMcp \in Settings
    BY DEF HostInv, HostTypes
  <1>2. rest \in [Appliers -> Appliance]
    BY ApplianceFacts DEF HostInv, HostTypes
  <1>3. ~(applying[a].pc = "stopping")
    BY DEF ApplyBegins, AtRest
  <1>4. \A b \in Appliers : Waiting(b) => b # a /\ rest[b] = applying[b]
    BY <1>3 DEF Waiting, HostInv, HostTypes
  <1>5. api' = api /\ provider' = provider /\ api' \in Nat /\ provider' \in Nat
    BY DEF ApplyBegins, HostInv, HostTypes
  <1>6. faults \in 0 .. left.serverFaults /\ left.serverFaults \in Nat
    BY DEF HostInv, HostTypes, Kinds
  <1> HIDE DEF stored, rest
  <1>7. CASE /\ new = settings
             /\ projectMcp' = stored /\ applying' = rest
             /\ UNCHANGED <<settings, handle, server, nserver, faults>>
    <2>1. HostTypes'
      BY <1>1, <1>2, <1>5, <1>6, <1>7, HostTypesFromParts DEF HostInv, HostTypes
    <2>2. \A b \in Appliers : Waiting(b) => Waiting(b)'
      BY <1>4, <1>7 DEF Waiting
    <2>3. HostFollows'
      BY <1>7, <2>2 DEF HostInv, HostFollows, IsRunning, Spends
    <2> QED
      BY <1>7, <2>1, <2>3 DEF HostInv, ServersAreOwned
  <1>8. CASE /\ new # settings /\ IsRunning
             /\ settings' = new /\ projectMcp' = stored
             /\ handle' = NoServer
             /\ server' = [server EXCEPT ![handle].asked = TRUE]
             /\ applying' = [applying EXCEPT ![a] = [pc |-> "stopping", want |-> new,
                                old |-> settings, project |-> projectMcp, of |-> handle]]
             /\ UNCHANGED <<nserver, faults>>
    <2>1. handle \in Servers /\ nserver \in Nat
      BY <1>8, MCPHostAssumption DEF IsRunning, HostInv, HostTypes, Servers, NoServer
    <2> DEFINE r == [server[handle] EXCEPT !.asked = TRUE]
    <2>2. r \in [st : ServerStates, port : Ports, asked : BOOLEAN, api : Nat] /\ r.asked = TRUE
      BY <2>1 DEF HostInv, HostTypes
    <2>3. server' = [server EXCEPT ![handle] = r]
      BY <1>8
    <2> HIDE DEF r
    <2>4. server' \in [Servers -> [st : ServerStates, port : Ports, asked : BOOLEAN, api : Nat]]
      BY <2>2, <2>3 DEF HostInv, HostTypes
    <2>5. server'[handle] = r /\ \A x \in Servers : x # handle => server'[x] = server[x]
      BY <2>1, <2>3 DEF HostInv, HostTypes
    <2>6. [pc |-> "stopping", want |-> new, old |-> settings, project |-> projectMcp, of |-> handle] \in Appliance
      BY <1>1, <2>1, ApplianceFacts
    <2>7. applying' \in [Appliers -> Appliance]
      BY <1>8, <2>6 DEF HostInv, HostTypes
    <2>8. HostTypes'
      BY <1>1, <1>5, <1>6, <1>8, <2>1, <2>4, <2>7, HostTypesFromParts DEF HostInv, HostTypes, NoServer
    <2>9. \A s \in Servers : s > nserver' => server'[s].st = "none"
      BY <1>8, <2>1, <2>5 DEF HostInv, HostTypes, Servers
    <2>10. ServersAreOwned'
      <3> SUFFICES ASSUME NEW x \in Servers, server'[x].st \in Alive, ~server'[x].asked PROVE FALSE
        BY DEF ServersAreOwned
      <3>1. x # handle
        BY <2>2, <2>5
      <3> QED
        BY <3>1, <2>5 DEF HostInv, ServersAreOwned
    <2>11. new.on => Waiting(a)'
      BY <1>8 DEF Waiting, HostInv, HostTypes
    <2>12. HostFollows'
      BY <1>8, <2>11 DEF HostFollows, IsRunning, Spends
    <2> QED
      BY <2>8, <2>9, <2>10, <2>12 DEF HostInv
  <1>9. CASE /\ new # settings /\ ~IsRunning
             /\ settings' = new /\ projectMcp' = stored /\ applying' = rest
             /\ Start(new)
             /\ UNCHANGED faults
    <2>1. /\ nserver' \in 0 .. MaxServers /\ handle' \in 0 .. nserver'
          /\ server' \in [Servers -> [st : ServerStates, port : Ports, asked : BOOLEAN, api : Nat]]
          /\ \A x \in Servers : x > nserver' => server'[x].st = "none"
          /\ ServersAreOwned'
          /\ IF ~new.on \/ IsRunning THEN UNCHANGED <<handle, server, nserver>>
             ELSE handle' # NoServer /\ handle' = nserver' /\ server'[handle'].port = new.port
      BY <1>5, <1>9, StartKeeps
    <2>2. HostTypes'
      BY <1>1, <1>2, <1>5, <1>6, <1>9, <2>1, HostTypesFromParts
    <2>3. HostFollows'
      BY <1>9, <2>1 DEF HostFollows, IsRunning, Spends
    <2> QED
      BY <2>1, <2>2, <2>3 DEF HostInv
  <1>10. CASE /\ new # settings
              /\ StartRaises(new, settings, projectMcp) /\ applying' = rest
    <2>1. faults' \in 0 .. left.serverFaults /\ faults' # left.serverFaults
      BY <1>6, <1>10 DEF StartRaises
    <2>2. UNCHANGED <<settings, projectMcp, handle, server, nserver>>
      BY <1>10 DEF StartRaises
    <2>3. HostTypes'
      BY <1>1, <1>2, <1>5, <1>10, <2>1, <2>2, HostTypesFromParts DEF HostInv, HostTypes
    <2> QED
      BY <2>1, <2>2, <2>3 DEF HostInv, ServersAreOwned, HostFollows, Spends
  <1> QED
    BY <1>7, <1>8, <1>9, <1>10 DEF ApplyBegins, stored, rest

LEMMA ApplyEndsKeeps ==
  ASSUME HostInv, Spends, NEW a \in Appliers, ApplyEnds(a)
  PROVE  HostInv'
  <1> DEFINE x == applying[a]
  <1>1. /\ x.pc = "stopping" /\ applying' = [applying EXCEPT ![a] = AtRest]
        /\ UNCHANGED <<api, provider>>
    BY DEF ApplyEnds
  <1>2. x.want \in Settings /\ x.old \in Settings /\ x.project \in Settings
    BY <1>1 DEF HostInv, HostTypes, Appliance, AtRest
  <1>3. applying' \in [Appliers -> Appliance]
    BY <1>1, ApplianceFacts DEF HostInv, HostTypes
  <1>4. \A b \in Appliers : b # a /\ Waiting(b) => Waiting(b)'
    BY <1>1 DEF Waiting, HostInv, HostTypes
  <1>5. /\ faults \in 0 .. left.serverFaults /\ left.serverFaults \in Nat
        /\ settings \in Settings /\ projectMcp \in Settings /\ api \in Nat /\ provider \in Nat
    BY DEF HostInv, HostTypes, Kinds
  <1>6. CASE /\ IF x.want.on THEN Start(settings) ELSE UNCHANGED <<handle, server, nserver>>
             /\ UNCHANGED <<settings, projectMcp, faults>>
    <2>1. CASE x.want.on
      <3>1. Start(settings)
        BY <1>6, <2>1
      <3>2. /\ nserver' \in 0 .. MaxServers /\ handle' \in 0 .. nserver'
            /\ server' \in [Servers -> [st : ServerStates, port : Ports, asked : BOOLEAN, api : Nat]]
            /\ \A s \in Servers : s > nserver' => server'[s].st = "none"
            /\ ServersAreOwned'
            /\ IF ~settings.on \/ IsRunning THEN UNCHANGED <<handle, server, nserver>>
               ELSE handle' # NoServer /\ handle' = nserver' /\ server'[handle'].port = settings.port
        BY <1>1, <1>5, <3>1, StartKeeps
      <3>3. HostTypes'
        BY <1>1, <1>3, <1>5, <1>6, <3>2, HostTypesFromParts
      <3>4. HostFollows'
        BY <1>6, <3>2 DEF HostInv, HostFollows, IsRunning, Spends
      <3> QED
        BY <3>2, <3>3, <3>4 DEF HostInv
    <2>2. CASE ~x.want.on
      <3>1. UNCHANGED <<handle, server, nserver>>
        BY <1>6, <2>2
      <3>2. HostTypes'
        BY <1>1, <1>3, <1>5, <1>6, <3>1, HostTypesFromParts DEF HostInv, HostTypes
      <3>3. ~Waiting(a)
        BY <2>2 DEF Waiting
      <3>4. HostFollows'
        BY <1>4, <1>6, <3>1, <3>3 DEF HostInv, HostFollows, IsRunning, Spends
      <3> QED
        BY <3>1, <3>2, <3>4 DEF HostInv, ServersAreOwned
    <2> QED
      BY <2>1, <2>2
  <1>7. CASE /\ x.want.on /\ settings.on
             /\ StartRaises(settings, x.old, IF a = "pump" THEN x.project ELSE projectMcp)
    <2>1. faults' \in 0 .. left.serverFaults /\ faults' # left.serverFaults
      BY <1>5, <1>7 DEF StartRaises
    <2>2. /\ settings' = x.old /\ projectMcp' \in Settings
          /\ UNCHANGED <<handle, server, nserver>>
      BY <1>2, <1>5, <1>7 DEF StartRaises
    <2>3. HostTypes'
      BY <1>1, <1>2, <1>3, <1>5, <2>1, <2>2, HostTypesFromParts DEF HostInv, HostTypes
    <2> QED
      BY <2>1, <2>2, <2>3 DEF HostInv, ServersAreOwned, HostFollows, Spends
  <1> QED
    BY <1>6, <1>7 DEF ApplyEnds

(* A server that changes its state, and nothing else.                      *)
LEMMA ServerMoves ==
  ASSUME HostInv, NEW s \in Servers, NEW st \in ServerStates,
         server' = [server EXCEPT ![s].st = st],
         UNCHANGED <<api, settings, projectMcp, provider, handle, nserver, applying, left>>,
         faults' \in 0 .. faults, server[s].st # "none",
         faults' = faults /\ st \in Alive => server[s].st \in Alive,
         server[s].st \notin Alive => st \notin Alive
  PROVE  HostInv'
  <1> DEFINE r == [server[s] EXCEPT !.st = st]
  <1>1. /\ r \in [st : ServerStates, port : Ports, asked : BOOLEAN, api : Nat]
        /\ r.st = st /\ r.asked = server[s].asked /\ r.port = server[s].port
    BY DEF HostInv, HostTypes
  <1>2. server' = [server EXCEPT ![s] = r]
    OBVIOUS
  <1> HIDE DEF r
  <1>3. server' \in [Servers -> [st : ServerStates, port : Ports, asked : BOOLEAN, api : Nat]]
    BY <1>1, <1>2 DEF HostInv, HostTypes
  <1>4. server'[s] = r /\ \A x \in Servers : x # s => server'[x] = server[x]
    BY <1>2 DEF HostInv, HostTypes
  <1>5. /\ faults' \in 0 .. left.serverFaults
        /\ faults' = left.serverFaults => faults = left.serverFaults
    <2>1. left.serverFaults \in Nat /\ faults \in 0 .. left.serverFaults
      BY DEF HostInv, HostTypes, Kinds
    <2> QED
      BY <2>1
  <1>6. HostTypes'
    BY <1>3, <1>5 DEF HostInv, HostTypes
  <1>7. \A x \in Servers : x > nserver' => server'[x].st = "none"
    BY <1>4 DEF HostInv
  <1>8. ServersAreOwned'
    <2> SUFFICES ASSUME NEW x \in Servers, server'[x].st \in Alive, ~server'[x].asked PROVE handle = x
      BY DEF ServersAreOwned
    <2>1. server[x].st \in Alive /\ ~server[x].asked
      BY <1>1, <1>4
    <2> QED
      BY <2>1 DEF HostInv, ServersAreOwned
  <1>9. IsRunning' => IsRunning
    <2> SUFFICES ASSUME IsRunning' PROVE IsRunning
      OBVIOUS
    <2>1. handle \in Servers
      BY MCPHostAssumption DEF IsRunning, HostInv, HostTypes, NoServer, Servers
    <2> QED
      BY <1>1, <1>4, <2>1 DEF IsRunning
  <1>10. HostFollows'
    <2> SUFFICES ASSUME faults' = left.serverFaults
                 PROVE  IF settings.on
                        THEN \/ handle # NoServer /\ handle = nserver /\ server'[handle].port = settings.port
                             \/ handle = NoServer /\ \E a \in Appliers : Waiting(a)
                        ELSE ~IsRunning'
      BY DEF HostFollows, Waiting
    <2>1. faults = left.serverFaults
      BY <1>5
    <2>2. IF settings.on
          THEN \/ handle # NoServer /\ handle = nserver /\ server[handle].port = settings.port
               \/ handle = NoServer /\ \E a \in Appliers : Waiting(a)
          ELSE ~IsRunning
      BY <2>1 DEF HostInv, HostFollows
    <2>3. handle # NoServer => handle \in Servers
      BY MCPHostAssumption DEF HostInv, HostTypes, NoServer, Servers
    <2> QED
      BY <1>1, <1>4, <1>9, <2>2, <2>3
  <1> QED
    BY <1>6, <1>7, <1>8, <1>10 DEF HostInv

LEMMA StopTimesOutKeeps ==
  ASSUME HostInv, UNCHANGED left, NEW a \in Appliers, StopTimesOut(a)
  PROVE  HostInv'
  <1> DEFINE s == applying[a].of
             st == IF server[s].st = "serving" THEN "leaked" ELSE "done"
  <1>1. /\ applying[a].pc = "stopping" /\ server[s].st \in Alive /\ faults > 0 /\ faults' = faults - 1
        /\ server' = [server EXCEPT ![s].st = IF @ = "serving" THEN "leaked" ELSE "done"]
        /\ UNCHANGED <<api, settings, projectMcp, provider, handle, nserver, applying>>
    BY DEF StopTimesOut
  <1>2. s \in Servers
    BY <1>1 DEF HostInv, HostTypes, Appliance, AtRest
  <1>3. server' = [server EXCEPT ![s].st = st] /\ st \in ServerStates /\ st \notin Alive
    BY <1>1, <1>2 DEF HostInv, HostTypes, ServerStates, Alive
  <1>4. faults' \in 0 .. faults
    BY <1>1 DEF HostInv, HostTypes, Kinds
  <1> HIDE DEF st
  <1> QED
    BY <1>1, <1>2, <1>3, <1>4, ServerMoves DEF Alive

LEMMA ServerBindsKeeps ==
  ASSUME HostInv, UNCHANGED left, NEW s \in Servers, ServerBinds(s)
  PROVE  HostInv'
  <1> DEFINE st == IF Held(server[s].port) THEN "done" ELSE "serving"
  <1>1. server[s].st = "starting" /\ server' = [server EXCEPT ![s].st = st] /\ st \in ServerStates
    BY DEF ServerBinds, ServerStates
  <1>2. UNCHANGED <<api, settings, projectMcp, provider, handle, nserver, applying, faults>>
    BY DEF ServerBinds
  <1>3. faults' \in 0 .. faults
    BY <1>2 DEF HostInv, HostTypes, Kinds
  <1> HIDE DEF st
  <1> QED
    BY <1>1, <1>2, <1>3, ServerMoves DEF Alive

LEMMA ServerExitsKeeps ==
  ASSUME HostInv, UNCHANGED left, NEW s \in Servers, ServerExits(s)
  PROVE  HostInv'
  <1>1. /\ server[s].st = "serving" /\ server' = [server EXCEPT ![s].st = "done"]
        /\ UNCHANGED <<api, settings, projectMcp, provider, handle, nserver, applying>>
    BY DEF ServerExits
  <1>2. faults' \in 0 .. faults
    BY DEF ServerExits, HostInv, HostTypes, Kinds
  <1>3. "done" \in ServerStates /\ "done" \notin Alive
    BY DEF ServerStates, Alive
  <1> QED
    BY <1>1, <1>2, <1>3, ServerMoves DEF Alive

(* What the rest of the app does leaves the host alone.                    *)
LEMMA HostLeftAlone ==
  ASSUME HostInv, Spends, UNCHANGED hvars
  PROVE  HostInv'
  BY DEF HostInv, HostTypes, ServersAreOwned, HostFollows, IsRunning, Waiting, Spends, hvars

LEMMA RebindKeeps ==
  ASSUME HostInv, Spends, NEW w \in Workers, NEW s \in Settings, RebindMcp(w, s)
  PROVE  HostInv'
  <1>0. w \in Appliers
    BY DEF Appliers
  <1>1. /\ applying[w] = AtRest /\ applying' = [applying EXCEPT ![w] = [pc |-> "begin", want |-> s]]
        /\ api' = api + 1 /\ projectMcp' = s
        /\ UNCHANGED <<settings, handle, nserver, faults>>
    BY DEF RebindMcp
  <1>2. applying' \in [Appliers -> Appliance]
    BY <1>1, ApplianceFacts DEF HostInv, HostTypes
  <1>3. \A b \in Appliers : Waiting(b) => Waiting(b)'
    BY <1>1, ApplianceFacts DEF Waiting, HostInv, HostTypes
  <1>4. api' \in Nat /\ provider' \in Nat
    BY <1>1 DEF RebindMcp, HostInv, HostTypes
  <1>5. /\ server' \in [Servers -> [st : ServerStates, port : Ports, asked : BOOLEAN, api : Nat]]
        /\ \A x \in Servers : /\ server'[x].st = server[x].st /\ server'[x].port = server[x].port
                              /\ server'[x].asked = server[x].asked
    <2>1. CASE handle = NoServer
      BY <2>1 DEF RebindMcp, HostInv, HostTypes
    <2>2. CASE handle # NoServer
      <3>1. handle \in Servers /\ server' = [server EXCEPT ![handle].api = api']
        BY <2>2, MCPHostAssumption DEF RebindMcp, HostInv, HostTypes, NoServer, Servers
      <3> DEFINE r == [server[handle] EXCEPT !.api = api']
      <3>2. /\ r \in [st : ServerStates, port : Ports, asked : BOOLEAN, api : Nat]
            /\ r.st = server[handle].st /\ r.port = server[handle].port /\ r.asked = server[handle].asked
        BY <1>4, <3>1 DEF HostInv, HostTypes
      <3>3. server' = [server EXCEPT ![handle] = r]
        BY <3>1
      <3> HIDE DEF r
      <3> QED
        BY <3>1, <3>2, <3>3 DEF HostInv, HostTypes
    <2> QED
      BY <2>1, <2>2
  <1>6. handle # NoServer => handle \in Servers
    BY MCPHostAssumption DEF HostInv, HostTypes, NoServer, Servers
  <1>7. HostTypes'
    BY <1>1, <1>2, <1>4, <1>5 DEF HostInv, HostTypes, Spends
  <1>8. HostFollows'
    BY <1>1, <1>3, <1>5, <1>6 DEF HostInv, HostFollows, IsRunning, Spends
  <1>9. ServersAreOwned' /\ \A x \in Servers : x > nserver' => server'[x].st = "none"
    BY <1>1, <1>5 DEF HostInv, ServersAreOwned
  <1> QED
    BY <1>7, <1>8, <1>9 DEF HostInv

LEMMA HostStarts ==
  ASSUME Init PROVE HostInv
  <1>1. PICK b \in Budgets : left = b /\ faults = b.serverFaults
    BY DEF Init
  <1>2. PICK s \in Starting : MCPInit(s)
    BY DEF Init
  <1>3. s \in Settings /\ s.on \in BOOLEAN /\ s.port \in Ports
    BY AppAssumption DEF Settings
  <1>4. left \in [Kinds -> Nat] /\ faults = left.serverFaults /\ left.serverFaults \in Nat
    BY <1>1, AppAssumption DEF Kinds
  <1>5. /\ api = 1 /\ settings = s /\ projectMcp = s /\ provider = 0
        /\ server = [x \in Servers |-> [st |-> IF x = 1 /\ s.on THEN "starting" ELSE "none",
                                        port |-> s.port, asked |-> FALSE, api |-> 1]]
        /\ nserver = (IF s.on THEN 1 ELSE 0) /\ handle = nserver
        /\ applying = [a \in Appliers |-> AtRest]
    BY <1>2 DEF MCPInit
  <1>6. 1 \in Servers /\ MaxServers \in Nat /\ MaxServers >= 1
    BY MCPHostAssumption DEF Servers
  <1>7. HostTypes
    <2>1. server \in [Servers -> [st : ServerStates, port : Ports, asked : BOOLEAN, api : Nat]]
      BY <1>3, <1>5 DEF ServerStates
    <2>2. applying \in [Appliers -> Appliance]
      BY <1>5, ApplianceFacts
    <2>3. nserver \in 0 .. MaxServers /\ handle \in 0 .. nserver
      BY <1>5, <1>6
    <2> QED
      BY <1>3, <1>4, <1>5, <2>1, <2>2, <2>3 DEF HostTypes
  <1>8. \A x \in Servers : x > nserver => server[x].st = "none"
    BY <1>3, <1>5, <1>6 DEF Servers
  <1>9. ServersAreOwned
    BY <1>3, <1>5, <1>6 DEF ServersAreOwned, Alive
  <1>10. HostFollows
    BY <1>3, <1>5, <1>6 DEF HostFollows, IsRunning, NoServer
  <1> QED
    BY <1>7, <1>8, <1>9, <1>10 DEF HostInv

---------------------------------------------------------------------------
(* Lists.  A nonempty set of numbers has a least one.                      *)
LEMMA Least ==
  ASSUME NEW I, I \subseteq Nat, I # {}
  PROVE  \E x \in I : \A y \in I : x <= y
  <1> DEFINE R == OpToRel(<, Nat)
  <1>1. PICK x \in I : \A y \in I : ~ (<<y, x>> \in R)
    <2>1. IsWellFoundedOn(R, Nat)
      BY NatLessThanWellFounded
    <2> HIDE DEF R
    <2> QED
      BY <2>1, WFMin
  <1>2. \A y \in I : x <= y
    <2> SUFFICES ASSUME NEW y \in I PROVE x <= y
      OBVIOUS
    <2>1. x \in Nat /\ y \in Nat
      OBVIOUS
    <2>2. ~(y < x)
      BY <1>1, <2>1 DEF OpToRel
    <2> QED
      BY <2>1, <2>2
  <1> QED
    BY <1>2

(* Counting the members of a set of places from below meets every number   *)
(* up to their count.                                                      *)
LEMMA CountMeets ==
  ASSUME NEW n \in Nat, NEW places \in SUBSET (1 .. n), NEW k \in 1 .. Cardinality(places)
  PROVE  \E i \in places : Cardinality({j \in places : j <= i}) = k
  <1> DEFINE upTo(i) == {j \in places : j <= i}
             reached == {i \in 0 .. n : Cardinality(upTo(i)) >= k}
  <1>1. IsFiniteSet(places) /\ \A i \in Nat : IsFiniteSet(upTo(i)) /\ Cardinality(upTo(i)) \in Nat
    <2>1. IsFiniteSet(1 .. n)
      BY FS_Interval
    <2>2. IsFiniteSet(places)
      BY <2>1, FS_Subset
    <2>3. \A i \in Nat : upTo(i) \in SUBSET places
      OBVIOUS
    <2> HIDE DEF upTo
    <2>4. \A i \in Nat : IsFiniteSet(upTo(i))
      BY <2>2, <2>3, FS_Subset
    <2> QED
      BY <2>2, <2>4, FS_CardinalityType
  <1>2. Cardinality(places) \in Nat
    BY <1>1, FS_CardinalityType
  <1>3. \A j \in places : j \in Nat /\ 1 <= j /\ j <= n
    OBVIOUS
  <1>4. \A i, j : j \in upTo(i) <=> j \in places /\ j <= i
    OBVIOUS
  <1>5. \A i : i \in reached <=> i \in Nat /\ i <= n /\ Cardinality(upTo(i)) >= k
    OBVIOUS
  <1> HIDE DEF upTo, reached
  <1>6. upTo(n) = places
    BY <1>3, <1>4
  <1>7. n \in reached
    BY <1>2, <1>6, <1>5
  <1>8. reached \subseteq Nat
    BY <1>5
  <1>9. PICK i \in reached : \A y \in reached : i <= y
    BY <1>7, <1>8, Least
  <1>10. i \in Nat /\ i <= n /\ Cardinality(upTo(i)) >= k
    BY <1>5, <1>9
  <1>11. i # 0
    <2>1. upTo(0) = {}
      <3> SUFFICES ASSUME NEW j \in upTo(0) PROVE FALSE
        OBVIOUS
      <3>1. j \in places /\ j <= 0
        BY <1>4
      <3> QED
        BY <1>3, <3>1
    <2>2. Cardinality(upTo(0)) = 0
      BY <2>1, FS_EmptySet
    <2> QED
      BY <1>10, <2>2
  <1>12. i - 1 \notin reached /\ i - 1 \in Nat /\ i - 1 <= n
    BY <1>9, <1>10, <1>11
  <1>13. Cardinality(upTo(i - 1)) < k
    BY <1>1, <1>2, <1>12, <1>5
  <1>14. i \in places
    <2> SUFFICES ASSUME i \notin places PROVE FALSE
      OBVIOUS
    <2>1. ASSUME NEW j PROVE j \in upTo(i) <=> j \in upTo(i - 1)
      <3>1. j \in upTo(i) <=> j \in places /\ j <= i
        BY <1>4
      <3>2. j \in upTo(i - 1) <=> j \in places /\ j <= i - 1
        BY <1>4
      <3>3. j \in places => (j <= i <=> j <= i - 1)
        BY <1>3, <1>10
      <3> QED
        BY <3>1, <3>2, <3>3
    <2>2. upTo(i) = upTo(i - 1)
      BY <2>1
    <2>3. Cardinality(upTo(i)) \in Nat
      BY <1>1, <1>10
    <2> QED
      BY <1>10, <1>13, <2>2, <2>3
  <1>15. Cardinality(upTo(i)) = Cardinality(upTo(i - 1)) + 1
    <2>1. i \notin upTo(i - 1)
      BY <1>4, <1>10, <1>11
    <2>2. ASSUME NEW j PROVE j \in upTo(i) <=> j \in upTo(i - 1) \cup {i}
      <3>1. j \in upTo(i) <=> j \in places /\ j <= i
        BY <1>4
      <3>2. j \in upTo(i - 1) <=> j \in places /\ j <= i - 1
        BY <1>4
      <3>3. j \in places => (j <= i <=> j <= i - 1 \/ j = i)
        BY <1>3, <1>10
      <3> QED
        BY <1>14, <3>1, <3>2, <3>3
    <2>3. upTo(i) = upTo(i - 1) \cup {i}
      BY <2>2
    <2>4. IsFiniteSet(upTo(i - 1))
      BY <1>1, <1>12
    <2> QED
      BY <2>1, <2>3, <2>4, FS_AddElement
  <1>16. Cardinality(upTo(i)) = k
    <2>1. Cardinality(upTo(i)) \in Nat /\ Cardinality(upTo(i - 1)) \in Nat
      BY <1>1, <1>10, <1>12
    <2> QED
      BY <1>2, <1>10, <1>13, <1>15, <2>1
  <1> QED
    BY <1>14, <1>16 DEF upTo

LEMMA SubsequenceFacts ==
  ASSUME NEW S, NEW list \in Seq(S), NEW places \in SUBSET DOMAIN list
  PROVE  Subsequence(list, places) \in Seq(S)
  <1>1. Len(list) \in Nat /\ DOMAIN list = 1 .. Len(list) /\ \A i \in DOMAIN list : list[i] \in S
    BY LenProperties, ElementOfSeq
  <1>2. IsFiniteSet(places) /\ Cardinality(places) \in Nat
    <2>1. IsFiniteSet(1 .. Len(list))
      BY <1>1, FS_Interval
    <2> QED
      BY <1>1, <2>1, FS_Subset, FS_CardinalityType
  <1> DEFINE at(k) == CHOOSE i \in places : Cardinality({j \in places : j <= i}) = k
  <1>3. \A k \in 1 .. Cardinality(places) : at(k) \in places
    <2> SUFFICES ASSUME NEW k \in 1 .. Cardinality(places) PROVE at(k) \in places
      OBVIOUS
    <2>1. \E i \in places : Cardinality({j \in places : j <= i}) = k
      BY <1>1, CountMeets
    <2> QED
      BY <2>1
  <1>4. Subsequence(list, places) = [k \in 1 .. Cardinality(places) |-> list[at(k)]]
    BY DEF Subsequence
  <1>5. \A k \in 1 .. Cardinality(places) : list[at(k)] \in S
    BY <1>1, <1>3
  <1> HIDE DEF at
  <1> QED
    BY <1>2, <1>4, <1>5, IsASeq

LEMMA WithoutFacts ==
  ASSUME NEW list \in Seq(Objs), NEW name
  PROVE  Without(list, name) \in Seq(Objs)
  <1> DEFINE places == {i \in DOMAIN list : NameOf(list[i]) # name}
  <1>1. places \in SUBSET DOMAIN list
    OBVIOUS
  <1>2. Without(list, name) = Subsequence(list, places)
    BY DEF Without
  <1> HIDE DEF places
  <1> QED
    BY <1>1, <1>2, SubsequenceFacts

---------------------------------------------------------------------------
(* update_forwarders.  Objects have names, a map of engines numbers each   *)
(* engine once, and only engines made so far.                              *)
Injective(map) == \A a, b \in Names : map[a] = map[b] /\ map[a] # None => a = b
Known(n) == {map \in [Names -> 0 .. n] : Injective(map)}

(* Afterwards every engine known is known under its own name, an engine    *)
(* known before is known under the name it had, and one that is new was    *)
(* never used.                                                             *)
LEMMA SyncFacts ==
  ASSUME NEW list \in Seq(Objs), NEW objs \in Objects,
         NEW n \in Nat, NEW map \in Known(n),
         NEW es \in EngineTable, NEW s, s = Sync(list, objs, map, es, n)
  PROVE  /\ s.n \in Nat /\ s.n >= n
         /\ s.map \in Known(s.n)
         /\ \A m \in Names : s.map[m] # None => s.map[m] = map[m] \/ s.map[m] > n
         /\ s.n <= MaxEngines =>
              /\ s.eng \in EngineTable
              /\ \A m \in Names : s.map[m] # None => s.eng[s.map[m]].name = m
              /\ \A e \in Engines : s.eng[e].server \in {es[e].server, "none"}
  <1>1. Len(list) \in Nat /\ DOMAIN list = 1 .. Len(list) /\ \A i \in DOMAIN list : list[i] \in Objs
    BY LenProperties, ElementOfSeq
  <1>2. /\ objs \in [Objs -> [name : Names, enabled : BOOLEAN]]
        /\ map \in [Names -> 0 .. n] /\ Injective(map)
        /\ es \in [Engines -> Engine]
    BY DEF Objects, Known, EngineTable
  <1> DEFINE at(i) == objs[list[i]].name
             names == {at(i) : i \in DOMAIN list}
             first(name) == CHOOSE i \in DOMAIN list : at(i) = name
                               /\ \A j \in 1 .. i - 1 : at(j) # name
             made == {name \in names : map[name] = None}
             before(name) == {m \in made : first(m) <= first(name)}
             id(name) == n + Cardinality(before(name))
             kept(e) == \E m \in names : map[m] = e
             new(e) == \E m \in made : id(m) = e
             nameOf(e) == CHOOSE m \in names : IF kept(e) THEN map[m] = e ELSE m \in made /\ id(m) = e
             mapped == [m \in Names |-> IF m \notin names THEN None
                                        ELSE IF m \in made THEN id(m) ELSE map[m]]
             engd == [e \in Engines |->
                        IF kept(e) \/ new(e)
                        THEN [name |-> nameOf(e), server |-> IF kept(e) THEN es[e].server ELSE "none"]
                        ELSE es[e]]
             total == n + Cardinality(made)
  <1>3. s = [map |-> mapped, eng |-> engd, n |-> total]
    BY DEF Sync
  <1>4. \A i \in DOMAIN list : at(i) \in Names
    BY <1>1, <1>2
  <1>5. names \subseteq Names /\ \A m : m \in names <=> \E i \in DOMAIN list : at(i) = m
    BY <1>4
  <1> HIDE DEF at
  <1>6. IsFiniteSet(names)
    <2> DEFINE f == [i \in DOMAIN list |-> at(i)]
    <2>1. f \in Surjection(DOMAIN list, names)
      BY DEF Surjection
    <2>2. IsFiniteSet(DOMAIN list)
      BY <1>1, FS_Interval
    <2> HIDE DEF f, names
    <2> QED
      BY <2>1, <2>2, FS_Surjection
  <1> HIDE DEF names
  <1>7. \A m \in names : first(m) \in DOMAIN list /\ at(first(m)) = m
    <2> SUFFICES ASSUME NEW m \in names PROVE first(m) \in DOMAIN list /\ at(first(m)) = m
      OBVIOUS
    <2> DEFINE I == {i \in DOMAIN list : at(i) = m}
    <2>1. I \subseteq Nat /\ I # {}
      BY <1>1, <1>5
    <2>2. PICK x \in I : \A y \in I : x <= y
      <3> HIDE DEF I
      <3> QED
        BY <2>1, Least
    <2>3. x \in DOMAIN list /\ at(x) = m
      BY <2>2
    <2>4. \A j \in 1 .. x - 1 : at(j) # m
      <3> SUFFICES ASSUME NEW j \in 1 .. x - 1, at(j) = m PROVE FALSE
        OBVIOUS
      <3>1. j \in DOMAIN list /\ j < x
        BY <1>1, <2>3
      <3> QED
        BY <2>2, <3>1, <1>1, <2>3
    <2> QED
      BY <2>3, <2>4
  <1> HIDE DEF first
  <1>8. IsFiniteSet(made) /\ Cardinality(made) \in Nat
    <2>1. made \in SUBSET names
      OBVIOUS
    <2> HIDE DEF made
    <2> QED
      BY <1>6, <2>1, FS_Subset, FS_CardinalityType
  <1>9. \A m \in made : m \in names /\ map[m] = None
    OBVIOUS
  <1>10. \A m \in names : m \notin made => map[m] # None
    OBVIOUS
  <1> HIDE DEF made
  <1>11. \A m \in made : m \in before(m) /\ first(m) \in Nat
    BY <1>1, <1>7, <1>9
  <1>12. \A a : /\ before(a) \in SUBSET made /\ IsFiniteSet(before(a))
                /\ Cardinality(before(a)) \in Nat /\ Cardinality(before(a)) <= Cardinality(made)
    <2> SUFFICES ASSUME NEW a
                 PROVE  /\ before(a) \in SUBSET made /\ IsFiniteSet(before(a))
                        /\ Cardinality(before(a)) \in Nat /\ Cardinality(before(a)) <= Cardinality(made)
      OBVIOUS
    <2>1. before(a) \in SUBSET made
      OBVIOUS
    <2> HIDE DEF before
    <2> QED
      BY <1>8, <2>1, FS_Subset, FS_CardinalityType
  <1>13. \A a, b \in made : Cardinality(before(a)) = Cardinality(before(b)) => a = b
    <2>1. ASSUME NEW a \in made, NEW b \in made, first(a) < first(b)
          PROVE  Cardinality(before(a)) # Cardinality(before(b))
      <3>1. before(a) \in SUBSET before(b)
        <4> SUFFICES ASSUME NEW m \in before(a) PROVE m \in before(b)
          OBVIOUS
        <4>1. m \in made /\ first(m) <= first(a)
          OBVIOUS
        <4> HIDE DEF before
        <4>2. first(m) \in Nat /\ first(a) \in Nat /\ first(b) \in Nat
          BY <1>11, <4>1
        <4>3. first(m) <= first(b)
          BY <2>1, <4>1, <4>2
        <4> QED
          BY <4>1, <4>3 DEF before
      <3>2. b \in before(b) /\ b \notin before(a)
        BY <1>11, <2>1
      <3> HIDE DEF before
      <3> QED
        BY <1>12, <3>1, <3>2, FS_Subset
    <2> SUFFICES ASSUME NEW a \in made, NEW b \in made, a # b
                 PROVE  Cardinality(before(a)) # Cardinality(before(b))
      OBVIOUS
    <2>2. first(a) # first(b)
      BY <1>7, <1>9
    <2>3. first(a) < first(b) \/ first(b) < first(a)
      BY <1>11, <2>2
    <2> HIDE DEF before
    <2> QED
      BY <2>1, <2>3
  <1> HIDE DEF before
  <1>14. \A a \in made : Cardinality(before(a)) >= 1
    <2> SUFFICES ASSUME NEW a \in made PROVE Cardinality(before(a)) >= 1
      OBVIOUS
    <2>1. before(a) # {}
      BY <1>11
    <2>2. Cardinality(before(a)) # 0 /\ Cardinality(before(a)) \in Nat
      BY <1>12, <2>1, FS_EmptySet
    <2> QED
      BY <2>2
  <1>15. \A a \in made : id(a) \in Nat /\ id(a) > n /\ id(a) <= total
    BY <1>8, <1>12, <1>14
  <1>16. \A a, b \in made : id(a) = id(b) => a = b
    BY <1>12, <1>13
  <1>17. total \in Nat /\ total >= n
    BY <1>8
  <1> HIDE DEF id, total
  <1>18. mapped \in [Names -> 0 .. total]
    <2>1. \A m \in Names : map[m] \in 0 .. total
      BY <1>17, <1>2
    <2>2. \A m \in made : id(m) \in 0 .. total
      BY <1>15
    <2> QED
      BY <1>17, <2>1, <2>2 DEF None
  <1>19. ASSUME NEW m \in Names, mapped[m] # None
         PROVE  \/ m \in made /\ mapped[m] = id(m)
                \/ m \in names /\ m \notin made /\ mapped[m] = map[m]
    BY <1>19
  <1>20. \A m \in Names : mapped[m] # None => mapped[m] = map[m] \/ mapped[m] > n
    BY <1>15, <1>19
  <1>21. Injective(mapped)
    <2> SUFFICES ASSUME NEW a \in Names, NEW b \in Names, mapped[a] = mapped[b], mapped[a] # None
                 PROVE  a = b
      BY DEF Injective
    <2>1. map[a] \in 0 .. n /\ map[b] \in 0 .. n
      BY <1>2
    <2> HIDE DEF mapped
    <2>2. /\ \/ a \in made /\ mapped[a] = id(a)
             \/ a \in names /\ a \notin made /\ mapped[a] = map[a]
          /\ \/ b \in made /\ mapped[b] = id(b)
             \/ b \in names /\ b \notin made /\ mapped[b] = map[b]
      BY <1>19
    <2>3. a \in made => id(a) > n /\ id(a) \in Nat
      BY <1>15
    <2>4. b \in made => id(b) > n /\ id(b) \in Nat
      BY <1>15
    <2> QED
      BY <1>16, <1>2, <2>1, <2>2, <2>3, <2>4 DEF Injective
  <1>22. ASSUME NEW m \in Names, mapped[m] # None
         PROVE  kept(mapped[m]) \/ new(mapped[m])
    BY <1>19, <1>22
  <1>23. \A m \in names : kept(map[m])
    OBVIOUS
  <1>24. ASSUME NEW m \in made PROVE ~kept(id(m)) /\ id(m) # None
    <2> SUFFICES ASSUME NEW k \in names, map[k] = id(m) PROVE FALSE
      BY <1>15 DEF None
    <2>1. map[k] \in 0 .. n
      BY <1>5, <1>2
    <2> QED
      BY <1>15, <2>1
  <1>25. ASSUME NEW e, kept(e) \/ new(e)
         PROVE  /\ nameOf(e) \in names
                /\ IF kept(e) THEN map[nameOf(e)] = e ELSE nameOf(e) \in made /\ id(nameOf(e)) = e
    BY <1>9, <1>25
  <1>26. ASSUME NEW m \in Names, mapped[m] # None PROVE nameOf(mapped[m]) = m
    <2> DEFINE e == mapped[m]
    <2>1. CASE m \in made /\ e = id(m)
      <3>1. ~kept(e) /\ new(e)
        BY <1>24, <2>1
      <3>2. nameOf(e) \in made /\ id(nameOf(e)) = e
        BY <1>25, <3>1
      <3> QED
        BY <1>16, <2>1, <3>2
    <2>2. CASE m \in names /\ m \notin made /\ e = map[m]
      <3>1. kept(e)
        BY <2>2
      <3>2. nameOf(e) \in Names /\ map[nameOf(e)] = e
        BY <1>5, <1>25, <3>1
      <3> QED
        BY <1>26, <1>2, <2>2, <3>2 DEF Injective
    <2> QED
      BY <1>19, <1>26, <2>1, <2>2
  <1> HIDE DEF kept, new, nameOf, mapped
  <1>27. ASSUME total <= MaxEngines
         PROVE  /\ engd \in EngineTable
                /\ \A m \in Names : mapped[m] # None => engd[mapped[m]].name = m
                /\ \A e \in Engines : engd[e].server \in {es[e].server, "none"}
    <2>1. \A e \in Engines : es[e] \in Engine /\ es[e].server \in Sockets
      BY <1>2 DEF Engine
    <2>2. ASSUME NEW e \in Engines, kept(e) \/ new(e)
          PROVE  nameOf(e) \in Names0
      BY <1>5, <1>25, <2>2 DEF Names0
    <2>3. ASSUME NEW e \in Engines PROVE engd[e] \in Engine /\ engd[e].server \in {es[e].server, "none"}
      <3>1. CASE kept(e) \/ new(e)
        <4>1. engd[e] = [name |-> nameOf(e), server |-> IF kept(e) THEN es[e].server ELSE "none"]
          BY <3>1
        <4> DEFINE a == nameOf(e)
                   v == IF kept(e) THEN es[e].server ELSE "none"
        <4>2. a \in Names0
          BY <2>2, <3>1
        <4>4. v \in Sockets /\ v \in {es[e].server, "none"}
          <5>1. v = es[e].server \/ v = "none"
            OBVIOUS
          <5> HIDE DEF v
          <5> QED
            BY <2>1, <5>1 DEF Sockets
        <4> HIDE DEF engd, a, v
        <4>3. engd[e] = [name |-> a, server |-> v]
          BY <4>1 DEF a, v
        <4> QED
          BY <4>2, <4>3, <4>4 DEF Engine
      <3>2. CASE ~(kept(e) \/ new(e))
        <4>1. engd[e] = es[e]
          BY <3>2
        <4> HIDE DEF engd
        <4> QED
          BY <2>1, <4>1
      <3> QED
        BY <3>1, <3>2
    <2>4. ASSUME NEW m \in Names, mapped[m] # None PROVE engd[mapped[m]].name = m
      <3>1. mapped[m] \in Engines
        BY <1>17, <1>18, <1>27, <2>4, ForwardersAssumption DEF Engines, None
      <3>2. kept(mapped[m]) \/ new(mapped[m])
        BY <1>22, <2>4
      <3> QED
        BY <1>26, <2>4, <3>1, <3>2
    <2>5. DOMAIN engd = Engines /\ engd = [e \in Engines |-> engd[e]]
      OBVIOUS
    <2> HIDE DEF engd
    <2> QED
      BY <2>3, <2>4, <2>5 DEF EngineTable
  <1> HIDE DEF engd
  <1> QED
    BY <1>3, <1>17, <1>18, <1>20, <1>27, <1>21 DEF Known

(* What update_forwarders is given and what it leaves behind.              *)
LEMMA SyncKeeps ==
  ASSUME EngineTypes, NEW list \in Seq(Objs), NEW objs \in Objects,
         NEW map \in Known(neng), NEW es \in EngineTable,
         NEW s, s = Sync(list, objs, map, es, neng), s.n <= MaxEngines,
         engines' = s.map, eng' = s.eng, neng' = s.n,
         live' \in [Engines -> Names0],
         \A e \in Engines : e > neng => es[e].server = "none" /\ live'[e] = "none",
         \A m \in Names : map[m] # None => live'[map[m]] \in {m, "none"}
  PROVE  EnginesInv' /\ neng' \in Nat /\ neng' >= neng
  <1>1. neng \in Nat /\ MaxEngines \in Nat
    BY ForwardersAssumption DEF EngineTypes
  <1>2. /\ s.n \in Nat /\ s.n >= neng
        /\ s.map \in Known(s.n)
        /\ \A m \in Names : s.map[m] # None => s.map[m] = map[m] \/ s.map[m] > neng
        /\ s.n <= MaxEngines =>
              /\ s.eng \in EngineTable
              /\ \A m \in Names : s.map[m] # None => s.eng[s.map[m]].name = m
              /\ \A e \in Engines : s.eng[e].server \in {es[e].server, "none"}
    BY <1>1, SyncFacts
  <1>3. EngineTypes'
    BY <1>1, <1>2 DEF EngineTypes, Known
  <1>4. \A e \in Engines : e > neng' => eng'[e].server = "none" /\ live'[e] = "none"
    <2> SUFFICES ASSUME NEW e \in Engines, e > neng' PROVE eng'[e].server = "none" /\ live'[e] = "none"
      OBVIOUS
    <2>1. e \in Nat /\ e > neng
      BY <1>1, <1>2 DEF Engines
    <2> QED
      BY <1>2, <2>1
  <1>5. SessionsFindEngine'
    <2> SUFFICES ASSUME NEW m \in Names, engines'[m] # None
                 PROVE  eng'[engines'[m]].name = m /\ live'[engines'[m]] \in {m, "none"}
      BY DEF SessionsFindEngine
    <2>1. eng'[engines'[m]].name = m
      BY <1>2
    <2>2. engines'[m] \in Engines
      BY <1>1, <1>2 DEF Engines, None, Known
    <2>3. engines'[m] = map[m] \/ engines'[m] > neng
      BY <1>2
    <2> QED
      BY <2>1, <2>2, <2>3
  <1> QED
    BY <1>2, <1>3, <1>4, <1>5 DEF EnginesInv

(* The engines known now: each under one name.                             *)
LEMMA EnginesNow ==
  ASSUME EnginesInv
  PROVE  /\ EngineTypes /\ engines \in Known(neng)
         /\ neng \in Nat /\ MaxEngines \in Nat /\ neng <= MaxEngines
         /\ engines \in [Names -> 0 .. neng] /\ eng \in EngineTable
         /\ live \in [Engines -> Names0]
         /\ \A e \in Engines : e > neng => eng[e].server = "none" /\ live[e] = "none"
         /\ \A m \in Names : engines[m] # None =>
                engines[m] \in Engines /\ live[engines[m]] \in {m, "none"}
  <1>1. neng \in Nat /\ MaxEngines \in Nat /\ neng <= MaxEngines
    BY ForwardersAssumption DEF EnginesInv, EngineTypes
  <1>2. \A m \in Names : engines[m] # None => engines[m] \in Engines /\ live[engines[m]] \in {m, "none"}
    BY <1>1 DEF EnginesInv, EngineTypes, SessionsFindEngine, Engines, None
  <1>3. Injective(engines)
    BY DEF EnginesInv, SessionsFindEngine, Injective
  <1> QED
    BY <1>1, <1>2, <1>3 DEF EnginesInv, EngineTypes, Known

LEMMA UpdateKeeps ==
  ASSUME EnginesInv, NEW list \in Seq(Objs), NEW objs \in Objects,
         NEW es \in EngineTable, \A e \in Engines : e > neng => es[e].server = "none",
         Update(list, objs, engines, es), UNCHANGED live
  PROVE  EnginesInv' /\ neng' \in Nat /\ neng' >= neng /\ apiList' \in Seq(Objs)
  <1> DEFINE s == Sync(list, objs, engines, es, neng)
  <1>1. s.n <= MaxEngines /\ apiList' = list /\ engines' = s.map /\ eng' = s.eng /\ neng' = s.n
    BY DEF Update
  <1> HIDE DEF s
  <1>2. s = Sync(list, objs, engines, es, neng)
    BY DEF s
  <1>3. EnginesInv' /\ neng' \in Nat /\ neng' >= neng
    BY <1>1, <1>2, EnginesNow, SyncKeeps
  <1> QED
    BY <1>1, <1>3

LEMMA EnginesUnchanged ==
  ASSUME EnginesInv, UNCHANGED <<engines, eng, neng, live>>
  PROVE  EnginesInv' /\ neng' \in Nat /\ neng' >= neng
  BY EnginesNow DEF EnginesInv, EngineTypes, SessionsFindEngine

(* Tasks.                                                                  *)
LEMMA TasksUnchanged ==
  ASSUME TasksInv, UNCHANGED task, neng \in Nat, neng' \in Nat, neng' >= neng
  PROVE  TasksInv'
  BY DEF TasksInv, JobInv, Jobs

LEMMA TaskChanges ==
  ASSUME TasksInv, neng \in Nat, neng' \in Nat, neng' >= neng, NEW t, NEW j, JobInv(j, neng'),
         task' = [task EXCEPT ![t] = j]
  PROVE  TasksInv'
  <1>1. \A u \in Tasks : JobInv(task'[u], neng')
    <2> SUFFICES ASSUME NEW u \in Tasks PROVE JobInv(task'[u], neng')
      OBVIOUS
    <2>1. task'[u] = j \/ task'[u] = task[u]
      BY DEF TasksInv
    <2> QED
      BY <2>1 DEF TasksInv, JobInv, Jobs
  <1> QED
    BY <1>1 DEF TasksInv

LEMMA JobFacts ==
  ASSUME neng' \in Nat, NEW kind \in Starts \cup Stops, NEW name \in Names, NEW rest \in Seq(Names)
  PROVE  JobInv(Job(kind, name, rest), neng')
  BY ForwardersAssumption DEF JobInv, Jobs, Job, Names0, None

LEMMA SpawnedKeeps ==
  ASSUME TasksInv, neng \in Nat, neng' \in Nat, neng' >= neng,
         NEW kind \in Starts \cup Stops, NEW name \in Names, NEW rest \in Seq(Names),
         task' = Spawned(Job(kind, name, rest))
  PROVE  TasksInv'
  <1>1. JobInv(Job(kind, name, rest), neng')
    BY JobFacts
  <1> QED
    BY <1>1, TaskChanges DEF Spawned

LEMMA SpawnKeeps ==
  ASSUME TasksInv, neng \in Nat, neng' \in Nat, neng' >= neng,
         NEW kind \in Starts \cup Stops, NEW name \in Names, task' = Spawn(kind, name)
  PROVE  TasksInv'
  BY EmptySeq, SpawnedKeeps DEF Spawn

LEMMA IdleIsJob ==
  ASSUME neng' \in Nat PROVE JobInv(Idle, neng')
  BY EmptySeq, ForwardersAssumption DEF JobInv, Jobs, Idle, Names0, None

LEMMA OnwardKeeps ==
  ASSUME TasksInv, neng \in Nat, neng' \in Nat, neng' >= neng, NEW t \in Tasks, task' = Onward(t)
  PROVE  TasksInv'
  <1> DEFINE rest == task[t].rest
             j == IF rest = <<>> THEN Idle ELSE Job("reopen", Head(rest), Tail(rest))
  <1>1. rest \in Seq(Names)
    BY DEF TasksInv, JobInv, Jobs
  <1>2. JobInv(j, neng')
    <2>1. CASE rest = <<>>
      BY <2>1, IdleIsJob
    <2>2. CASE rest # <<>>
      <3>1. Head(rest) \in Names /\ Tail(rest) \in Seq(Names) /\ "reopen" \in Starts \cup Stops
        BY <1>1, <2>2, HeadTailProperties DEF Starts
      <3> QED
        BY <2>2, <3>1, JobFacts
    <2> QED
      BY <2>1, <2>2
  <1>3. task' = [task EXCEPT ![t] = j]
    BY DEF Onward
  <1> HIDE DEF j
  <1> QED
    BY <1>2, <1>3, TaskChanges

---------------------------------------------------------------------------
(* The actions of the forwarders: each keeps FwdInv and takes from the     *)
(* other budgets only.                                                     *)
LEMMA SpendOne ==
  ASSUME left \in [Kinds -> Nat], NEW k \in Kinds \ {"serverFaults"}, left[k] > 0,
         left' = [left EXCEPT ![k] = @ - 1]
  PROVE  Spends
  BY DEF Spends

LEMMA SpendNone ==
  ASSUME left \in [Kinds -> Nat], UNCHANGED left PROVE Spends
  BY DEF Spends

LEMMA OneMail ==
  ASSUME ListsInv, NEW m, Mails(m), mail' = Append(mail, m)
  PROVE  mail' \in Seq(Posted)
  <1>1. m \in Posted
    BY DEF Mails, Posted
  <1> QED
    BY <1>1, AppendProperties DEF ListsInv

(* What the tab does leaves the API, its engines and the tasks alone.      *)
LEMMA TabActs ==
  ASSUME FwdInv, ListsInv', UNCHANGED <<engines, eng, neng, live, task>>
  PROVE  FwdInv'
  BY EnginesUnchanged, EnginesNow, TasksUnchanged DEF FwdInv

LEMMA NamesListed ==
  ASSUME ListsInv
  PROVE  /\ \A o \in Objs : NameOf(o) \in Names
         /\ \A i \in DOMAIN tab : tab[i] \in Objs
         /\ Listed(tab) \subseteq Names
  <1>1. \A o \in Objs : NameOf(o) \in Names
    BY DEF ListsInv, Objects, NameOf
  <1>2. \A i \in DOMAIN tab : tab[i] \in Objs
    BY ElementOfSeq, LenProperties DEF ListsInv
  <1> QED
    BY <1>1, <1>2 DEF Listed

LEMMA NewObject ==
  ASSUME ListsInv, nobj < MaxObjs, nobj' = nobj + 1, NEW name \in Names, NEW on \in BOOLEAN,
         obj' = [obj EXCEPT ![nobj'] = [name |-> name, enabled |-> on]]
  PROVE  nobj' \in Objs /\ nobj' \in 0 .. MaxObjs /\ obj' \in Objects
  BY ForwardersAssumption DEF ListsInv, Objs, Objects

LEMMA Replaced ==
  ASSUME NEW list \in Seq(Objs), NEW at, NEW o \in Objs
  PROVE  [list EXCEPT ![at] = o] \in Seq(Objs)
  <1>1. DOMAIN list = 1 .. Len(list)
    BY LenProperties
  <1>2. CASE at \in 1 .. Len(list)
    BY <1>2, ExceptSeq
  <1>3. CASE at \notin 1 .. Len(list)
    <2>1. [list EXCEPT ![at] = o] = list
      BY <1>1, <1>3
    <2> QED
      BY <2>1
  <1> QED
    BY <1>2, <1>3

LEMMA PutKeeps ==
  ASSUME NEW list \in Seq(Objs), NEW places, NEW o \in Objs
  PROVE  Put(list, places, o) \in Seq(Objs)
  BY Replaced DEF Put

LEMMA AddForwarderKeeps ==
  ASSUME FwdInv, left \in [Kinds -> Nat], NEW name \in Names, AddForwarder(name)
  PROVE  FwdInv' /\ Spends
  <1>1. /\ left.ui > 0 /\ nobj < MaxObjs /\ nobj' = nobj + 1
        /\ obj' = [obj EXCEPT ![nobj'] = [name |-> name, enabled |-> TRUE]]
        /\ tab' = Append(tab, nobj')
        /\ mail' = Append(mail, [kind |-> "added", old |-> name, obj |-> nobj', on |-> TRUE])
        /\ left' = [left EXCEPT !.ui = @ - 1]
        /\ UNCHANGED <<project, apiList, engines, eng, neng, live, form, task>>
    BY DEF AddForwarder, apiVars
  <1>2. nobj' \in Objs /\ nobj' \in 0 .. MaxObjs /\ obj' \in Objects
    BY <1>1, NewObject DEF FwdInv
  <1>3. tab' \in Seq(Objs)
    BY <1>1, <1>2, AppendProperties DEF FwdInv, ListsInv
  <1>4. mail' \in Seq(Posted)
    <2> DEFINE m == [kind |-> "added", old |-> name, obj |-> nobj', on |-> TRUE]
    <2>1. Mails(m)
      BY <1>2 DEF Mails
    <2>2. mail' = Append(mail, m)
      BY <1>1
    <2> HIDE DEF m
    <2> QED
      BY <2>1, <2>2, OneMail DEF FwdInv
  <1>5. ListsInv'
    BY <1>1, <1>2, <1>3, <1>4 DEF FwdInv, ListsInv
  <1>6. Spends
    BY <1>1, SpendOne DEF Kinds
  <1> QED
    BY <1>1, <1>5, <1>6, TabActs

LEMMA OpenFormKeeps ==
  ASSUME FwdInv, left \in [Kinds -> Nat], NEW name \in Names, OpenForm(name)
  PROVE  FwdInv' /\ Spends
  <1>1. /\ left.edits > 0 /\ left' = [left EXCEPT !.edits = @ - 1]
        /\ \E i \in At(tab, obj, name) :
             form' = [name |-> name, enabled |-> obj[tab[i]].enabled, taken |-> Listed(tab) \ {name}]
        /\ UNCHANGED <<obj, nobj, project, apiList, engines, eng, neng, live, tab, mail, task>>
    BY DEF OpenForm, configs, apiVars
  <1>2. form' \in [name : Names, enabled : BOOLEAN, taken : SUBSET Names]
    <2>1. PICK i \in DOMAIN tab :
             form' = [name |-> name, enabled |-> obj[tab[i]].enabled, taken |-> Listed(tab) \ {name}]
      BY <1>1 DEF At
    <2>2. tab[i] \in Objs /\ Listed(tab) \subseteq Names /\ obj \in Objects
      BY NamesListed DEF FwdInv, ListsInv
    <2> QED
      BY <2>1, <2>2 DEF Objects
  <1>3. ListsInv'
    BY <1>1, <1>2 DEF FwdInv, ListsInv
  <1>4. Spends
    BY <1>1, SpendOne DEF Kinds
  <1> QED
    BY <1>1, <1>3, <1>4, TabActs

LEMMA SaveFormKeeps ==
  ASSUME FwdInv, left \in [Kinds -> Nat], NEW name \in Names, SaveForm(name)
  PROVE  FwdInv' /\ Spends
  <1>1. /\ form # NoForm /\ nobj < MaxObjs /\ nobj' = nobj + 1
        /\ obj' = [obj EXCEPT ![nobj'] = [name |-> name, enabled |-> form.enabled]]
        /\ tab' = Put(tab, At(tab, obj, form.name), nobj')
        /\ mail' = Append(mail, [kind |-> "applied", old |-> form.name, obj |-> nobj', on |-> FALSE])
        /\ form' = NoForm
        /\ UNCHANGED <<project, apiList, engines, eng, neng, live, task, left>>
    BY DEF SaveForm, apiVars
  <1>2. form.name \in Names /\ form.enabled \in BOOLEAN
    BY <1>1 DEF FwdInv, ListsInv
  <1>3. nobj' \in Objs /\ nobj' \in 0 .. MaxObjs /\ obj' \in Objects
    BY <1>1, <1>2, NewObject DEF FwdInv
  <1>4. tab' \in Seq(Objs)
    BY <1>1, <1>3, PutKeeps DEF FwdInv, ListsInv
  <1>5. mail' \in Seq(Posted)
    <2> DEFINE m == [kind |-> "applied", old |-> form.name, obj |-> nobj', on |-> FALSE]
    <2>1. Mails(m)
      BY <1>2, <1>3 DEF Mails
    <2>2. mail' = Append(mail, m)
      BY <1>1
    <2> HIDE DEF m
    <2> QED
      BY <2>1, <2>2, OneMail DEF FwdInv
  <1>6. ListsInv'
    BY <1>1, <1>3, <1>4, <1>5 DEF FwdInv, ListsInv
  <1>7. Spends
    BY <1>1, SpendNone
  <1> QED
    BY <1>1, <1>6, <1>7, TabActs

LEMMA ToggleKeeps ==
  ASSUME FwdInv, left \in [Kinds -> Nat], NEW name \in Names, Toggle(name)
  PROVE  FwdInv' /\ Spends
  <1>1. /\ left.ui > 0
        /\ \E i \in DOMAIN tab :
             /\ obj' = [obj EXCEPT ![tab[i]].enabled = ~@]
             /\ mail' = Append(mail, [kind |-> "enabled", old |-> name, obj |-> tab[i],
                                      on |-> ~obj[tab[i]].enabled])
        /\ left' = [left EXCEPT !.ui = @ - 1]
        /\ UNCHANGED <<nobj, project, apiList, engines, eng, neng, live, tab, form, task>>
    BY DEF Toggle, At, apiVars, ui
  <1>2. PICK o \in Objs :
             /\ obj' = [obj EXCEPT ![o].enabled = ~@]
             /\ mail' = Append(mail, [kind |-> "enabled", old |-> name, obj |-> o, on |-> ~obj[o].enabled])
    BY <1>1, NamesListed DEF FwdInv
  <1>3. obj[o].enabled \in BOOLEAN /\ obj[o].name \in Names
    BY <1>2 DEF FwdInv, ListsInv, Objects
  <1>4. obj' \in Objects
    <2> DEFINE q == [obj[o] EXCEPT !.enabled = ~@]
    <2>1. q \in [name : Names, enabled : BOOLEAN]
      BY <1>2 DEF FwdInv, ListsInv, Objects
    <2>2. obj' = [obj EXCEPT ![o] = q]
      BY <1>2
    <2> HIDE DEF q
    <2> QED
      BY <1>2, <2>1, <2>2 DEF FwdInv, ListsInv, Objects
  <1>5. mail' \in Seq(Posted)
    <2> DEFINE on == ~obj[o].enabled
               m == [kind |-> "enabled", old |-> name, obj |-> o, on |-> on]
    <2>1. on \in BOOLEAN /\ o \in 0 .. MaxObjs
      BY <1>2, <1>3 DEF Objs
    <2>2. mail' = Append(mail, m)
      BY <1>2
    <2> HIDE DEF on
    <2>3. Mails(m)
      BY <1>2, <2>1 DEF Mails
    <2> HIDE DEF m
    <2> QED
      BY <2>2, <2>3, OneMail DEF FwdInv
  <1>6. ListsInv'
    BY <1>1, <1>4, <1>5 DEF FwdInv, ListsInv
  <1>7. Spends
    BY <1>1, SpendOne DEF Kinds
  <1> QED
    BY <1>1, <1>6, <1>7, TabActs

LEMMA RemoveKeeps ==
  ASSUME FwdInv, left \in [Kinds -> Nat], NEW name \in Names, Remove(name)
  PROVE  FwdInv' /\ Spends
  <1>1. /\ left.ui > 0
        /\ mail' = Append(mail, [kind |-> "removed", old |-> name, obj |-> None, on |-> FALSE])
        /\ left' = [left EXCEPT !.ui = @ - 1]
        /\ UNCHANGED <<obj, nobj, project, apiList, engines, eng, neng, live, tab, form, task>>
    BY DEF Remove, configs, apiVars, ui
  <1>2. mail' \in Seq(Posted)
    <2> DEFINE m == [kind |-> "removed", old |-> name, obj |-> None, on |-> FALSE]
    <2>1. Mails(m)
      BY ForwardersAssumption DEF Mails, None
    <2>2. mail' = Append(mail, m)
      BY <1>1
    <2> HIDE DEF m
    <2> QED
      BY <2>1, <2>2, OneMail DEF FwdInv
  <1>3. ListsInv'
    BY <1>1, <1>2 DEF FwdInv, ListsInv
  <1>4. Spends
    BY <1>1, SpendOne DEF Kinds
  <1> QED
    BY <1>1, <1>3, <1>4, TabActs

(* The message the app handles.                                            *)
LEMMA TheMail ==
  ASSUME ListsInv, NEW kind, Head1(kind), mail' = Tail(mail)
  PROVE  Mails(Head(mail)) /\ Head(mail).kind = kind /\ mail' \in Seq(Posted)
  <1>1. mail # <<>> /\ Head(mail).kind = kind
    BY DEF Head1
  <1>2. Head(mail) \in Posted /\ Tail(mail) \in Seq(Posted)
    BY <1>1, HeadTailProperties DEF ListsInv
  <1> QED
    BY <1>1, <1>2 DEF Posted

(* The names of a list; the place of the first of a name.                  *)
LEMMA FirstPlace ==
  ASSUME NEW list \in Seq(Objs), NEW objs \in Objects, NEW name, At(list, objs, name) # {}
  PROVE  First(At(list, objs, name)) \in At(list, objs, name) /\ list[First(At(list, objs, name))] \in Objs
  <1>1. /\ At(list, objs, name) \subseteq Nat
        /\ \A i \in At(list, objs, name) : list[i] \in Objs
    BY LenProperties, ElementOfSeq DEF At
  <1>2. \E i \in At(list, objs, name) : \A j \in At(list, objs, name) : i <= j
    BY <1>1, Least
  <1> QED
    BY <1>1, <1>2 DEF First

(* A rename: the object, the map of the engines and the sessions.          *)
LEMMA RenamedFacts ==
  ASSUME FwdInv, NEW old \in Names, NEW new \in Names, Renames(old, new)
  PROVE  /\ RenamedObject(old, new) \in Objects
         /\ engines[old] \in Engines
         /\ RenamedEngine(old, new) \in Known(neng)
         /\ RenamedEngine(old, new)[old] = None /\ RenamedEngine(old, new)[new] = engines[old]
         /\ \A n \in Names : n # old /\ n # new => RenamedEngine(old, new)[n] = engines[n]
         /\ SessionsRenamed(old, new) \in [Engines -> Names0]
         /\ \A x \in Engines : x > neng => SessionsRenamed(old, new)[x] = "none"
         /\ \A n \in Names : RenamedEngine(old, new)[n] # None =>
                SessionsRenamed(old, new)[RenamedEngine(old, new)[n]] \in {n, "none"}
  <1>0. new # old /\ engines[old] # None /\ engines[new] = None /\ old \in Listed(apiList)
    BY DEF Renames
  <1>1. /\ neng \in Nat /\ engines \in Known(neng) /\ engines \in [Names -> 0 .. neng]
        /\ live \in [Engines -> Names0]
        /\ \A x \in Engines : x > neng => live[x] = "none"
        /\ \A n \in Names : engines[n] # None =>
               engines[n] \in Engines /\ live[engines[n]] \in {n, "none"}
    BY EnginesNow DEF FwdInv
  <1>2. RenamedObject(old, new) \in Objects
    <2> DEFINE o == apiList[First(At(apiList, obj, old))]
               q == [obj[o] EXCEPT !.name = new]
    <2>1. At(apiList, obj, old) # {}
      BY <1>0 DEF Listed, NameOf, At
    <2>2. o \in Objs
      BY <2>1, FirstPlace DEF FwdInv, ListsInv
    <2>3. RenamedObject(old, new) = [obj EXCEPT ![o] = q]
      BY DEF RenamedObject
    <2> HIDE DEF o
    <2>4. q \in [name : Names, enabled : BOOLEAN]
      BY <2>2 DEF FwdInv, ListsInv, Objects
    <2> HIDE DEF q
    <2> QED
      BY <2>2, <2>3, <2>4 DEF FwdInv, ListsInv, Objects
  <1> DEFINE map == RenamedEngine(old, new)
             lives == SessionsRenamed(old, new)
  <1>3. /\ map \in [Names -> 0 .. neng]
        /\ map[old] = None /\ map[new] = engines[old]
        /\ \A n \in Names : n # old /\ n # new => map[n] = engines[n]
    BY <1>0, <1>1 DEF RenamedEngine, None
  <1>4. lives = [x \in Engines |-> IF live[x] = old THEN new ELSE live[x]]
    BY DEF SessionsRenamed
  <1> HIDE DEF map, lives
  <1>5. map \in Known(neng)
    BY <1>0, <1>1, <1>3 DEF Known, Injective
  <1>6. lives \in [Engines -> Names0]
    BY <1>1, <1>4 DEF Names0
  <1>7. \A x \in Engines : x > neng => lives[x] = "none"
    BY <1>1, <1>4, ForwardersAssumption
  <1>8. ASSUME NEW n \in Names, map[n] # None PROVE lives[map[n]] \in {n, "none"}
    <2>1. CASE n = new
      BY <1>0, <1>1, <1>3, <1>4, <2>1
    <2>2. CASE n # new
      <3>1. n # old /\ map[n] = engines[n]
        BY <1>3, <1>8, <2>2
      <3>2. engines[n] \in Engines /\ live[engines[n]] \in {n, "none"}
        BY <1>1, <1>8, <3>1
      <3>3. live[engines[n]] # old
        BY <3>1, <3>2, ForwardersAssumption
      <3> QED
        BY <1>4, <3>1, <3>2, <3>3
    <2> QED
      BY <2>1, <2>2
  <1> QED
    BY <1>0, <1>1, <1>2, <1>3, <1>5, <1>6, <1>7, <1>8 DEF map, lives

LEMMA OnAppliedKeeps ==
  ASSUME FwdInv, left \in [Kinds -> Nat], OnApplied
  PROVE  FwdInv' /\ Spends
  <1> DEFINE m == Head(mail)
             old == m.old
             new == NameOf(m.obj)
             renames == Renames(old, new)
             objs == IF renames THEN RenamedObject(old, new) ELSE obj
             map == IF renames THEN RenamedEngine(old, new) ELSE engines
             list == Put(project, At(project, objs, old), m.obj)
             s == Sync(list, objs, map, eng, neng)
  <1>1. /\ Head1("applied") /\ mail' = Tail(mail)
        /\ \E raised \in BOOLEAN : /\ raised => left.faults > 0
                                   /\ left' = [left EXCEPT !.faults = IF raised THEN @ - 1 ELSE @]
        /\ live' = (IF renames THEN SessionsRenamed(old, new) ELSE live)
        /\ obj' = objs /\ project' = list
        /\ s.n <= MaxEngines /\ apiList' = list /\ engines' = s.map /\ eng' = s.eng /\ neng' = s.n
        /\ UNCHANGED <<nobj, tab, form, task>>
    BY DEF OnApplied, Update, ui
  <1>2. Mails(Head(mail)) /\ Head(mail).kind = "applied" /\ mail' \in Seq(Posted)
    BY <1>1, TheMail DEF FwdInv
  <1>3. old \in Names /\ m.obj \in Objs
    BY <1>2 DEF Mails
  <1>4. new \in Names
    BY <1>3, NamesListed DEF FwdInv
  <1> HIDE DEF m, new, old
  <1>5. objs \in Objects
    BY <1>3, <1>4, RenamedFacts DEF FwdInv, ListsInv
  <1>6. list \in Seq(Objs)
    BY <1>3, PutKeeps DEF FwdInv, ListsInv
  <1>7. EngineTypes /\ neng \in Nat /\ eng \in EngineTable /\ \A x \in Engines : x > neng => eng[x].server = "none"
    BY EnginesNow DEF FwdInv
  <1>8. map \in Known(neng)
    BY <1>3, <1>4, RenamedFacts, EnginesNow DEF FwdInv
  <1>9. /\ live' \in [Engines -> Names0]
        /\ \A x \in Engines : x > neng => live'[x] = "none"
        /\ \A n \in Names : map[n] # None => live'[map[n]] \in {n, "none"}
    <2>1. CASE renames
      BY <1>1, <1>3, <1>4, <2>1, RenamedFacts DEF FwdInv
    <2>2. CASE ~renames
      <3>1. map = engines /\ live' = live
        BY <1>1, <2>2
      <3> HIDE DEF map
      <3> QED
        BY <3>1, EnginesNow DEF FwdInv
    <2> QED
      BY <2>1, <2>2
  <1> HIDE DEF map, objs, list, renames
  <1>10. s = Sync(list, objs, map, eng, neng)
    OBVIOUS
  <1> HIDE DEF s
  <1>11. EnginesInv' /\ neng' \in Nat /\ neng' >= neng
    BY <1>1, <1>5, <1>6, <1>7, <1>8, <1>9, <1>10, SyncKeeps
  <1>12. TasksInv'
    BY <1>1, <1>7, <1>11, TasksUnchanged DEF FwdInv
  <1>13. ListsInv'
    BY <1>1, <1>2, <1>5, <1>6 DEF FwdInv, ListsInv
  <1>14. Spends
    BY <1>1 DEF Spends, Kinds
  <1> QED
    BY <1>11, <1>12, <1>13, <1>14 DEF FwdInv

(* An action that gives the API a list it knows the engines of.            *)
LEMMA UpdateActs ==
  ASSUME FwdInv, ListsInv', NEW list \in Seq(Objs), Update(list, obj, engines, eng), UNCHANGED live
  PROVE  /\ EnginesInv' /\ neng \in Nat /\ neng' \in Nat /\ neng' >= neng
         /\ UNCHANGED task => FwdInv'
  <1>1. obj \in Objects
    BY DEF FwdInv, ListsInv
  <1>2. neng \in Nat /\ eng \in EngineTable /\ \A e \in Engines : e > neng => eng[e].server = "none"
    BY EnginesNow DEF FwdInv
  <1>3. EnginesInv' /\ neng' \in Nat /\ neng' >= neng
    BY <1>1, <1>2, UpdateKeeps DEF FwdInv
  <1> QED
    BY <1>2, <1>3, TasksUnchanged DEF FwdInv

LEMMA OnAddedKeeps ==
  ASSUME FwdInv, left \in [Kinds -> Nat], OnAdded
  PROVE  FwdInv' /\ Spends
  <1> DEFINE m == Head(mail)
             list == IF m.obj \in {project[i] : i \in DOMAIN project} THEN project
                     ELSE Append(project, m.obj)
  <1>1. /\ Head1("added") /\ mail' = Tail(mail) /\ project' = list
        /\ Update(list, obj, engines, eng)
        /\ task' = Spawn("add", NameOf(m.obj)) \/ UNCHANGED task
        /\ UNCHANGED <<obj, nobj, live, tab, form, left>>
    BY DEF OnAdded, ui
  <1>2. Mails(m) /\ m.kind = "added" /\ mail' \in Seq(Posted)
    BY <1>1, TheMail DEF FwdInv
  <1>3. m.obj \in Objs /\ NameOf(m.obj) \in Names
    BY <1>2, NamesListed DEF Mails, FwdInv
  <1> HIDE DEF m
  <1>4. list \in Seq(Objs)
    BY <1>3, AppendProperties DEF FwdInv, ListsInv
  <1> HIDE DEF list
  <1>5. ListsInv'
    <2>1. apiList' = list
      BY <1>1 DEF Update
    <2> QED
      BY <1>1, <1>2, <1>4, <2>1 DEF FwdInv, ListsInv
  <1>6. /\ EnginesInv' /\ neng \in Nat /\ neng' \in Nat /\ neng' >= neng
        /\ UNCHANGED task => FwdInv'
    BY <1>1, <1>4, <1>5, UpdateActs
  <1>7. TasksInv'
    BY <1>1, <1>3, <1>6, SpawnKeeps DEF FwdInv, Starts
  <1>8. Spends
    BY <1>1, SpendNone
  <1> QED
    BY <1>5, <1>6, <1>7, <1>8 DEF FwdInv

LEMMA OnEnabledKeeps ==
  ASSUME FwdInv, left \in [Kinds -> Nat], OnEnabled
  PROVE  FwdInv' /\ Spends
  <1> DEFINE m == Head(mail)
  <1>1. /\ Head1("enabled") /\ mail' = Tail(mail)
        /\ task' = Spawn("start", m.old) \/ task' = Spawn("stop", m.old) \/ UNCHANGED task
        /\ UNCHANGED <<obj, nobj, project, apiList, engines, eng, neng, live, tab, form, left>>
    BY DEF OnEnabled, configs, apiVars, ui
  <1>2. Mails(m) /\ mail' \in Seq(Posted)
    BY <1>1, TheMail DEF FwdInv
  <1>3. m.old \in Names
    BY <1>2 DEF Mails
  <1> HIDE DEF m
  <1>4. ListsInv'
    BY <1>1, <1>2 DEF FwdInv, ListsInv
  <1>5. EnginesInv' /\ neng \in Nat /\ neng' \in Nat /\ neng' >= neng
    BY <1>1, EnginesUnchanged, EnginesNow DEF FwdInv
  <1>6. TasksInv'
    BY <1>1, <1>3, <1>5, SpawnKeeps, TasksUnchanged DEF FwdInv, Starts, Stops
  <1>7. Spends
    BY <1>1, SpendNone
  <1> QED
    BY <1>4, <1>5, <1>6, <1>7 DEF FwdInv

(* What a forwarder removed by name leaves of the lists.                   *)
LEMMA ListsWithout ==
  ASSUME ListsInv, NEW name
  PROVE  /\ Without(project, name) \in Seq(Objs) /\ Without(tab, name) \in Seq(Objs)
         /\ Without(apiList, name) \in Seq(Objs)
  BY WithoutFacts DEF ListsInv

LEMMA OnRemovedKeeps ==
  ASSUME FwdInv, left \in [Kinds -> Nat], OnRemoved
  PROVE  FwdInv' /\ Spends
  <1> DEFINE name == Head(mail).old
  <1>1. /\ Head1("removed") /\ mail' = Tail(mail)
        /\ \/ /\ task' = Spawn("remove", name)
              /\ UNCHANGED <<project, apiList, engines, eng, neng, tab>>
           \/ UNCHANGED <<project, apiList, engines, eng, neng, tab, task>>
           \/ DoRemove(name) /\ UNCHANGED task
        /\ UNCHANGED <<obj, nobj, live, form, left>>
    BY DEF OnRemoved
  <1>2. Mails(Head(mail)) /\ mail' \in Seq(Posted)
    BY <1>1, TheMail DEF FwdInv
  <1>3. name \in Names
    BY <1>2 DEF Mails
  <1> HIDE DEF name
  <1>4. Spends
    BY <1>1, SpendNone
  <1>5. CASE UNCHANGED <<project, apiList, engines, eng, neng, tab>>
             /\ (task' = Spawn("remove", name) \/ UNCHANGED task)
    <2>1. ListsInv'
      BY <1>1, <1>2, <1>5 DEF FwdInv, ListsInv
    <2>2. EnginesInv' /\ neng \in Nat /\ neng' \in Nat /\ neng' >= neng
      BY <1>1, <1>5, EnginesUnchanged, EnginesNow DEF FwdInv
    <2>3. TasksInv'
      BY <1>3, <1>5, <2>2, SpawnKeeps, TasksUnchanged DEF FwdInv, Stops
    <2> QED
      BY <1>4, <2>1, <2>2, <2>3 DEF FwdInv
  <1>6. CASE DoRemove(name) /\ UNCHANGED task
    <2>1. /\ tab' = Without(tab, name) /\ project' = Without(project, name)
          /\ Update(Without(project, name), obj, engines, eng) /\ apiList' = Without(project, name)
      BY <1>6 DEF DoRemove, Update
    <2>2. ListsInv'
      BY <1>1, <1>2, <2>1, ListsWithout DEF FwdInv, ListsInv
    <2> QED
      BY <1>1, <1>4, <1>6, <2>1, <2>2, ListsWithout, UpdateActs DEF FwdInv
  <1> QED
    BY <1>1, <1>5, <1>6

---------------------------------------------------------------------------
(* Workers and tool calls.                                                 *)
LEMMA TaskNow ==
  ASSUME TasksInv, NEW t \in Tasks
  PROVE  /\ task[t] \in Jobs /\ task[t].engine \in Nat /\ task[t].engine <= neng
         /\ task[t].name \in Names0 /\ task[t].rest \in Seq(Names)
         /\ task[t].kind # "none" => task[t].name \in Names
  BY DEF TasksInv, JobInv, Jobs

LEMMA StartBeginsKeeps ==
  ASSUME FwdInv, left \in [Kinds -> Nat], NEW t \in Tasks, StartBegins(t)
  PROVE  FwdInv' /\ Spends
  <1> DEFINE calls == task[t].kind \in FromApp
             synced == Sync(project, obj, engines, eng, neng)
             list == IF calls THEN project ELSE apiList
             s == IF calls THEN synced ELSE [map |-> engines, eng |-> eng, n |-> neng]
             opens == task[t].kind \in OnOpen
             name == task[t].name
             places == At(project, obj, name)
             e == IF name \notin Listed(list) \/ (opens /\ places = {}) THEN None ELSE s.map[name]
             fwd == IF opens /\ places # {} THEN project[First(places)] ELSE None
  <1>1. /\ task[t].kind \in Starts /\ s.n <= MaxEngines
        /\ apiList' = list
        /\ engines' = s.map /\ neng' = s.n /\ eng' = s.eng
        /\ tab' = tab \/ tab' = Without(tab, name)
        /\ task' = IF e = None THEN Onward(t)
                   ELSE [task EXCEPT ![t].pc = "wait", ![t].engine = e, ![t].fwd = fwd]
        /\ UNCHANGED <<obj, nobj, project, live, form, mail, left>>
    BY DEF StartBegins, configs
  <1>2. EnginesInv' /\ neng \in Nat /\ neng' \in Nat /\ neng' >= neng
    <2>1. neng \in Nat
      BY EnginesNow DEF FwdInv
    <2>2. CASE calls
      <3>1. /\ synced.n <= MaxEngines
            /\ engines' = synced.map /\ neng' = synced.n /\ eng' = synced.eng
        BY <1>1, <2>2
      <3> HIDE DEF calls, synced, s, e, fwd
      <3>4. apiList' = project
        BY <1>1, <2>2
      <3>2. Update(project, obj, engines, eng) /\ project \in Seq(Objs) /\ obj \in Objects
        BY <3>1, <3>4 DEF Update, synced, FwdInv, ListsInv
      <3>3. eng \in EngineTable /\ \A x \in Engines : x > neng => eng[x].server = "none"
        BY EnginesNow DEF FwdInv
      <3> QED
        BY <1>1, <2>1, <3>2, <3>3, UpdateKeeps DEF FwdInv
    <2>3. CASE ~calls
      <3>1. UNCHANGED <<engines, eng, neng>>
        BY <1>1, <2>3
      <3> QED
        BY <1>1, <2>1, <3>1, EnginesUnchanged DEF FwdInv
    <2> QED
      BY <2>2, <2>3
  <1>3. e \in Nat /\ e <= neng'
    <2>1. task[t].name \in Names
      BY <1>1, TaskNow DEF FwdInv, Starts
    <2>2. engines'[task[t].name] \in Nat /\ engines'[task[t].name] <= neng'
      BY <1>2, <2>1 DEF EnginesInv, EngineTypes
    <2>3. e = None \/ e = engines'[task[t].name]
      BY <1>1
    <2> HIDE DEF e, places, list
    <2> QED
      BY <1>2, <2>2, <2>3 DEF None
  <1>4. fwd \in 0 .. MaxObjs
    <2>2. CASE opens /\ places # {}
      <3>1. fwd = project[First(places)]
        BY <2>2
      <3>2. fwd \in Objs
        BY <2>2, <3>1, FirstPlace DEF FwdInv, ListsInv
      <3> QED
        BY <3>2 DEF Objs
    <2>3. CASE ~(opens /\ places # {})
      <3>1. fwd = 0
        BY <2>3 DEF None
      <3> QED
        BY <3>1, ForwardersAssumption
    <2> QED
      BY <2>2, <2>3
  <1> HIDE DEF e, fwd, s, list, places, opens
  <1>5. TasksInv'
    <2>1. CASE e = None
      BY <1>1, <1>2, <2>1, OnwardKeeps DEF FwdInv
    <2>2. CASE e # None
      <3> DEFINE j == [task[t] EXCEPT !.pc = "wait", !.engine = e, !.fwd = fwd]
      <3>1. task' = [task EXCEPT ![t] = j]
        BY <1>1, <2>2
      <3>2. task[t] \in Jobs /\ (task[t].kind # "none" => task[t].name \in Names)
        BY TaskNow DEF FwdInv
      <3>3. JobInv(j, neng')
        BY <1>3, <1>4, <3>2 DEF JobInv, Jobs
      <3> HIDE DEF j
      <3> QED
        BY <1>2, <3>1, <3>3, TaskChanges DEF FwdInv
    <2> QED
      BY <2>1, <2>2
  <1>6. ListsInv'
    <2>1. project \in Seq(Objs) /\ apiList' \in Seq(Objs) /\ tab' \in Seq(Objs)
      BY <1>1, ListsWithout DEF list, FwdInv, ListsInv
    <2> QED
      BY <1>1, <2>1 DEF FwdInv, ListsInv
  <1>7. Spends
    BY <1>1, SpendNone
  <1> QED
    BY <1>2, <1>5, <1>6, <1>7 DEF FwdInv

(* The listening socket of an engine that was made changes its state.      *)
LEMMA SocketMoves ==
  ASSUME EnginesInv, NEW e \in Nat, e <= neng, NEW st \in Sockets,
         NEW es, es = [eng EXCEPT ![e].server = st]
  PROVE  /\ es \in EngineTable /\ \A x \in Engines : es[x].name = eng[x].name
         /\ \A x \in Engines : x > neng => es[x].server = "none"
  <1> DEFINE q == [eng[e] EXCEPT !.server = st]
  <1>1. /\ eng \in [Engines -> Engine] /\ neng \in Nat
        /\ \A x \in Engines : x > neng => eng[x].server = "none"
    BY EnginesNow DEF EngineTable
  <1>2. es = [eng EXCEPT ![e] = q]
    OBVIOUS
  <1>3. e \in Engines => q \in Engine /\ q.name = eng[e].name
    BY <1>1 DEF Engine
  <1> HIDE DEF q
  <1>4. es \in [Engines -> Engine]
    BY <1>1, <1>2, <1>3
  <1>5. \A x \in Engines : es[x].name = eng[x].name
    BY <1>1, <1>2, <1>3
  <1>6. \A x \in Engines : x > neng => es[x].server = "none"
    BY <1>1, <1>2
  <1> QED
    BY <1>4, <1>5, <1>6 DEF EngineTable

LEMMA SocketKeeps ==
  ASSUME EnginesInv, NEW es \in EngineTable, \A x \in Engines : es[x].name = eng[x].name,
         \A x \in Engines : x > neng => es[x].server = "none",
         eng' = es, live' \in [Engines -> Names0],
         \A x \in Engines : live'[x] \in {live[x], "none"},
         UNCHANGED <<engines, neng>>
  PROVE  EnginesInv' /\ neng \in Nat /\ neng' \in Nat /\ neng' >= neng
  <1>1. /\ EngineTypes /\ neng \in Nat
        /\ \A x \in Engines : x > neng => eng[x].server = "none" /\ live[x] = "none"
        /\ \A m \in Names : engines[m] # None =>
               engines[m] \in Engines /\ live[engines[m]] \in {m, "none"}
    BY EnginesNow
  <1>2. EngineTypes'
    BY <1>1 DEF EngineTypes
  <1>3. \A x \in Engines : x > neng' => eng'[x].server = "none" /\ live'[x] = "none"
    BY <1>1
  <1>4. SessionsFindEngine'
    BY <1>1 DEF EnginesInv, SessionsFindEngine
  <1> QED
    BY <1>1, <1>2, <1>3, <1>4 DEF EnginesInv

LEMMA StartEndsKeeps ==
  ASSUME FwdInv, left \in [Kinds -> Nat], NEW t \in Tasks, StartEnds(t)
  PROVE  FwdInv' /\ Spends
  <1> DEFINE e == task[t].engine
             name == task[t].name
             busy == eng[e].server \in {"open", "lost"}
             binds == /\ eng' = [eng EXCEPT ![e].server = "open"]
                      /\ obj' = [o \in Objs |-> IF task[t].kind \in OnOpen /\ o = task[t].fwd
                                                THEN [obj[o] EXCEPT !.enabled = TRUE] ELSE obj[o]]
                      /\ UNCHANGED <<project, apiList, engines, neng, tab, left>>
             fails == /\ left' = left \/ (left.faults > 0 /\ left' = [left EXCEPT !.faults = @ - 1])
                      /\ StartFailed(t) /\ UNCHANGED obj
  <1>1. /\ task' = Onward(t) /\ (binds \/ fails)
        /\ UNCHANGED <<nobj, live, form, mail>>
    <2>1. CASE ~busy /\ eng' = [eng EXCEPT ![e].server = "open"]
               /\ UNCHANGED <<project, apiList, engines, neng, tab, left>>
               /\ obj' = [o \in Objs |-> IF task[t].kind \in OnOpen /\ o = task[t].fwd
                                         THEN [obj[o] EXCEPT !.enabled = TRUE] ELSE obj[o]]
      BY <2>1 DEF StartEnds
    <2>2. CASE /\ busy \/ left.faults > 0
               /\ left' = IF busy THEN left ELSE [left EXCEPT !.faults = @ - 1]
               /\ StartFailed(t) /\ UNCHANGED <<obj, running>>
      <3>1. fails
        BY <2>2
      <3> HIDE DEF fails
      <3> QED
        BY <3>1 DEF StartEnds
    <2> QED
      BY <2>1, <2>2 DEF StartEnds
  <1>2. CASE binds
    <2>1. obj' \in Objects
      <3>1. \A o \in Objs : [obj[o] EXCEPT !.enabled = TRUE] \in [name : Names, enabled : BOOLEAN]
                            /\ obj[o] \in [name : Names, enabled : BOOLEAN]
        BY DEF FwdInv, ListsInv, Objects
      <3> QED
        BY <1>2, <3>1 DEF Objects
    <2>2. ListsInv'
      BY <1>1, <1>2, <2>1 DEF FwdInv, ListsInv
    <2>3. e \in Nat /\ e <= neng
      BY TaskNow DEF FwdInv
    <2>4. eng' = [eng EXCEPT ![e].server = "open"] /\ "open" \in Sockets
      BY <1>2 DEF Sockets
    <2> HIDE DEF e
    <2>5. /\ eng' \in EngineTable /\ \A x \in Engines : eng'[x].name = eng[x].name
          /\ \A x \in Engines : x > neng => eng'[x].server = "none"
      BY <2>3, <2>4, SocketMoves, ZenonT(40) DEF FwdInv
    <2>6. live \in [Engines -> Names0] /\ UNCHANGED <<engines, neng, live>>
      BY <1>1, <1>2, EnginesNow DEF FwdInv
    <2>7. EnginesInv' /\ neng \in Nat /\ neng' \in Nat /\ neng' >= neng
      BY <2>5, <2>6, SocketKeeps DEF FwdInv
    <2>8. TasksInv'
      BY <1>1, <2>7, OnwardKeeps DEF FwdInv
    <2>9. Spends
      BY <1>2, SpendNone
    <2> QED
      BY <2>2, <2>7, <2>8, <2>9 DEF FwdInv
  <1>3. CASE fails
    <2>1. Spends
      BY <1>3, SpendNone, SpendOne DEF Kinds
    <2>2. CASE task[t].kind = "add"
      <3>1. /\ project' = Without(project, name) /\ tab' = Without(tab, name)
            /\ Update(Without(project, name), obj, engines, eng) /\ apiList' = Without(project, name)
            /\ UNCHANGED obj
        BY <1>3, <2>2 DEF StartFailed, Update
      <3> HIDE DEF name
      <3>2. ListsInv'
        BY <1>1, <3>1, ListsWithout DEF FwdInv, ListsInv
      <3>3. EnginesInv' /\ neng \in Nat /\ neng' \in Nat /\ neng' >= neng
        BY <1>1, <3>1, <3>2, ListsWithout, UpdateActs DEF FwdInv
      <3>4. TasksInv'
        BY <1>1, <3>3, OnwardKeeps DEF FwdInv
      <3> QED
        BY <2>1, <3>2, <3>3, <3>4 DEF FwdInv
    <2>3. CASE task[t].kind # "add"
      <3>1. UNCHANGED <<project, apiList, engines, eng, neng, tab, obj>>
        BY <1>3, <2>3 DEF StartFailed
      <3>2. ListsInv'
        BY <1>1, <3>1 DEF FwdInv, ListsInv
      <3>3. EnginesInv' /\ neng \in Nat /\ neng' \in Nat /\ neng' >= neng
        BY <1>1, <3>1, EnginesUnchanged, EnginesNow DEF FwdInv
      <3>4. TasksInv'
        BY <1>1, <3>3, OnwardKeeps DEF FwdInv
      <3> QED
        BY <2>1, <3>2, <3>3, <3>4 DEF FwdInv
    <2> QED
      BY <2>2, <2>3
  <1> QED
    BY <1>1, <1>2, <1>3

LEMMA StopBeginsKeeps ==
  ASSUME FwdInv, left \in [Kinds -> Nat], NEW t \in Tasks, StopBegins(t)
  PROVE  FwdInv' /\ Spends
  <1> DEFINE e == engines[task[t].name]
             acts == e # None /\ eng[e].server = "open"
             known == IF acts THEN e ELSE None
  <1>1. /\ task[t].kind \in Stops
        /\ task' = [task EXCEPT ![t].pc = "wait", ![t].engine = known]
        /\ eng' = (IF acts THEN [eng EXCEPT ![e].server = "closing"] ELSE eng)
        /\ live' = (IF acts THEN [live EXCEPT ![e] = "none"] ELSE live)
        /\ UNCHANGED <<obj, nobj, project, apiList, engines, neng, tab, form, mail, left>>
    BY DEF StopBegins, configs, ui
  <1>2. /\ neng \in Nat /\ eng \in EngineTable /\ live \in [Engines -> Names0]
        /\ engines \in [Names -> 0 .. neng]
        /\ \A x \in Engines : x > neng => eng[x].server = "none" /\ live[x] = "none"
    BY EnginesNow DEF FwdInv
  <1>3. e \in Nat /\ e <= neng
    <2>1. task[t].name \in Names
      BY <1>1, TaskNow DEF FwdInv, Stops
    <2> QED
      BY <1>2, <2>1
  <1>4. live' \in [Engines -> Names0] /\ \A x \in Engines : live'[x] \in {live[x], "none"}
    BY <1>1, <1>2 DEF Names0
  <1>5. /\ eng' \in EngineTable /\ \A x \in Engines : eng'[x].name = eng[x].name
        /\ \A x \in Engines : x > neng => eng'[x].server = "none"
    <2>1. CASE acts
      <3>1. eng' = [eng EXCEPT ![e].server = "closing"] /\ "closing" \in Sockets
        BY <1>1, <2>1 DEF Sockets
      <3> HIDE DEF e
      <3> QED
        BY <1>3, <3>1, SocketMoves, ZenonT(40) DEF FwdInv
    <2>2. CASE ~acts
      BY <1>1, <1>2, <2>2
    <2> QED
      BY <2>1, <2>2
  <1>6. EnginesInv' /\ neng \in Nat /\ neng' \in Nat /\ neng' >= neng
    BY <1>1, <1>4, <1>5, SocketKeeps DEF FwdInv
  <1>7. TasksInv'
    <2> DEFINE j == [task[t] EXCEPT !.pc = "wait", !.engine = known]
    <2>1. task' = [task EXCEPT ![t] = j]
      BY <1>1
    <2>2. task[t] \in Jobs /\ (task[t].kind # "none" => task[t].name \in Names)
      BY TaskNow DEF FwdInv
    <2>3. known \in Nat /\ known <= neng'
      BY <1>1, <1>2, <1>3 DEF None
    <2> HIDE DEF known
    <2>4. JobInv(j, neng')
      BY <2>2, <2>3 DEF JobInv, Jobs
    <2> HIDE DEF j
    <2> QED
      BY <1>6, <2>1, <2>4, TaskChanges DEF FwdInv
  <1>8. ListsInv'
    BY <1>1 DEF FwdInv, ListsInv
  <1>9. Spends
    BY <1>1, SpendNone
  <1> QED
    BY <1>6, <1>7, <1>8, <1>9 DEF FwdInv

LEMMA StopEndsKeeps ==
  ASSUME FwdInv, left \in [Kinds -> Nat], NEW t \in Tasks, StopEnds(t)
  PROVE  FwdInv' /\ Spends
  <1> DEFINE e == task[t].engine
             name == task[t].name
             st == IF eng[e].server = "open" THEN "lost" ELSE
                   IF eng[e].server = "closing" THEN "none" ELSE eng[e].server
             stopped == IF e = None THEN eng
                        ELSE [eng EXCEPT ![e].server = IF @ = "open" THEN "lost" ELSE
                                                       IF @ = "closing" THEN "none" ELSE @]
             after == IF task[t].kind = "mcpUpdate"
                      THEN [task[t] EXCEPT !.kind = "mcpRestart", !.pc = "begin"]
                      ELSE Idle
  <1>1. /\ task[t].kind \in Stops
        /\ \/ eng' = stopped /\ UNCHANGED <<project, apiList, engines, neng, tab>>
           \/ /\ tab' = Without(tab, name) /\ project' = Without(project, name)
              /\ Update(project', obj, engines, stopped)
           \/ Update(Without(apiList, name), obj, engines, stopped) /\ UNCHANGED <<project, tab>>
        /\ UNCHANGED <<obj, nobj, live, form, mail, left>>
    BY DEF StopEnds
  <1>2. task' = [task EXCEPT ![t] = after]
    BY DEF StopEnds
  <1>3. /\ neng \in Nat /\ eng \in EngineTable /\ live \in [Engines -> Names0]
        /\ \A x \in Engines : x > neng => eng[x].server = "none" /\ live[x] = "none"
    BY EnginesNow DEF FwdInv
  <1>4. /\ stopped \in EngineTable /\ \A x \in Engines : stopped[x].name = eng[x].name
        /\ \A x \in Engines : x > neng => stopped[x].server = "none"
    <2>1. e \in Nat /\ e <= neng
      BY TaskNow DEF FwdInv
    <2>2. CASE e \in Engines /\ e # None
      <3>1. st \in Sockets
        BY <1>3, <2>2 DEF EngineTable, Engine, Sockets
      <3>2. stopped = [eng EXCEPT ![e].server = st]
        BY <2>2
      <3> HIDE DEF e, st, stopped
      <3> QED
        BY <2>1, <3>1, <3>2, SocketMoves, ZenonT(40) DEF FwdInv
    <2>3. CASE ~(e \in Engines /\ e # None)
      <3>1. stopped = eng
        BY <1>3, <2>3 DEF EngineTable
      <3> HIDE DEF stopped
      <3> QED
        BY <1>3, <3>1
    <2> QED
      BY <2>2, <2>3
  <1> HIDE DEF stopped
  <1>5. ListsInv'
    <2>1. \/ apiList' = apiList /\ UNCHANGED <<project, tab>>
          \/ apiList' = project' /\ tab' = Without(tab, name) /\ project' = Without(project, name)
          \/ apiList' = Without(apiList, name) /\ UNCHANGED <<project, tab>>
      BY <1>1 DEF Update
    <2> HIDE DEF name
    <2> QED
      BY <1>1, <2>1, ListsWithout DEF FwdInv, ListsInv
  <1>6. EnginesInv' /\ neng' \in Nat /\ neng' >= neng
    <2>1. CASE eng' = stopped /\ UNCHANGED <<project, apiList, engines, neng, tab>>
      BY <1>1, <1>3, <1>4, <2>1, SocketKeeps DEF FwdInv
    <2>2. ASSUME NEW list \in Seq(Objs), Update(list, obj, engines, stopped)
          PROVE  EnginesInv' /\ neng' \in Nat /\ neng' >= neng
      <3>1. obj \in Objects
        BY DEF FwdInv, ListsInv
      <3> QED
        BY <1>1, <1>4, <2>2, <3>1, UpdateKeeps DEF FwdInv
    <2> HIDE DEF name
    <2>3. CASE Update(Without(project, name), obj, engines, stopped)
      BY <2>2, <2>3, ListsWithout DEF FwdInv
    <2>4. CASE Update(Without(apiList, name), obj, engines, stopped)
      BY <2>2, <2>4, ListsWithout DEF FwdInv
    <2> QED
      BY <1>1, <2>1, <2>3, <2>4
  <1>7. TasksInv'
    <2>1. task[t] \in Jobs /\ task[t].engine <= neng /\ task[t].name \in Names
      BY <1>1, TaskNow DEF FwdInv, Stops
    <2>2. CASE task[t].kind = "mcpUpdate"
      <3> DEFINE j == [task[t] EXCEPT !.kind = "mcpRestart", !.pc = "begin"]
      <3>1. after = j
        BY <2>2
      <3>2. j \in Jobs /\ j.engine = task[t].engine /\ j.name = task[t].name
        BY <2>1 DEF Jobs, Starts
      <3>3. task[t].engine \in Nat
        BY <2>1 DEF Jobs
      <3> HIDE DEF j, after
      <3>4. JobInv(j, neng')
        BY <1>3, <1>6, <2>1, <3>2, <3>3 DEF JobInv
      <3> QED
        BY <1>2, <1>3, <1>6, <3>1, <3>4, TaskChanges DEF FwdInv
    <2>3. CASE task[t].kind # "mcpUpdate"
      <3>1. after = Idle
        BY <2>3
      <3> HIDE DEF after
      <3> QED
        BY <1>2, <1>3, <1>6, <3>1, IdleIsJob, TaskChanges DEF FwdInv
    <2> QED
      BY <2>2, <2>3
  <1>8. Spends
    BY <1>1, SpendNone
  <1> QED
    BY <1>5, <1>6, <1>7, <1>8 DEF FwdInv

LEMMA McpCallKeeps ==
  ASSUME FwdInv, left \in [Kinds -> Nat], NEW name \in Names,
         NEW kind \in {"mcpStart", "mcpStop", "mcpRemove"}, McpCall(kind, name)
  PROVE  FwdInv' /\ Spends
  <1>1. /\ left.ai > 0 /\ left' = [left EXCEPT !.ai = @ - 1] /\ task' = Spawn(kind, name)
        /\ UNCHANGED <<obj, nobj, project, apiList, engines, eng, neng, live, tab, form, mail>>
    BY DEF McpCall, configs, apiVars, ui
  <1>2. EnginesInv' /\ neng \in Nat /\ neng' \in Nat /\ neng' >= neng
    BY <1>1, EnginesUnchanged, EnginesNow DEF FwdInv
  <1>3. TasksInv'
    BY <1>1, <1>2, SpawnKeeps DEF FwdInv, Starts, Stops
  <1>4. ListsInv'
    BY <1>1 DEF FwdInv, ListsInv
  <1>5. Spends
    BY <1>1, SpendOne DEF Kinds
  <1> QED
    BY <1>2, <1>3, <1>4, <1>5 DEF FwdInv

LEMMA McpAddKeeps ==
  ASSUME FwdInv, left \in [Kinds -> Nat], NEW name \in Names, McpAdd(name)
  PROVE  FwdInv' /\ Spends
  <1>1. /\ left.ai > 0 /\ left' = [left EXCEPT !.ai = @ - 1]
        /\ nobj < MaxObjs /\ nobj' = nobj + 1
        /\ obj' = [obj EXCEPT ![nobj'] = [name |-> name, enabled |-> TRUE]]
        /\ Update(Append(apiList, nobj'), obj', engines, eng)
        /\ apiList' = Append(apiList, nobj')
        /\ UNCHANGED <<project, live, tab, form, mail, task>>
    BY DEF McpAdd, Update, ui
  <1>2. nobj' \in Objs /\ nobj' \in 0 .. MaxObjs /\ obj' \in Objects
    BY <1>1, NewObject DEF FwdInv
  <1>3. Append(apiList, nobj') \in Seq(Objs)
    BY <1>2, AppendProperties DEF FwdInv, ListsInv
  <1>4. neng \in Nat /\ eng \in EngineTable /\ \A e \in Engines : e > neng => eng[e].server = "none"
    BY EnginesNow DEF FwdInv
  <1>5. EnginesInv' /\ neng' \in Nat /\ neng' >= neng
    BY <1>1, <1>2, <1>3, <1>4, UpdateKeeps DEF FwdInv
  <1>6. TasksInv'
    BY <1>1, <1>4, <1>5, TasksUnchanged DEF FwdInv
  <1>7. ListsInv'
    BY <1>1, <1>2, <1>3 DEF FwdInv, ListsInv
  <1>8. Spends
    BY <1>1, SpendOne DEF Kinds
  <1> QED
    BY <1>5, <1>6, <1>7, <1>8 DEF FwdInv

LEMMA McpUpdateKeeps ==
  ASSUME FwdInv, left \in [Kinds -> Nat], NEW name \in Names, NEW new \in Names, NEW on \in BOOLEAN,
         McpUpdate(name, new, on)
  PROVE  FwdInv' /\ Spends
  <1> DEFINE o == apiList[First(At(apiList, obj, name))]
             objs == [obj EXCEPT ![o] = [name |-> new, enabled |-> on]]
  <1>1. /\ left.ai > 0 /\ left' = [left EXCEPT !.ai = @ - 1]
        /\ name \in Listed(apiList) /\ obj' = objs
        /\ \/ UNCHANGED <<apiList, engines, eng, neng, task>>
           \/ /\ Update(apiList, objs, engines, eng)
              /\ task' = Spawn("mcpUpdate", name) \/ UNCHANGED task
        /\ UNCHANGED <<nobj, project, live, tab, form, mail>>
    BY DEF McpUpdate, ui
  <1>2. objs \in Objects
    <2>1. At(apiList, obj, name) # {}
      BY <1>1 DEF Listed, NameOf, At
    <2>2. o \in Objs
      BY <2>1, FirstPlace DEF FwdInv, ListsInv
    <2> HIDE DEF o
    <2> QED
      BY <2>2 DEF FwdInv, ListsInv, Objects
  <1> HIDE DEF objs
  <1>3. neng \in Nat /\ eng \in EngineTable /\ \A e \in Engines : e > neng => eng[e].server = "none"
    BY EnginesNow DEF FwdInv
  <1>4. apiList \in Seq(Objs) /\ UNCHANGED apiList
    BY <1>1 DEF Update, FwdInv, ListsInv
  <1>5. EnginesInv' /\ neng' \in Nat /\ neng' >= neng
    <2>1. CASE UNCHANGED <<apiList, engines, eng, neng, task>>
      BY <1>1, <2>1, EnginesUnchanged DEF FwdInv
    <2>2. CASE Update(apiList, objs, engines, eng)
      BY <1>1, <1>2, <1>3, <1>4, <2>2, UpdateKeeps DEF FwdInv
    <2> QED
      BY <1>1, <2>1, <2>2
  <1>6. TasksInv'
    BY <1>1, <1>3, <1>5, SpawnKeeps, TasksUnchanged DEF FwdInv, Stops
  <1>7. ListsInv'
    BY <1>1, <1>2, <1>4 DEF FwdInv, ListsInv
  <1>8. Spends
    BY <1>1, SpendOne DEF Kinds
  <1> QED
    BY <1>5, <1>6, <1>7, <1>8 DEF FwdInv

LEMMA McpRenameKeeps ==
  ASSUME FwdInv, left \in [Kinds -> Nat], NEW name \in Names, NEW new \in Names, McpRename(name, new)
  PROVE  FwdInv' /\ Spends
  <1>1. /\ left.ai > 0 /\ left' = [left EXCEPT !.ai = @ - 1]
        /\ Renames(name, new) /\ obj' = RenamedObject(name, new)
        /\ engines' = RenamedEngine(name, new) /\ live' = SessionsRenamed(name, new)
        /\ eng' = [eng EXCEPT ![engines[name]].name = new]
        /\ UNCHANGED <<nobj, project, apiList, neng, tab, form, mail, task>>
    BY DEF McpRename, ui
  <1>2. /\ obj' \in Objects /\ engines[name] \in Engines /\ engines' \in Known(neng)
        /\ engines'[name] = None /\ engines'[new] = engines[name]
        /\ \A n \in Names : n # name /\ n # new => engines'[n] = engines[n]
        /\ live' \in [Engines -> Names0]
        /\ \A x \in Engines : x > neng => live'[x] = "none"
        /\ \A n \in Names : engines'[n] # None => live'[engines'[n]] \in {n, "none"}
    BY <1>1, RenamedFacts
  <1>3. /\ neng \in Nat /\ neng <= MaxEngines /\ MaxEngines \in Nat /\ eng \in EngineTable
        /\ engines \in Known(neng) /\ EngineTypes
        /\ \A x \in Engines : x > neng => eng[x].server = "none"
        /\ \A n \in Names : engines[n] # None => engines[n] \in Engines /\ eng[engines[n]].name = n
    BY EnginesNow DEF FwdInv, EnginesInv, SessionsFindEngine
  <1>4. /\ eng' \in EngineTable
        /\ \A x \in Engines : eng'[x].server = eng[x].server
        /\ \A x \in Engines : eng'[x].name = IF x = engines[name] THEN new ELSE eng[x].name
    <2> DEFINE e == engines[name]
               q == [eng[e] EXCEPT !.name = new]
    <2>1. eng' = [eng EXCEPT ![e] = q] /\ e \in Engines
      BY <1>1, <1>2
    <2> HIDE DEF e
    <2>2. q \in Engine /\ q.name = new /\ q.server = eng[e].server
      BY <1>3, <2>1 DEF EngineTable, Engine, Names0
    <2> HIDE DEF q
    <2>3. \A x \in Engines : eng[x] \in Engine /\ DOMAIN eng = Engines
      BY <1>3 DEF EngineTable
    <2>4. eng' \in EngineTable
      BY <1>3, <2>1, <2>2 DEF EngineTable
    <2>5. \A x \in Engines : eng'[x] = IF x = e THEN q ELSE eng[x]
      BY <2>1, <2>3
    <2> QED
      BY <2>2, <2>4, <2>5 DEF e
  <1>5. EngineTypes'
    BY <1>1, <1>2, <1>3, <1>4 DEF EngineTypes, Known
  <1>6. SessionsFindEngine'
    <2> SUFFICES ASSUME NEW n \in Names, engines'[n] # None
                 PROVE  eng'[engines'[n]].name = n /\ live'[engines'[n]] \in {n, "none"}
      BY DEF SessionsFindEngine
    <2>1. n # name
      BY <1>2
    <2>2. CASE n = new
      BY <1>2, <1>4, <2>2
    <2>3. CASE n # new
      <3>1. engines'[n] = engines[n] /\ engines[n] \in Engines /\ eng[engines[n]].name = n
        BY <1>2, <1>3, <2>1, <2>3
      <3>2. engines[n] # engines[name]
        BY <1>1, <1>3, <2>1, <3>1 DEF Renames
      <3> QED
        BY <1>2, <1>4, <3>1, <3>2
    <2> QED
      BY <2>2, <2>3
  <1>7. EnginesInv'
    BY <1>1, <1>2, <1>3, <1>4, <1>5, <1>6 DEF EnginesInv
  <1>8. TasksInv'
    BY <1>1, <1>3, TasksUnchanged DEF FwdInv
  <1>9. ListsInv'
    BY <1>1, <1>2 DEF FwdInv, ListsInv
  <1>10. Spends
    BY <1>1, SpendOne DEF Kinds
  <1> QED
    BY <1>7, <1>8, <1>9, <1>10 DEF FwdInv

(* A session carries the name its engine has when the client connects.     *)
LEMMA ClientConnectsKeeps ==
  ASSUME FwdInv, left \in [Kinds -> Nat], NEW e \in Engines, ClientConnects(e)
  PROVE  FwdInv' /\ Spends
  <1>1. /\ eng[e].server \in {"open", "lost"} /\ left.clients > 0
        /\ live' = [live EXCEPT ![e] = eng[e].name]
        /\ left' = [left EXCEPT !.clients = @ - 1]
        /\ UNCHANGED <<obj, nobj, project, apiList, engines, eng, neng, tab, form, mail, task>>
    BY DEF ClientConnects, configs, ui
  <1>2. /\ EngineTypes /\ neng \in Nat /\ eng \in EngineTable /\ live \in [Engines -> Names0]
        /\ \A x \in Engines : x > neng => eng[x].server = "none" /\ live[x] = "none"
        /\ \A m \in Names : engines[m] # None =>
               engines[m] \in Engines /\ live[engines[m]] \in {m, "none"}
        /\ \A m \in Names : engines[m] # None => eng[engines[m]].name = m
    BY EnginesNow DEF FwdInv, EnginesInv, SessionsFindEngine
  <1>3. EngineTypes'
    BY <1>1, <1>2 DEF EngineTypes, EngineTable, Engine
  <1>4. \A x \in Engines : x > neng' => eng'[x].server = "none" /\ live'[x] = "none"
    BY <1>1, <1>2
  <1>5. SessionsFindEngine'
    BY <1>1, <1>2 DEF SessionsFindEngine
  <1>6. TasksInv'
    BY <1>1, <1>2, TasksUnchanged DEF FwdInv
  <1>7. ListsInv'
    BY <1>1 DEF FwdInv, ListsInv
  <1>8. Spends
    BY <1>1, SpendOne DEF Kinds
  <1> QED
    BY <1>3, <1>4, <1>5, <1>6, <1>7, <1>8 DEF FwdInv, EnginesInv

LEMMA ClientLeavesKeeps ==
  ASSUME FwdInv, left \in [Kinds -> Nat], NEW e \in Engines, ClientLeaves(e)
  PROVE  FwdInv' /\ Spends
  <1>1. /\ live' = [live EXCEPT ![e] = "none"]
        /\ UNCHANGED <<obj, nobj, project, apiList, engines, eng, neng, tab, form, mail, task, left>>
    BY DEF ClientLeaves, configs, ui
  <1>2. /\ neng \in Nat /\ eng \in EngineTable /\ live \in [Engines -> Names0]
        /\ \A x \in Engines : x > neng => eng[x].server = "none"
    BY EnginesNow DEF FwdInv
  <1>3. live' \in [Engines -> Names0] /\ \A x \in Engines : live'[x] \in {live[x], "none"}
    BY <1>1, <1>2 DEF Names0
  <1>4. EnginesInv' /\ neng' \in Nat /\ neng' >= neng
    BY <1>1, <1>2, <1>3, SocketKeeps DEF FwdInv
  <1>5. TasksInv'
    BY <1>1, <1>2, <1>4, TasksUnchanged DEF FwdInv
  <1>6. ListsInv'
    BY <1>1 DEF FwdInv, ListsInv
  <1>7. Spends
    BY <1>1, SpendNone
  <1> QED
    BY <1>4, <1>5, <1>6, <1>7 DEF FwdInv

---------------------------------------------------------------------------
(* Opening a project makes its objects and a new API over them.            *)
LEMMA ProjectOpenedKeeps ==
  ASSUME FwdInv, NEW names \in Seq(Names), ProjectOpened(names)
  PROVE  FwdInv'
  <1> DEFINE n == Len(names)
             objs == [o \in Objs |-> IF o \in nobj + 1 .. nobj + n
                                     THEN [name |-> names[o - nobj], enabled |-> FALSE] ELSE obj[o]]
             list == [i \in 1 .. n |-> nobj + i]
             nothing == [m \in Names |-> None]
             s == Sync(list, objs, nothing, eng, neng)
             enabledOf(enabled) == {i \in DOMAIN names : names[i] \in enabled}
             opened(start) == IF start = <<>> THEN task
                              ELSE Spawned(Job("open", Head(start), Tail(start)))
  <1>1. /\ form = NoForm /\ nobj + n <= MaxObjs /\ s.n <= MaxEngines
        /\ obj' = objs /\ nobj' = nobj + n /\ project' = list /\ apiList' = list /\ tab' = list
        /\ engines' = s.map /\ eng' = s.eng /\ neng' = s.n
        /\ live' = [e \in Engines |-> "none"]
        /\ \E enabled : task' = opened(Subsequence(names, enabledOf(enabled)))
        /\ UNCHANGED <<form, mail>>
    BY DEF ProjectOpened
  <1>2. n \in Nat /\ DOMAIN names = 1 .. n /\ \A i \in 1 .. n : names[i] \in Names
    BY LenProperties, ElementOfSeq
  <1>3. nobj \in Nat /\ MaxObjs \in Nat
    BY ForwardersAssumption DEF FwdInv, ListsInv
  <1> HIDE DEF n
  <1>4. objs \in Objects
    <2>1. \A o \in Objs : (IF o \in nobj + 1 .. nobj + n
                           THEN [name |-> names[o - nobj], enabled |-> FALSE] ELSE obj[o])
                          \in [name : Names, enabled : BOOLEAN]
      <3> SUFFICES ASSUME NEW o \in Objs
                   PROVE  (IF o \in nobj + 1 .. nobj + n
                           THEN [name |-> names[o - nobj], enabled |-> FALSE] ELSE obj[o])
                          \in [name : Names, enabled : BOOLEAN]
        OBVIOUS
      <3>1. CASE o \in nobj + 1 .. nobj + n
        <4>1. o - nobj \in 1 .. n
          BY <1>2, <1>3, <3>1
        <4>2. names[o - nobj] \in Names
          BY <1>2, <4>1
        <4> QED
          BY <3>1, <4>2
      <3>2. CASE ~(o \in nobj + 1 .. nobj + n)
        BY <3>2 DEF FwdInv, ListsInv, Objects
      <3> QED
        BY <3>1, <3>2
    <2> QED
      BY <2>1 DEF Objects
  <1>5. list \in Seq(Objs)
    <2>1. \A i \in 1 .. n : nobj + i \in Objs
      BY <1>1, <1>2, <1>3 DEF Objs
    <2> QED
      BY <1>2, <2>1, IsASeq
  <1>6. /\ EngineTypes /\ neng \in Nat /\ eng \in EngineTable
        /\ \A e \in Engines : e > neng => eng[e].server = "none"
    BY EnginesNow DEF FwdInv
  <1>7. nothing \in Known(neng) /\ \A m \in Names : nothing[m] = None
    BY <1>6 DEF Known, Injective, None
  <1>8. live' \in [Engines -> Names0] /\ \A e \in Engines : live'[e] = "none"
    BY <1>1 DEF Names0
  <1>9. s = Sync(list, objs, nothing, eng, neng)
    OBVIOUS
  <1> HIDE DEF objs, list, nothing, s
  <1>10. EnginesInv' /\ neng' \in Nat /\ neng' >= neng
    BY <1>1, <1>4, <1>5, <1>6, <1>7, <1>8, <1>9, SyncKeeps
  <1>11. TasksInv'
    <2>1. PICK enabled : task' = opened(Subsequence(names, enabledOf(enabled)))
      BY <1>1
    <2> DEFINE start == Subsequence(names, enabledOf(enabled))
    <2>2. enabledOf(enabled) \in SUBSET DOMAIN names
      OBVIOUS
    <2> HIDE DEF enabledOf
    <2>3. start \in Seq(Names)
      BY <2>2, SubsequenceFacts
    <2>4. task' = IF start = <<>> THEN task ELSE Spawned(Job("open", Head(start), Tail(start)))
      BY <2>1
    <2> HIDE DEF start, opened
    <2>5. CASE start = <<>>
      BY <1>6, <1>10, <2>4, <2>5, TasksUnchanged DEF FwdInv
    <2>6. CASE start # <<>>
      <3>1. Head(start) \in Names /\ Tail(start) \in Seq(Names) /\ "open" \in Starts \cup Stops
        BY <2>3, <2>6, HeadTailProperties DEF Starts
      <3>2. task' = Spawned(Job("open", Head(start), Tail(start)))
        BY <2>4, <2>6
      <3> QED
        BY <1>6, <1>10, <3>1, <3>2, SpawnedKeeps DEF FwdInv
    <2> QED
      BY <2>5, <2>6
  <1>12. ListsInv'
    BY <1>1, <1>2, <1>3, <1>4, <1>5 DEF FwdInv, ListsInv
  <1> QED
    BY <1>10, <1>11, <1>12 DEF FwdInv

LEMMA ForwardersStart ==
  ASSUME ForwardersInit PROVE FwdInv
  <1> DEFINE nothing == [m \in Names |-> None]
             unused == [e \in Engines |-> [name |-> "none", server |-> "none"]]
             s == Sync(<<1>>, obj, nothing, unused, 0)
  <1>1. /\ nobj = 1 /\ obj = [o \in Objs |-> [name |-> CHOOSE n \in Names : TRUE, enabled |-> FALSE]]
        /\ project = <<1>> /\ apiList = <<1>> /\ tab = <<1>>
        /\ engines = s.map /\ eng = s.eng /\ neng = s.n
        /\ live = [e \in Engines |-> "none"]
        /\ form = NoForm /\ mail = <<>> /\ task = [t \in Tasks |-> Idle]
    BY DEF ForwardersInit
  <1>2. MaxObjs \in Nat \ {0} /\ MaxEngines \in Nat \ {0} /\ 1 \in Objs
    BY ForwardersAssumption DEF Objs
  <1>3. obj \in Objects
    BY <1>1, ForwardersAssumption DEF Objects
  <1>4. <<1>> \in Seq(Objs) /\ Len(<<1>>) = 1 /\ DOMAIN <<1>> = {1} /\ <<1>>[1] = 1
    BY <1>2
  <1>5. nothing \in Known(0) /\ unused \in EngineTable /\ \A m \in Names : nothing[m] = None
    BY <1>2 DEF Known, Injective, None, EngineTable, Engine, Names0, Sockets
  <1>6. s.n = 1
    <2> DEFINE at(i) == obj[<<1>>[i]].name
               names == {at(i) : i \in DOMAIN <<1>>}
               made == {m \in names : nothing[m] = None}
    <2>1. s.n = 0 + Cardinality(made)
      BY DEF Sync
    <2>2. names = {obj[1].name} /\ obj[1].name \in Names
      BY <1>2, <1>3, <1>4 DEF Objects
    <2> HIDE DEF names
    <2>3. made = {obj[1].name}
      BY <1>5, <2>2
    <2> HIDE DEF made, s
    <2>4. Cardinality(made) = 1
      BY <2>3, FS_Singleton
    <2> QED
      BY <2>1, <2>4
  <1> DEFINE list == <<1>>
             n == 0
  <1>7. s = Sync(list, obj, nothing, unused, n) /\ list \in Seq(Objs) /\ n \in Nat /\ nothing \in Known(n)
    BY <1>4, <1>5
  <1> HIDE DEF nothing, unused, s, list, n
  <1>8. /\ s.n \in Nat /\ s.map \in Known(s.n)
        /\ s.n <= MaxEngines =>
              /\ s.eng \in EngineTable
              /\ \A m \in Names : s.map[m] # None => s.eng[s.map[m]].name = m
              /\ \A e \in Engines : s.eng[e].server \in {unused[e].server, "none"}
    BY <1>3, <1>5, <1>7, SyncFacts
  <1>9. EngineTypes
    BY <1>1, <1>2, <1>6, <1>8 DEF EngineTypes, Known, Names0
  <1>10. \A e \in Engines : e > neng => eng[e].server = "none" /\ live[e] = "none"
    BY <1>1, <1>2, <1>6, <1>8 DEF unused
  <1>11. SessionsFindEngine
    <2> SUFFICES ASSUME NEW m \in Names, engines[m] # None
                 PROVE  eng[engines[m]].name = m /\ live[engines[m]] \in {m, "none"}
      BY DEF SessionsFindEngine
    <2>1. engines[m] \in Engines
      BY <1>1, <1>2, <1>6, <1>8 DEF Known, Engines, None
    <2> QED
      BY <1>1, <1>2, <1>6, <1>8, <2>1
  <1>12. TasksInv
    <2>1. JobInv(Idle, neng)
      BY <1>1, <1>6, EmptySeq, ForwardersAssumption DEF JobInv, Jobs, Idle, Names0, None
    <2> QED
      BY <1>1, <2>1 DEF TasksInv
  <1>13. ListsInv
    BY <1>1, <1>2, <1>3, <1>4 DEF ListsInv
  <1> QED
    BY <1>9, <1>10, <1>11, <1>12, <1>13 DEF FwdInv, EnginesInv

---------------------------------------------------------------------------
(* Every step keeps IInv.                                                  *)
LEMMA InitInv ==
  ASSUME Init PROVE IInv
  BY HostStarts, ForwardersStart DEF Init, IInv

LEMMA ForwardersStep ==
  ASSUME IInv, FwdInv', Spends, UNCHANGED hvars
  PROVE  IInv'
  BY HostLeftAlone DEF IInv

LEMMA HostStep ==
  ASSUME IInv, HostInv', UNCHANGED fvars
  PROVE  IInv'
  <1>1. UNCHANGED <<obj, nobj, project, apiList, engines, eng, neng, live, tab, form, mail, task>>
    BY DEF fvars, configs, apiVars, ui
  <1>2. ListsInv'
    BY <1>1 DEF IInv, FwdInv, ListsInv
  <1>3. FwdInv'
    BY <1>1, <1>2, TabActs DEF IInv
  <1> QED
    BY <1>3 DEF IInv

LEMMA StepInv ==
  ASSUME IInv, [Next]_vars PROVE IInv'
  <1>1. FwdInv /\ HostInv /\ left \in [Kinds -> Nat]
    BY DEF IInv, HostInv, HostTypes
  <1>2. ASSUME OperatorNext, UNCHANGED hvars PROVE IInv'
    <2>1. FwdInv' /\ Spends
      BY <1>1, <1>2, AddForwarderKeeps, OpenFormKeeps, SaveFormKeeps, ToggleKeeps, RemoveKeeps
      DEF OperatorNext
    <2> QED
      BY <1>2, <2>1, ForwardersStep
  <1>3. ASSUME Handled, UNCHANGED hvars PROVE IInv'
    <2>1. FwdInv' /\ Spends
      BY <1>1, <1>3, OnAppliedKeeps, OnAddedKeeps, OnEnabledKeeps, OnRemovedKeeps DEF Handled
    <2> QED
      BY <1>3, <2>1, ForwardersStep
  <1>4. ASSUME NEW t \in Tasks, TaskStep(t), UNCHANGED hvars PROVE IInv'
    <2>1. FwdInv' /\ Spends
      BY <1>1, <1>4, StartBeginsKeeps, StartEndsKeeps, StopBeginsKeeps, StopEndsKeeps DEF TaskStep
    <2> QED
      BY <1>4, <2>1, ForwardersStep
  <1>5. ASSUME AiNext \/ ClientNext, UNCHANGED hvars PROVE IInv'
    <2>1. FwdInv' /\ Spends
      BY <1>1, <1>5, McpAddKeeps, McpCallKeeps, McpUpdateKeeps, McpRenameKeeps,
         ClientConnectsKeeps, ClientLeavesKeeps
      DEF AiNext, ClientNext
    <2> QED
      BY <1>5, <2>1, ForwardersStep
  <1>6. ASSUME ChangeMcpSettings PROVE IInv'
    <2>1. /\ left.mcp > 0 /\ left' = [left EXCEPT !.mcp = @ - 1]
          /\ \E new \in Settings : ApplyBegins("pump", new)
          /\ UNCHANGED <<obj, nobj, project, apiList, engines, eng, neng, live, tab, form, mail, task>>
      BY <1>6 DEF ChangeMcpSettings, configs, apiVars, ui
    <2>2. Spends
      BY <1>1, <2>1, SpendOne DEF Kinds
    <2>3. HostInv'
      BY <1>1, <2>1, <2>2, ApplyBeginsKeeps DEF Appliers
    <2>4. ListsInv'
      BY <1>1, <2>1 DEF FwdInv, ListsInv
    <2>5. FwdInv'
      BY <1>1, <2>1, <2>4, TabActs
    <2> QED
      BY <2>3, <2>5 DEF IInv
  <1>7. ASSUME OpenProject PROVE IInv'
    <2>1. /\ left.opens > 0 /\ left' = [left EXCEPT !.opens = @ - 1]
          /\ \E names \in Projects : ProjectOpened(names)
          /\ \E w \in Workers, s \in Settings : RebindMcp(w, s)
      BY <1>7 DEF OpenProject
    <2>2. Spends
      BY <1>1, <2>1, SpendOne DEF Kinds
    <2>3. HostInv'
      BY <1>1, <2>1, <2>2, RebindKeeps
    <2>4. FwdInv'
      BY <1>1, <2>1, ProjectOpenedKeeps, AppAssumption
    <2> QED
      BY <2>3, <2>4 DEF IInv
  <1>8. ASSUME ServerStep \/ ApplyStep \/ WorkerStep, UNCHANGED fvars PROVE IInv'
    <2>1. UNCHANGED left
      BY <1>8 DEF fvars
    <2>2. Spends
      BY <1>1, <2>1, SpendNone
    <2>3. CASE ServerStep
      BY <1>1, <1>8, <2>1, <2>3, ServerBindsKeeps, ServerExitsKeeps, HostStep DEF ServerStep
    <2>4. CASE ApplyStep
      BY <1>1, <1>8, <2>1, <2>2, <2>4, ApplyEndsKeeps, StopTimesOutKeeps, HostStep DEF ApplyStep
    <2>5. CASE WorkerStep
      <3>1. PICK w \in Workers : applying[w].pc = "begin" /\ ApplyBegins(w, applying[w].want)
        BY <2>5 DEF WorkerStep
      <3>2. w \in Appliers /\ applying[w].want \in Settings
        BY <1>1, <3>1 DEF HostInv, HostTypes, Appliers, Appliance, AtRest
      <3> QED
        BY <1>1, <1>8, <2>2, <3>1, <3>2, ApplyBeginsKeeps, HostStep
    <2> QED
      BY <1>8, <2>3, <2>4, <2>5
  <1>9. ASSUME UNCHANGED vars PROVE IInv'
    <2>1. UNCHANGED <<fvars, hvars>>
      BY <1>9 DEF vars
    <2>2. Spends
      BY <1>1, <2>1, SpendNone DEF fvars
    <2>3. HostInv'
      BY <1>1, <2>1, <2>2, HostLeftAlone
    <2> QED
      BY <2>1, <2>3, HostStep
  <1> QED
    BY <1>2, <1>3, <1>4, <1>5, <1>6, <1>7, <1>8, <1>9 DEF Next

(* IInv is an invariant: of the host and its servers, of what the tab, the *)
(* project and the API list, of the workers, and of the engines.           *)
THEOREM IInvHolds == Spec => []IInv
  <1> QED
    BY InitInv, StepInv, PTL DEF Spec

(* Whatever applies of MCP settings overlap, and whenever a project is     *)
(* opened, a start fails or a server crashes: no server is left that       *)
(* nobody can stop, and without failures what was asked last is what runs. *)
THEOREM HostStaysInStep == Spec => []HostInStep
  <1>1. IInv => HostInStep
    <2> SUFFICES ASSUME IInv PROVE HostInStep
      OBVIOUS
    <2>1. ServersAreOwned /\ HostFollows
      BY DEF IInv, HostInv
    <2>2. ASSUME \A a \in Appliers : applying[a] = AtRest PROVE \A a \in Appliers : ~Waiting(a)
      BY <2>2, ApplianceFacts DEF Waiting
    <2>3. HostMatchesSettings
      BY <2>1, <2>2 DEF HostFollows, HostMatchesSettings
    <2> QED
      BY <2>1, <2>3 DEF HostInStep
  <1> QED
    BY <1>1, IInvHolds, PTL

(* Through renames, removals, failed starts, tool calls and opened         *)
(* projects, an engine the API knows has the name it is known under, and   *)
(* so has the session open on it.                                          *)
THEOREM SessionsAreFound == Spec => []SessionsFindEngine
  <1>1. IInv => SessionsFindEngine
    BY DEF IInv, FwdInv, EnginesInv
  <1> QED
    BY <1>1, IInvHolds, PTL

=============================================================================
