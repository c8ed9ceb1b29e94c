------------------------------ MODULE MCPHost ------------------------------
(***************************************************************************)
(* The MCP server embedded in the app: its settings, the uvicorn server    *)
(* that runs in a task of its own, and the API its tools act on.           *)
(*                                                                         *)
(* New settings are applied by the handler of the Config tab's message,    *)
(* during which the app handles no other message ("pump"), and by a worker *)
(* when a project is opened.  An apply that restarts the server waits for  *)
(* the old one; another apply may run meanwhile.                           *)
(***************************************************************************)
EXTENDS Naturals

CONSTANTS
    Ports,        \* ports the server may listen on
    MaxServers,   \* bound: servers made in a behaviour
    Workers       \* workers that apply the settings of an opened project

ASSUME MCPHostAssumption == MaxServers \in Nat \ {0} /\ "pump" \notin Workers

Servers == 1 .. MaxServers
NoServer == 0
Appliers == Workers \cup {"pump"}
Settings == [on : BOOLEAN, port : Ports]

VARIABLES
    api,         \* which API the app has now: it counts the projects opened
    settings,    \* MCPHost._settings
    projectMcp,  \* ProjectManager.mcp_settings
    provider,    \* _initial_provider: 0 for `lambda: self.api`, else an API
    handle,      \* the server _server, _uvicorn and _task belong to
    server,      \* the servers: state, API, port, and whether asked to exit
    nserver,     \* servers made so far
    applying,    \* applies in progress
    faults       \* bound: servers and starts that may yet fail

hvars == <<api, settings, projectMcp, provider, handle, server, nserver, applying, faults>>

Alive == {"starting", "serving"}
IsRunning == handle # NoServer /\ server[handle].st \in Alive
AtRest == [pc |-> "rest"]

---------------------------------------------------------------------------
\* Slip: nobody asks whether a server runs already.
StartUnchecked(s) ==
    IF ~s.on THEN UNCHANGED <<handle, server, nserver>> ELSE
    /\ nserver < MaxServers
    /\ nserver' = nserver + 1 /\ handle' = nserver'
    /\ server' = [server EXCEPT ![nserver'] =
            [st |-> "starting", port |-> s.port, asked |-> FALSE,
             api |-> IF provider = 0 THEN api ELSE provider]]

(* start: nothing if the settings say no or a server runs.                 *)
Start(s) ==
    IF ~s.on \/ IsRunning THEN UNCHANGED <<handle, server, nserver>>
    ELSE
    /\ nserver < MaxServers
    /\ nserver' = nserver + 1 /\ handle' = nserver'
    /\ server' = [server EXCEPT ![nserver'] =
            [st |-> "starting", port |-> s.port, asked |-> FALSE,
             api |-> IF provider = 0 THEN api ELSE provider]]

(* A start that raises: the stored settings are those of before the apply, *)
(* and the app takes its project back to what it was.                      *)
StartRaises(s, before, project) ==
    /\ s.on /\ ~IsRunning
    /\ faults > 0 /\ faults' = faults - 1
    /\ settings' = before /\ projectMcp' = project
    /\ UNCHANGED <<handle, server, nserver>>

(* apply, up to its first wait.                                            *)
ApplyBegins(a, new) ==
    LET stored == IF a = "pump" THEN new ELSE projectMcp
        rest == [applying EXCEPT ![a] = AtRest] IN
    /\ applying[a] = IF a = "pump" THEN AtRest ELSE [pc |-> "begin", want |-> new]
    /\ \/ /\ new = settings
          /\ projectMcp' = stored /\ applying' = rest
          /\ UNCHANGED <<settings, handle, server, nserver, faults>>
       \/ /\ new # settings /\ IsRunning
          /\ settings' = new /\ projectMcp' = stored
          /\ handle' = NoServer
          /\ server' = [server EXCEPT ![handle].asked = TRUE]
          /\ applying' = [applying EXCEPT ![a] = [pc |-> "stopping", want |-> new,
                                old |-> settings, project |-> projectMcp, of |-> handle]]
          /\ UNCHANGED <<nserver, faults>>
       \/ /\ new # settings /\ ~IsRunning
          /\ settings' = new /\ projectMcp' = stored /\ applying' = rest
          /\ Start(new)
          /\ UNCHANGED faults
       \/ /\ new # settings
          /\ StartRaises(new, settings, projectMcp) /\ applying' = rest
    /\ UNCHANGED <<api, provider>>

\* Slip: the start takes the settings of this apply, not the stored ones.
ApplyEndsWanted(a) ==
    LET x == applying[a] IN
    /\ x.pc = "stopping" /\ server[x.of].st \notin Alive
    /\ applying' = [applying EXCEPT ![a] = AtRest]
    /\ Start(x.want)
    /\ UNCHANGED <<api, settings, projectMcp, provider, faults>>

(* The old server has ended, or the wait timed out and its task was        *)
(* cancelled, which leaves its socket open: the rest of apply.             *)
ApplyEnds(a) ==
    LET x == applying[a] IN
    /\ x.pc = "stopping" /\ server[x.of].st \notin Alive
    /\ applying' = [applying EXCEPT ![a] = AtRest]
    /\ \/ /\ IF x.want.on THEN Start(settings) ELSE UNCHANGED <<handle, server, nserver>>
          /\ UNCHANGED <<settings, projectMcp, faults>>
       \/ /\ x.want.on /\ settings.on
          /\ StartRaises(settings, x.old, IF a = "pump" THEN x.project ELSE projectMcp)
    /\ UNCHANGED <<api, provider>>

StopTimesOut(a) ==
    LET x == applying[a] IN
    /\ x.pc = "stopping" /\ server[x.of].st \in Alive /\ faults > 0
    /\ faults' = faults - 1
    /\ server' = [server EXCEPT ![x.of].st = IF @ = "serving" THEN "leaked" ELSE "done"]
    /\ UNCHANGED <<api, settings, projectMcp, provider, handle, nserver, applying>>

(* The task of a server: bind the port or, when another has it, log that   *)
(* and end; end when asked to.                                             *)
Held(port) == \E s \in Servers : server[s].st \in {"serving", "leaked"} /\ server[s].port = port
ServerBinds(s) ==
    /\ server[s].st = "starting"
    /\ server' = [server EXCEPT ![s].st = IF Held(server[s].port) THEN "done" ELSE "serving"]
    /\ UNCHANGED <<api, settings, projectMcp, provider, handle, nserver, applying, faults>>

ServerExits(s) ==
    /\ server[s].st = "serving"
    /\ \/ server[s].asked /\ UNCHANGED faults
       \/ faults > 0 /\ faults' = faults - 1       \* it crashes
    /\ server' = [server EXCEPT ![s].st = "done"]
    /\ UNCHANGED <<api, settings, projectMcp, provider, handle, nserver, applying>>

(* A project is opened: a new API is bound to the server if there is one,  *)
(* and otherwise becomes what the next start binds.  A worker applies the  *)
(* settings of the project.                                                *)
RebindMcp(w, stored) ==
    /\ applying[w] = AtRest
    /\ applying' = [applying EXCEPT ![w] = [pc |-> "begin", want |-> stored]]
    /\ api' = api + 1
    /\ projectMcp' = stored
    /\ IF handle = NoServer
       THEN provider' = api' /\ UNCHANGED server
       ELSE UNCHANGED provider /\ server' = [server EXCEPT ![handle].api = api']
    /\ UNCHANGED <<settings, handle, nserver, faults>>

MCPInit(s) ==
    /\ api = 1 /\ settings = s /\ projectMcp = s /\ provider = 0
    /\ server = [x \in Servers |-> [st |-> IF x = 1 /\ s.on THEN "starting" ELSE "none",
                                   port |-> s.port, asked |-> FALSE, api |-> 1]]
    /\ nserver = (IF s.on THEN 1 ELSE 0) /\ handle = nserver
    /\ applying = [a \in Appliers |-> AtRest]

ServerStep == \E s \in Servers : ServerBinds(s) \/ ServerExits(s)
WorkerStep ==
    \E w \in Workers : applying[w].pc = "begin" /\ ApplyBegins(w, applying[w].want)
ApplyStep == \E a \in Appliers : ApplyEnds(a) \/ StopTimesOut(a)
============================================================================
