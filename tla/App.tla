-------------------------------- MODULE App --------------------------------
(***************************************************************************)
(* The app: the Config tab, the workers that start and stop forwarders and *)
(* the embedded MCP server.  Opening a project replaces the API under all  *)
(* of them.  While the settings of the MCP server are applied, the app     *)
(* handles no message from the Config tab; the operator, slower than an    *)
(* app that does handle them, may act on then.                             *)
(***************************************************************************)
EXTENDS Forwarders, MCPHost

CONSTANTS
    Budgets,   \* what the operator, the AI and the network may do in a behaviour
    Starting,  \* settings of the MCP server at the start
    Projects   \* the names of the forwarders of the projects that may be opened

Kinds == {"ui", "edits", "ai", "faults", "clients", "mcp", "opens", "serverFaults"}
ASSUME AppAssumption ==
    /\ Budgets \subseteq [Kinds -> Nat] /\ Starting \subseteq Settings
    /\ Projects \subseteq Seq(Names)

vars == <<fvars, hvars>>
PumpFree == applying["pump"] = AtRest

Init ==
    /\ ForwardersInit
    /\ \E b \in Budgets :
        left = b /\ faults = b.serverFaults
    /\ \E s \in Starting : MCPInit(s)

ChangeMcpSettings ==
    /\ PumpFree /\ mail = <<>> /\ left.mcp > 0
    /\ left' = [left EXCEPT !.mcp = @ - 1]
    /\ \E new \in Settings : ApplyBegins("pump", new)
    /\ UNCHANGED <<configs, apiVars, ui, running, mail, task>>

OpenProject ==
    /\ PumpFree /\ mail = <<>> /\ left.opens > 0
    /\ left' = [left EXCEPT !.opens = @ - 1]
    /\ \E names \in Projects : ProjectOpened(names)
    /\ \E w \in Workers, s \in Settings : RebindMcp(w, s)

Next ==
    \/ (mail = <<>> \/ ~PumpFree) /\ OperatorNext /\ UNCHANGED hvars
    \/ PumpFree /\ Handled /\ UNCHANGED hvars
    \/ (\E t \in Tasks : TaskStep(t)) /\ UNCHANGED hvars
    \/ (AiNext \/ ClientNext) /\ UNCHANGED hvars
    \/ ChangeMcpSettings \/ OpenProject
    \/ (ServerStep \/ ApplyStep \/ WorkerStep) /\ UNCHANGED fvars

Spec == Init /\ [][Next]_vars

---------------------------------------------------------------------------
(* A session is found under the name of the forwarder it came through: an  *)
(* engine the API knows is known under its own name, and its open session  *)
(* carries that name, whether the operator or an AI client renamed it.     *)
SessionsFindEngine ==
    \A name \in Names :
        LET e == engines[name] IN
        e # None => eng[e].name = name /\ live[e] \in {name, "none"}

(* However applies overlap, no MCP server is left that nobody can stop: a  *)
(* server that was not asked to exit is the one the host holds.            *)
ServersAreOwned ==
    \A s \in Servers : server[s].st \in Alive /\ ~server[s].asked => handle = s

(* When no apply is in progress and no server failed, the settings the     *)
(* host holds are carried out, whichever apply stored them and whichever   *)
(* started the server: none runs if they say no, and otherwise the last    *)
(* one started is the host's and has their port.  (It may have found the   *)
(* port still held by the one before.)                                     *)
HostMatchesSettings ==
    /\ \A a \in Appliers : applying[a] = AtRest
    /\ faults = left.serverFaults
    => IF settings.on
       THEN handle # NoServer /\ handle = nserver /\ server[handle].port = settings.port
       ELSE ~IsRunning

(* The MCP host and its servers: what was asked last is what runs, and     *)
(* nothing else does.                                                      *)
HostInStep == ServersAreOwned /\ HostMatchesSettings

(* The host follows the project: rebind is to hand every API to the server, *)
(* at once if it runs and otherwise at its next start.                     *)
ServesCurrentApi == IsRunning => server[handle].api = api

(* What app.py:306 says of an edit: the project's list is in step with the *)
(* tab's, "so that subsequent start/stop cycles pick up the new config":   *)
(* when the app has caught up, both hold the same objects.                 *)
TabListsProject == AllDone => tab = project
============================================================================
