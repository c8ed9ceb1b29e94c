----------------------------- MODULE Forwarders -----------------------------
(***************************************************************************)
(* Who knows which forwarders exist and run: the Config tab, the project,  *)
(* the API with its engines, and the app that passes messages from the tab *)
(* to the API and starts and stops engines in workers.  AI clients call    *)
(* the same API behind the back of the app.                                *)
(*                                                                         *)
(* Forwarders are configuration objects, shared by reference: the edit     *)
(* form works on a copy, everything else on the original.  Two may come to *)
(* have one name, by a tool that does not look; the rows of the tab's      *)
(* table, which must differ by name, are not modelled.                     *)
(***************************************************************************)
EXTENDS Naturals, Sequences, FiniteSets

CONSTANTS
    Names,        \* names of forwarders
    MaxObjs,      \* bound: configuration objects made in a behaviour
    MaxEngines,   \* bound: engines made in a behaviour
    MaxTasks      \* bound: workers and tool calls at a time

ASSUME ForwardersAssumption ==
    /\ {MaxObjs, MaxEngines} \subseteq Nat \ {0} /\ MaxTasks \in Nat
    /\ Names # {} /\ "none" \notin Names

Objs == 1 .. MaxObjs
Engines == 1 .. MaxEngines
Tasks == 1 .. MaxTasks
None == 0

VARIABLES
    obj,         \* the configuration objects: name and enabled
    nobj,        \* objects made so far
    project,     \* ProjectManager.forwarders
    apiList,     \* ProtoPokeAPI.forwarders
    engines,     \* ProtoPokeAPI._engines of the current API
    eng,         \* the engines: name, listening socket
    neng,        \* engines made so far
    live,        \* forwarder name on the open session of an engine, or "none"
    tab,         \* ConfigTab._forwarders
    tabRunning,  \* names in ConfigTab._running_fwds
    form,        \* the edit form: its copy and the names it refuses, or NoForm
    running,     \* ProtoPoke._running_forwarders
    mail,        \* messages from the tab to the app
    task,        \* workers of the app and tool calls of AI clients
    left         \* bounds on the operator and the AI clients

configs == <<obj, nobj, project>>
apiVars == <<apiList, engines, eng, neng, live>>
ui == <<tab, tabRunning, form>>
fvars == <<configs, apiVars, ui, running, mail, task, left>>

NameOf(o) == obj[o].name
Listed(list) == {NameOf(list[i]) : i \in DOMAIN list}
At(list, objs, name) == {i \in DOMAIN list : objs[list[i]].name = name}
First(places) == CHOOSE i \in places : \A j \in places : i <= j
Put(list, places, o) == IF places = {} THEN list ELSE [list EXCEPT ![First(places)] = o]
Subsequence(list, places) ==
    [k \in 1 .. Cardinality(places) |->
        list[CHOOSE i \in places : Cardinality({j \in places : j <= i}) = k]]
Without(list, name) == Subsequence(list, {i \in DOMAIN list : NameOf(list[i]) # name})

NewTask == CHOOSE t \in Tasks : task[t].kind = "none" /\ \A u \in 1 .. t - 1 : task[u].kind # "none"
TaskFree == \E t \in Tasks : task[t].kind = "none"
Job(kind, name, rest) ==
    [kind |-> kind, name |-> name, pc |-> "begin", engine |-> None, fwd |-> None, rest |-> rest]
Spawned(job) == [task EXCEPT ![NewTask] = job]
Spawn(kind, name) == Spawned(Job(kind, name, <<>>))
Idle == [kind |-> "none", name |-> "none", pc |-> "done", engine |-> None, fwd |-> None, rest |-> <<>>]
NoForm == [name |-> "none", enabled |-> FALSE, taken |-> {}]
AllDone == mail = <<>> /\ \A t \in Tasks : task[t] = Idle

---------------------------------------------------------------------------
(* update_forwarders: engines whose name survives are kept and pointed at  *)
(* the object now listed under it, others are made; an engine whose name   *)
(* is gone is dropped, not stopped.  (Of two made for one name the first   *)
(* is dropped at once: it is not modelled.)                                *)
Sync(list, objs, map, es, n) ==
    LET names == {objs[list[i]].name : i \in DOMAIN list}
        first(name) == CHOOSE i \in DOMAIN list : objs[list[i]].name = name
                          /\ \A j \in 1 .. i - 1 : objs[list[j]].name # name
        made == {name \in names : map[name] = None}
        id(name) == n + Cardinality({m \in made : first(m) <= first(name)})
        kept(e) == \E m \in names : map[m] = e
        new(e) == \E m \in made : id(m) = e
        nameOf(e) == CHOOSE m \in names : IF kept(e) THEN map[m] = e ELSE m \in made /\ id(m) = e
    IN  [map |-> [m \in Names |-> IF m \notin names THEN None
                                  ELSE IF m \in made THEN id(m) ELSE map[m]],
         eng |-> [e \in Engines |->
             IF kept(e) \/ new(e)
             THEN [name |-> nameOf(e), server |-> IF kept(e) THEN es[e].server ELSE "none"]
             ELSE es[e]],
         n |-> n + Cardinality(made)]

Update(list, objs, map, es) ==
    LET s == Sync(list, objs, map, es, neng) IN
    /\ s.n <= MaxEngines
    /\ apiList' = list /\ engines' = s.map /\ eng' = s.eng /\ neng' = s.n

---------------------------------------------------------------------------
(* The Config tab.                                                         *)
AddForwarder(name) ==
    /\ form = NoForm /\ left.ui > 0 /\ nobj < MaxObjs /\ name \notin Listed(tab)
    /\ nobj' = nobj + 1
    /\ obj' = [obj EXCEPT ![nobj'] = [name |-> name, enabled |-> TRUE]]
    /\ tab' = Append(tab, nobj')
    /\ mail' = Append(mail, [kind |-> "added", old |-> name, obj |-> nobj', on |-> TRUE])
    /\ left' = [left EXCEPT !.ui = @ - 1]
    /\ UNCHANGED <<project, apiVars, tabRunning, form, running, task>>

OpenForm(name) ==
    /\ form = NoForm /\ left.edits > 0 /\ nobj < MaxObjs
    /\ \E i \in At(tab, obj, name) :
         form' = [name |-> name, enabled |-> obj[tab[i]].enabled, taken |-> Listed(tab) \ {name}]
    /\ left' = [left EXCEPT !.edits = @ - 1]
    /\ UNCHANGED <<configs, apiVars, tab, tabRunning, running, mail, task>>

(* Saving the form: a copy of the object, perhaps under another name,      *)
(* takes the place of the first that has the old name now, if one has.     *)
SaveForm(name) ==
    /\ form # NoForm /\ name \notin form.taken /\ nobj < MaxObjs
    /\ nobj' = nobj + 1
    /\ obj' = [obj EXCEPT ![nobj'] = [name |-> name, enabled |-> form.enabled]]
    /\ tab' = Put(tab, At(tab, obj, form.name), nobj')
    /\ tabRunning' = IF form.name \in tabRunning THEN (tabRunning \ {form.name}) \cup {name} ELSE tabRunning
    /\ mail' = Append(mail, [kind |-> "applied", old |-> form.name, obj |-> nobj', on |-> FALSE])
    /\ form' = NoForm
    /\ UNCHANGED <<project, apiVars, running, task, left>>

Toggle(name) ==
    /\ form = NoForm /\ left.ui > 0
    /\ \E i \in At(tab, obj, name) :
         LET o == tab[i] IN
         /\ obj' = [obj EXCEPT ![o].enabled = ~@]
         /\ mail' = Append(mail, [kind |-> "enabled", old |-> name, obj |-> o,
                                  on |-> ~obj[o].enabled])
    /\ left' = [left EXCEPT !.ui = @ - 1]
    /\ UNCHANGED <<nobj, project, apiVars, ui, running, task>>

Remove(name) ==
    /\ form = NoForm /\ left.ui > 0 /\ name \in Listed(tab)
    /\ mail' = Append(mail, [kind |-> "removed", old |-> name, obj |-> None, on |-> FALSE])
    /\ left' = [left EXCEPT !.ui = @ - 1]
    /\ UNCHANGED <<configs, apiVars, ui, running, task>>

---------------------------------------------------------------------------
(* The app handles one message at a time.                                  *)
Head1(kind) == mail # <<>> /\ Head(mail).kind = kind

\* Slip: a rename leaves the sessions under the old name.
SessionsUnrenamed(old, new) == live
SessionsRenamed(old, new) == [x \in Engines |-> IF live[x] = old THEN new ELSE live[x]]

(* update_forwarder_config: a rename moves the engine and the object listed *)
(* under the name, unless the new name has an engine.                      *)
Renames(old, new) ==
    /\ new # old /\ engines[old] # None /\ engines[new] = None
    /\ old \in Listed(apiList)
RenamedObject(old, new) == [obj EXCEPT ![apiList[First(At(apiList, obj, old))]].name = new]
RenamedEngine(old, new) == [engines EXCEPT ![old] = None, ![new] = engines[old]]

(* The form was saved: a rename takes its sessions along, the object of    *)
(* the project that still has the old name is replaced.  The protocol file *)
(* is loaded after the rename and may fail.                                *)
OnApplied ==
    LET m == Head(mail)
        new == NameOf(m.obj)
        renames == Renames(m.old, new)
        objs == IF renames THEN RenamedObject(m.old, new) ELSE obj
        map == IF renames THEN RenamedEngine(m.old, new) ELSE engines
        list == Put(project, At(project, objs, m.old), m.obj)
    IN
    /\ Head1("applied") /\ mail' = Tail(mail)
    /\ \E raised \in BOOLEAN :
         /\ raised => engines[m.old] # None /\ left.faults > 0
         /\ left' = [left EXCEPT !.faults = IF raised THEN @ - 1 ELSE @]
         /\ running' = IF renames /\ ~raised /\ m.old \in running
                       THEN (running \ {m.old}) \cup {new} ELSE running
    /\ live' = IF renames THEN SessionsRenamed(m.old, new) ELSE live
    /\ obj' = objs /\ project' = list
    /\ Update(list, objs, map, eng)
    /\ UNCHANGED <<nobj, ui, task>>

OnAdded ==
    LET m == Head(mail)
        list == IF m.obj \in {project[i] : i \in DOMAIN project} THEN project
                ELSE Append(project, m.obj)
    IN
    /\ Head1("added") /\ mail' = Tail(mail)
    /\ project' = list
    /\ Update(list, obj, engines, eng)
    /\ IF obj[m.obj].enabled THEN TaskFree /\ task' = Spawn("add", NameOf(m.obj))
                             ELSE UNCHANGED task
    /\ UNCHANGED <<obj, nobj, live, ui, running, left>>

OnEnabled ==
    LET m == Head(mail) IN
    /\ Head1("enabled") /\ mail' = Tail(mail)
    /\ \/ m.on /\ m.old \notin running /\ TaskFree /\ task' = Spawn("start", m.old)
       \/ ~m.on /\ m.old \in running /\ TaskFree /\ task' = Spawn("stop", m.old)
       \/ (m.on <=> m.old \in running) /\ UNCHANGED task
    /\ UNCHANGED <<configs, apiVars, ui, running, left>>

DoRemove(name) ==
    /\ tab' = Without(tab, name) /\ tabRunning' = tabRunning \ {name}
    /\ running' = running \ {name}
    /\ project' = Without(project, name)
    /\ Update(project', obj, engines, eng)

OnRemoved ==
    LET name == Head(mail).old IN
    /\ Head1("removed") /\ mail' = Tail(mail)
    /\ \/ /\ name \in running \/ \E e \in Engines : live[e] = name
          /\ TaskFree /\ task' = Spawn("remove", name)
          /\ UNCHANGED <<project, apiList, engines, eng, neng, tab, tabRunning, running>>
       \/ /\ \E e \in Engines : live[e] = name       \* the operator says no
          /\ UNCHANGED <<project, apiList, engines, eng, neng, tab, tabRunning, running, task>>
       \/ /\ name \notin running /\ \A e \in Engines : live[e] # name
          /\ DoRemove(name)
          /\ UNCHANGED task
    /\ UNCHANGED <<obj, nobj, live, form, left>>

---------------------------------------------------------------------------
(* Workers: _start_forwarder, _add_and_start_forwarder, _stop_forwarder,   *)
(* _stop_and_remove_forwarder, _start_forwarders_on_open, and the tools    *)
(* start_forwarder, stop_forwarder, remove_forwarder and, if it restarts,  *)
(* update_forwarder.                                                       *)
Starts == {"start", "add", "open", "reopen", "mcpStart", "mcpRestart"}
Stops == {"stop", "remove", "mcpStop", "mcpRemove", "mcpUpdate"}
FromApp == {"start", "add", "open"}      \* these call update_forwarders first
OnOpen == {"open", "reopen"}             \* these look the forwarder up in the project

(* What a start that ends makes of its task: opening a project goes on     *)
(* with the next forwarder that was enabled in it.                         *)
Onward(t) ==
    LET rest == task[t].rest IN
    [task EXCEPT ![t] = IF rest = <<>> THEN Idle ELSE Job("reopen", Head(rest), Tail(rest))]

(* A start that fails is logged; a forwarder just added is removed again.  *)
StartFailed(t) ==
    IF task[t].kind = "add"
    THEN /\ project' = Without(project, task[t].name)
         /\ Update(project', obj, engines, eng)
         /\ tab' = Without(tab, task[t].name)
         /\ tabRunning' = tabRunning \ {task[t].name}
    ELSE UNCHANGED <<project, apiList, engines, eng, neng, tab, tabRunning>>

(* No forwarder of that name: a worker that was to add it takes it out of  *)
(* the tab, for neither the project nor the API lists it.                  *)
StartBegins(t) ==
    LET name == task[t].name
        list == IF task[t].kind \in FromApp THEN project ELSE apiList
        s == IF task[t].kind \in FromApp THEN Sync(project, obj, engines, eng, neng)
             ELSE [map |-> engines, eng |-> eng, n |-> neng]
        opens == task[t].kind \in OnOpen
        places == At(project, obj, name)
        e == IF name \notin Listed(list) \/ (opens /\ places = {}) THEN None ELSE s.map[name]
        fwd == IF opens /\ places # {} THEN project[First(places)] ELSE None
        dropped == e = None /\ task[t].kind = "add"
    IN
    /\ task[t].kind \in Starts /\ task[t].pc = "begin" /\ s.n <= MaxEngines
    /\ apiList' = list /\ engines' = s.map /\ neng' = s.n /\ eng' = s.eng
    /\ tab' = IF dropped THEN Without(tab, name) ELSE tab
    /\ tabRunning' = IF dropped THEN tabRunning \ {name} ELSE tabRunning
    /\ task' = IF e = None THEN Onward(t)
               ELSE [task EXCEPT ![t].pc = "wait", ![t].engine = e, ![t].fwd = fwd]
    /\ UNCHANGED <<configs, live, form, running, mail, left>>

(* The engine binds its port, unless it listens already: another start was *)
(* faster.  A stop that still waits does not keep a start from binding.    *)
StartEnds(t) ==
    LET e == task[t].engine
        name == task[t].name
        busy == eng[e].server \in {"open", "lost"} IN
    /\ task[t].kind \in Starts /\ task[t].pc = "wait"
    /\ task' = Onward(t)
    /\ \/ /\ ~busy
          /\ eng' = [eng EXCEPT ![e].server = "open"]
          /\ IF task[t].kind \in {"mcpStart", "mcpRestart"} THEN UNCHANGED <<running, tabRunning>>
             ELSE /\ running' = running \cup {name}
                  /\ tabRunning' = tabRunning \cup {name}
          /\ obj' = [o \in Objs |-> IF task[t].kind \in OnOpen /\ o = task[t].fwd
                                    THEN [obj[o] EXCEPT !.enabled = TRUE] ELSE obj[o]]
          /\ UNCHANGED <<project, apiList, engines, neng, tab, left>>
       \/ /\ busy \/ left.faults > 0
          /\ left' = IF busy THEN left ELSE [left EXCEPT !.faults = @ - 1]
          /\ StartFailed(t)
          /\ UNCHANGED <<obj, running>>
    /\ UNCHANGED <<nobj, live, form, mail>>

(* stop_forwarder does nothing for an unknown forwarder and for one that   *)
(* does not listen yet.                                                    *)
StopBegins(t) ==
    LET e == engines[task[t].name]
        acts == e # None /\ eng[e].server = "open" IN
    /\ task[t].kind \in Stops /\ task[t].pc = "begin"
    /\ task' = [task EXCEPT ![t].pc = "wait", ![t].engine = IF acts THEN e ELSE None]
    /\ eng' = IF acts THEN [eng EXCEPT ![e].server = "closing"] ELSE eng
    /\ live' = IF acts THEN [live EXCEPT ![e] = "none"] ELSE live
    /\ UNCHANGED <<configs, apiList, engines, neng, ui, running, mail, left>>

(* Engine.stop ends by forgetting its server, whichever that is by now: a  *)
(* server opened meanwhile goes on listening and nobody has it.            *)
StopEnds(t) ==
    LET e == task[t].engine
        name == task[t].name
        stopped == IF e = None THEN eng
                   ELSE [eng EXCEPT ![e].server = IF @ = "open" THEN "lost" ELSE
                                                  IF @ = "closing" THEN "none" ELSE @]
    IN
    /\ task[t].kind \in Stops /\ task[t].pc = "wait"
    /\ \/ /\ task[t].kind = "stop"
          /\ running' = running \ {name} /\ tabRunning' = tabRunning \ {name}
          /\ eng' = stopped
          /\ UNCHANGED <<project, apiList, engines, neng, tab>>
       \/ /\ task[t].kind = "remove"
          /\ tab' = Without(tab, name) /\ tabRunning' = tabRunning \ {name}
          /\ running' = running \ {name}
          /\ project' = Without(project, name)
          /\ Update(project', obj, engines, stopped)
       \/ /\ task[t].kind \in {"mcpStop", "mcpUpdate"}
          /\ eng' = stopped
          /\ UNCHANGED <<project, apiList, engines, neng, tab, tabRunning, running>>
       \/ /\ task[t].kind = "mcpRemove"
          /\ Update(Without(apiList, name), obj, engines, stopped)
          /\ UNCHANGED <<project, tab, tabRunning, running>>
    /\ task' = [task EXCEPT ![t] = IF @.kind = "mcpUpdate"
                    THEN [@ EXCEPT !.kind = "mcpRestart", !.pc = "begin"]
                    ELSE Idle]
    /\ UNCHANGED <<obj, nobj, live, form, mail, left>>

(* Tool calls of an AI client.                                             *)
McpCall(kind, name) ==
    /\ left.ai > 0 /\ TaskFree
    /\ kind = "mcpRemove" => name \in Listed(apiList)
    /\ task' = Spawn(kind, name)
    /\ left' = [left EXCEPT !.ai = @ - 1]
    /\ UNCHANGED <<configs, apiVars, ui, running, mail>>

(* update_forwarder changes the object it finds, its name too, and then    *)
(* looks whether the fields fit each other.  If they do, the engines are   *)
(* made anew and, if one listened under the name that was, it is stopped   *)
(* and started by that name.                                               *)
McpUpdate(name, new, on) ==
    LET objs == [obj EXCEPT ![apiList[First(At(apiList, obj, name))]] = [name |-> new, enabled |-> on]]
        listens == engines[name] # None /\ eng[engines[name]].server = "open"
    IN
    /\ left.ai > 0 /\ name \in Listed(apiList)
    /\ obj' = objs
    /\ \/ UNCHANGED <<apiList, engines, eng, neng, task>>
       \/ /\ Update(apiList, objs, engines, eng)
          /\ IF listens THEN TaskFree /\ task' = Spawn("mcpUpdate", name) ELSE UNCHANGED task
    /\ left' = [left EXCEPT !.ai = @ - 1]
    /\ UNCHANGED <<nobj, project, live, ui, running, mail>>

(* update_forwarder_config: the app's set of running names stays behind.   *)
McpRename(name, new) ==
    /\ left.ai > 0 /\ Renames(name, new)
    /\ obj' = RenamedObject(name, new)
    /\ engines' = RenamedEngine(name, new)
    /\ eng' = [eng EXCEPT ![engines[name]].name = new]
    /\ live' = SessionsRenamed(name, new)
    /\ left' = [left EXCEPT !.ai = @ - 1]
    /\ UNCHANGED <<nobj, project, apiList, neng, ui, running, mail, task>>

McpAdd(name) ==
    /\ left.ai > 0 /\ nobj < MaxObjs /\ name \notin Listed(apiList)
    /\ nobj' = nobj + 1
    /\ obj' = [obj EXCEPT ![nobj'] = [name |-> name, enabled |-> TRUE]]
    /\ Update(Append(apiList, nobj'), obj', engines, eng)
    /\ left' = [left EXCEPT !.ai = @ - 1]
    /\ UNCHANGED <<project, live, ui, running, mail, task>>

(* A client connects to a listening engine, and goes again.                *)
ClientConnects(e) ==
    /\ eng[e].server \in {"open", "lost"} /\ live[e] = "none" /\ left.clients > 0
    /\ live' = [live EXCEPT ![e] = eng[e].name]
    /\ left' = [left EXCEPT !.clients = @ - 1]
    /\ UNCHANGED <<configs, apiList, engines, eng, neng, ui, running, mail, task>>

ClientLeaves(e) ==
    /\ live[e] # "none"
    /\ live' = [live EXCEPT ![e] = "none"]
    /\ UNCHANGED <<configs, apiList, engines, eng, neng, ui, running, mail, task, left>>

(* Opening a project: a new API over the objects of the file, all of them  *)
(* disabled until they have been started.                                  *)
ProjectOpened(names) ==
    LET n == Len(names)
        objs == [o \in Objs |-> IF o \in nobj + 1 .. nobj + n
                                THEN [name |-> names[o - nobj], enabled |-> FALSE] ELSE obj[o]]
        list == [i \in 1 .. n |-> nobj + i]
        s == Sync(list, objs, [m \in Names |-> None], eng, neng)
    IN
    /\ form = NoForm /\ nobj + n <= MaxObjs /\ s.n <= MaxEngines
    /\ obj' = objs /\ nobj' = nobj + n /\ project' = list
    /\ apiList' = list /\ engines' = s.map /\ eng' = s.eng /\ neng' = s.n
    /\ live' = [e \in Engines |-> "none"]
    /\ running' = {} /\ tab' = list /\ tabRunning' = {}
    /\ TaskFree
    /\ \E enabled \in SUBSET {names[i] : i \in DOMAIN names} :
         LET start == Subsequence(names, {i \in DOMAIN names : names[i] \in enabled}) IN
         task' = IF start = <<>> THEN task
                 ELSE Spawned(Job("open", Head(start), Tail(start)))
    /\ UNCHANGED <<form, mail>>

---------------------------------------------------------------------------
OperatorNext ==
    \E name \in Names : AddForwarder(name) \/ OpenForm(name) \/ SaveForm(name)
                        \/ Toggle(name) \/ Remove(name)
Handled == OnApplied \/ OnAdded \/ OnEnabled \/ OnRemoved
TaskStep(t) == StartBegins(t) \/ StartEnds(t) \/ StopBegins(t) \/ StopEnds(t)
AiNext ==
    \E name, new \in Names, on \in BOOLEAN, kind \in {"mcpStart", "mcpStop", "mcpRemove"} :
        McpAdd(name) \/ McpCall(kind, name) \/ McpUpdate(name, new, on) \/ McpRename(name, new)
ClientNext == \E e \in Engines : ClientConnects(e) \/ ClientLeaves(e)

ForwardersInit ==
    /\ nobj = 1 /\ obj = [o \in Objs |-> [name |-> CHOOSE n \in Names : TRUE, enabled |-> FALSE]]
    /\ project = <<1>> /\ apiList = <<1>> /\ tab = <<1>>
    /\ LET s == Sync(<<1>>, obj, [m \in Names |-> None],
                     [e \in Engines |-> [name |-> "none", server |-> "none"]], 0)
       IN engines = s.map /\ eng = s.eng /\ neng = s.n
    /\ live = [e \in Engines |-> "none"]
    /\ tabRunning = {} /\ form = NoForm /\ running = {}
    /\ mail = <<>> /\ task = [t \in Tasks |-> Idle]
============================================================================
