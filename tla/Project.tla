------------------------------ MODULE Project ------------------------------
(***************************************************************************)
(* Saving and opening of a project: the project manager's copy of every    *)
(* part of the work, the live objects the tabs and the API work on, and    *)
(* the files.  The knowledge base is the part that is modelled in full;    *)
(* the other parts are versions with one switch, which opening turns off:  *)
(* some forwarder enabled, a playbook bound to a session, MCP enabled.     *)
(***************************************************************************)
EXTENDS Knowledge

CONSTANTS
    Paths,
    Damage,     \* which member of a stranger's project cannot be read, 0 for none
    McpAvailable,  \* the optional package mcp is installed
    MaxEdits,   \* bound: changes to the versions
    MaxSaves,   \* bound: saves
    MaxOpens    \* bound: projects opened

(* In the order in which _open_zip reads and assigns them.                 *)
Order == <<"forwarders", "rules", "forge", "logs", "filters", "mcp", "knowledge">>
Members == ToSet(Order)
Versioned == Members \ {"knowledge"}
Synced == {"forge", "logs", "filters"}             \* copied when saving; the rest is shared
Switched == {"forwarders", "forge", "mcp"}         \* have the switch
Marking == {"forwarders", "forge", "mcp"}          \* some changes of these mark the project dirty
Version(v, on) == [v |-> v, on |-> on]
NoForwarders == 0
DefaultForwarder == Version(-2, TRUE)
NoPath == "no path"
NoFile == [state |-> "absent", at |-> 0, content |-> <<>>]

VARIABLES
    live,     \* the versions that the tabs and the API work with
    held,     \* the project manager's, where it does not hold the live object
    apart,    \* the members of which the manager holds another object
    path, dirty,
    disk,     \* the files: absent, truncated, whole, or whole with a bad member
    seen,     \* per file, the work on the screen when the file was last saved
    basis,    \* the versions in the file last saved or opened, or started with
    silent,   \* the members changed without a mark since
    waking,   \* the worker that starts the forwarders of an opened project has not run
    spoilt,   \* an attempt to open a project failed half-way
    did       \* edits, saves and opens so far

pvars == <<live, held, apart, path, dirty, disk, seen, basis, silent, waking, spoilt, did>>
vars == <<kvars, pvars>>

Notebook == [notes |-> notes, entry |-> entry, lastBy |-> lastBy]
Live == [m \in Members |-> IF m = "knowledge" THEN Notebook ELSE live[m]]
Held == [m \in Members |-> IF m \in apart THEN held[m] ELSE Live[m]]

FreshVersions == [m \in Versioned |-> Version(0, FALSE)]
Foreign == [m \in Members |-> IF m \in Versioned THEN Version(-1, m \in Switched) ELSE Notebook]

(* Somebody else's project lies around.                                    *)
Init ==
    /\ KnowledgeInit
    /\ live = FreshVersions /\ basis = FreshVersions /\ held = Live /\ apart = Synced
    /\ path = NoPath /\ dirty = FALSE /\ silent = {} /\ waking = FALSE /\ spoilt = FALSE
    /\ \E p \in Paths, at \in Damage :
        disk = [q \in Paths |-> IF q # p THEN NoFile ELSE [state |-> "whole", at |-> at, content |-> Foreign]]
    /\ seen = [p \in Paths |-> <<>>]
    /\ did = [edits |-> 0, saves |-> 0, opens |-> 0]

(* A handler of the app or the Forge tab marks the project; rules, logs,   *)
(* filters, the tools of the AI, a level of the log and the text and order *)
(* of the frames of a playbook change without.                             *)
Change ==
    /\ Screen /\ did.edits < MaxEdits
    /\ \E m \in Versioned, on \in BOOLEAN, marks \in BOOLEAN :
        /\ marks => m \in Marking
        /\ on => m \in Switched
        /\ live' = [live EXCEPT ![m] = Version(did.edits + 1, on)]
        /\ dirty' = (dirty \/ marks)
        /\ silent' = IF marks THEN silent ELSE silent \union {m}
    /\ did' = [did EXCEPT !.edits = @ + 1]
    /\ UNCHANGED <<kvars, held, apart, path, disk, seen, basis, waking, spoilt>>

(* The Notes tab marks the project dirty, the tools of the AI do not.      *)
WorkOnKnowledge ==
    /\ KnowledgeNext
    /\ dirty' = (dirty \/ (ByOperator /\ notes' # notes) \/ (ByOperator /\ entry' # entry))
    /\ UNCHANGED <<live, held, apart, path, disk, seen, basis, silent, waking, spoilt, did>>

---------------------------------------------------------------------------
\* Slip: the star goes away although nothing was written.
WriteMarksEarly(p, synced, ok) ==
    /\ disk' = [disk EXCEPT ![p] = IF ok THEN [state |-> "whole", at |-> 0, content |-> synced]
                                   ELSE [NoFile EXCEPT !.state = "truncated"]]
    /\ seen' = [seen EXCEPT ![p] = IF ok /\ ~spoilt THEN Live ELSE <<>>]
    /\ basis' = IF ok THEN [m \in Versioned |-> synced[m]] ELSE basis
    /\ silent' = IF ok THEN {} ELSE silent
    /\ dirty' = FALSE
(* _write_zip: the old file is truncated before the new one is written.    *)
Write(p, synced, ok) ==
    /\ disk' = [disk EXCEPT ![p] = IF ok THEN [state |-> "whole", at |-> 0, content |-> synced]
                                   ELSE [NoFile EXCEPT !.state = "truncated"]]
    /\ seen' = [seen EXCEPT ![p] = IF ok /\ ~spoilt THEN Live ELSE <<>>]
    /\ basis' = IF ok THEN [m \in Versioned |-> synced[m]] ELSE basis
    /\ silent' = IF ok THEN {} ELSE silent
    /\ dirty' = IF ok THEN FALSE ELSE dirty

\* Slip: the captured sessions are not copied into the project first.
SyncForgeOnly == [m \in Members |-> IF m = "forge" THEN Live[m] ELSE Held[m]]
(* _sync_playbooks: playbooks, sessions and filters.                       *)
Sync == [m \in Members |-> IF m \in Synced THEN Live[m] ELSE Held[m]]

(* Save, or save under a path, which the project keeps if writing fails.   *)
SaveTo(p) ==
    /\ Screen /\ did.saves < MaxSaves /\ did' = [did EXCEPT !.saves = @ + 1]
    /\ path' = p
    /\ held' = [m \in Members |-> IF m \in Synced THEN Sync[m] ELSE held[m]]
    /\ \E ok \in BOOLEAN : Write(p, Sync, ok)
    /\ UNCHANGED <<kvars, live, apart, waking, spoilt>>
SaveProject == path # NoPath /\ SaveTo(path)
SaveAs == \E p \in Paths : SaveTo(p)

(* The process is killed, in the middle of a save or not; unsaved work is  *)
(* gone, the AI's client too.                                              *)
Killed ==
    /\ \/ /\ path # NoPath /\ did.saves < MaxSaves /\ did' = [did EXCEPT !.saves = @ + 1]
          /\ disk' = [disk EXCEPT ![path] = [NoFile EXCEPT !.state = "truncated"]]
          /\ seen' = [seen EXCEPT ![path] = <<>>]
       \/ /\ did.opens < MaxOpens /\ did' = [did EXCEPT !.opens = @ + 1]
          /\ UNCHANGED <<disk, seen>>
    /\ notes' = <<>> /\ rows' = <<>> /\ selected' = NoEntry /\ form' = NoForm /\ asking' = FALSE
    /\ entry' = BlankEntries /\ lastBy' = [e \in Entries |-> "ai"] /\ UNCHANGED work
    /\ live' = FreshVersions /\ basis' = FreshVersions /\ held' = Live' /\ apart' = Synced
    /\ path' = NoPath /\ dirty' = FALSE /\ silent' = {} /\ waking' = FALSE /\ spoilt' = FALSE

---------------------------------------------------------------------------
(* What _open_zip makes of a member: no project is without a forwarder,    *)
(* and the sessions of another process are gone.                           *)
Reads(m, x) ==
    CASE m = "forwarders" /\ x.v = NoForwarders -> DefaultForwarder
      [] m = "forge" -> Version(x.v, FALSE)
      [] OTHER -> x
(* What the app makes of it: the forwarders wait for StartOnOpen.          *)
Adopts(m, x) ==
    CASE m = "forwarders" -> Version(x.v, FALSE)
      [] m = "mcp" -> Version(x.v, x.on /\ McpAvailable)
      [] OTHER -> x
Opened(c) == [m \in Members |-> Adopts(m, Reads(m, c[m]))]

(* Opening: everything is replaced when every member could be read; when   *)
(* one cannot, the members before it have been replaced in the manager but *)
(* nowhere else.                                                           *)
OpenWhole(f) ==
    /\ live' = [m \in Versioned |-> Opened(f.content)[m]]
    /\ held' = Opened(f.content)
    /\ apart' = Synced
    /\ dirty' = FALSE /\ spoilt' = FALSE
    /\ basis' = [m \in Versioned |-> f.content[m]]
    /\ silent' = {m \in Versioned : live'[m] # f.content[m]}
    /\ waking' = (waking \/ Reads("forwarders", f.content["forwarders"]).on)
    /\ notes' = f.content["knowledge"].notes /\ entry' = f.content["knowledge"].entry
    /\ lastBy' = f.content["knowledge"].lastBy
    /\ Refresh(selected)      \* NotesTab.rebind_api
    /\ UNCHANGED <<form, asking, work, disk, seen>>
OpenHalf(f) ==
    LET before == {Order[i] : i \in 1 .. f.at - 1} IN
    /\ held' = [m \in Members |-> IF m \in before THEN Reads(m, f.content[m]) ELSE held[m]]
    /\ apart' = apart \union before
    /\ spoilt' = (spoilt \/ before # {})
    /\ UNCHANGED <<kvars, live, path, dirty, disk, seen, basis, silent, waking>>

OpenProject ==
    /\ Screen /\ did.opens < MaxOpens /\ did' = [did EXCEPT !.opens = @ + 1]
    /\ \E p \in Paths :
        \/ /\ disk[p].state \in {"absent", "truncated"}
           /\ UNCHANGED <<kvars, live, held, apart, path, dirty, disk, seen, basis, silent, waking, spoilt>>
        \/ disk[p].state = "whole" /\ disk[p].at > 0 /\ OpenHalf(disk[p])
        \/ disk[p].state = "whole" /\ disk[p].at = 0 /\ OpenWhole(disk[p]) /\ path' = p

(* The forwarders that were enabled in the file are enabled again if they  *)
(* can listen, whatever the manager's list is by then.                     *)
StartOnOpen ==
    /\ waking /\ waking' = FALSE
    /\ \E up \in BOOLEAN :
        /\ live' = IF up /\ "forwarders" \notin apart THEN [live EXCEPT !["forwarders"] = Version(@.v, TRUE)] ELSE live
        /\ held' = IF up /\ "forwarders" \in apart THEN [held EXCEPT !["forwarders"] = Version(@.v, TRUE)] ELSE held
    /\ silent' = silent \union {"forwarders"}
    /\ UNCHANGED <<kvars, apart, path, dirty, disk, seen, basis, spoilt, did>>

Next == Change \/ WorkOnKnowledge \/ SaveProject \/ SaveAs \/ Killed \/ OpenProject \/ StartOnOpen

Spec == Init /\ [][Next]_vars

---------------------------------------------------------------------------
(* What opening may change: without forwarders there is the default one,   *)
(* and nothing is switched on.                                             *)
ComesBack(m, saved, now) ==
    IF m \in Switched
    THEN /\ now.v = saved.v \/ (m = "forwarders" /\ saved.v = NoForwarders /\ now.v = DefaultForwarder.v)
         /\ now.on => saved.on
    ELSE now = saved

(* A project that was saved comes back as it was on the screen when it was *)
(* saved, every part of it, after whatever restarts, failed saves and      *)
(* other projects in between: rules, sessions, filters and knowledge as    *)
(* they were, the rest with its switches off or as they were.  (Not so for *)
(* what is saved after a project could only be read half-way: some of what *)
(* is saved is then the other project's.)                                  *)
ReopenedIsWhatWasSaved ==
    [][path' # NoPath /\ path' # path /\ did'.opens > did.opens /\ seen[path'] # <<>>
        => \A m \in Members : ComesBack(m, seen[path'][m], Live'[m])]_vars

(* A mark outlasts everything but a save or an opening that succeeds: with *)
(* no star in the title, forwarders, playbooks and MCP settings are as in  *)
(* the file last saved or opened, unless they were changed by one of the   *)
(* many ways that do not mark the project.                                 *)
NoStarMeansSaved == ~dirty /\ ~spoilt => \A m \in Marking \ silent : basis[m] = live[m]

(* What manager.py:101 says of is_dirty, "True if there are unsaved        *)
(* changes", does not hold: a change of Change may leave no mark.          *)
StarShowsEveryChange == ~dirty => \A m \in Versioned : basis[m] = live[m]
============================================================================
