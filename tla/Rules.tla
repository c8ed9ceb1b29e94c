------------------------------- MODULE Rules -------------------------------
(***************************************************************************)
(* The replace rules and the intercept rules: two ordered lists of rule    *)
(* objects, worked on by the Tamper tab (through tables that it refreshes  *)
(* only after its own operations), by the tools of the MCP server, and by  *)
(* the opening of a project; evaluated for every frame.                    *)
(*                                                                         *)
(* A frame's bytes are one letter; a pattern is the letter it matches, ""  *)
(* for none; a substitution turns the letter matched into another one, or  *)
(* is one that re.sub refuses (a backslash and what it does not know).     *)
(***************************************************************************)
EXTENDS Integers, Sequences, SequencesExt

CONSTANTS
    Letters,         \* contents of a frame
    ReplaceIds, InterceptIds,
    ReplaceForms, InterceptForms,   \* what the operator enters in the modals
    Versions,        \* what the script file may hold, see Good
    Sessions,
    Indices,         \* indices the AI moves a rule to
    MaxEdits,        \* bound: operations on the lists, one less where scripts run
    MaxFrames,       \* bound: frames evaluated
    MaxScripts       \* bound: versions the script file goes through

ASSUME RulesAssumption == ReplaceIds \intersect InterceptIds = {} /\ Indices \subseteq Int

None == "none"
Refused == "refused"  \* a substitution that re.sub raises for
Raised == "raised"    \* ... and what comes of it, to the caller
NoModal == [id |-> None, kind |-> None, live |-> FALSE]
Clicked(k, r, does, f) == [id |-> r, kind |-> k, does |-> does, form |-> f]
NoClick == Clicked(None, None, None, None)
Directions == {"c2s", "s2c"}
Ids == ReplaceIds \union InterceptIds
Kinds == {"replace", "intercept"}
IdsOf(k) == IF k = "replace" THEN ReplaceIds ELSE InterceptIds
FormsOf(k) == IF k = "replace" THEN ReplaceForms ELSE InterceptForms

VARIABLES
    list,     \* _rules of the RulesEngine and of the InterceptFilter
    rule,     \* the rule objects
    shown,    \* RuleTable._rules of the two tables of the Tamper tab: the rules' ids
    stale,    \* their objects are those of the project as it was opened before
    modal,    \* the rule edited in a modal and whether its object is one of the list
    click,    \* the rule the operator just acted on, what was done and entered
    disk,     \* what the script file holds
    used,     \* each rule's script that ran last: version, frame, reset since
    count     \* operations so far, for the bounds

rvars == <<list, rule, shown, stale, modal, click, disk, used, count>>

---------------------------------------------------------------------------
(* Rule objects.  Of an intercept rule, only the binary pattern is used.   *)
Textual == {"binary", "regex"}
Compile(p) == IF p = "" THEN None ELSE p
Blank == [type |-> "binary", text |-> [t \in Textual |-> ""], to |-> [t \in Textual |-> ""],
          compiled |-> [t \in Textual |-> None], path |-> FALSE, module |-> None,
          dir |-> None, on |-> TRUE, scopes |-> {}, action |-> "intercept", sessions |-> Sessions]

(* __post_init__: the pattern of the rule's own type is compiled.          *)
Built(r) == [r EXCEPT !.compiled = [t \in Textual |-> IF t = r.type THEN Compile(r.text[t]) ELSE None]]
Common(r, f) == [r EXCEPT !.type = f.type, !.dir = f.dir, !.on = f.on, !.scopes = f.scopes, !.action = f.action,
                          !.sessions = f.sessions]
Created(f) ==
    Built(IF f.type = "script" THEN [Common(Blank, f) EXCEPT !.path = TRUE]
          ELSE [Common(Blank, f) EXCEPT !.text[f.type] = f.text, !.to[f.type] = f.to])

\* Slip: the compiled pattern is not replaced when a rule is edited.
EditedStale(r, f) == [Common(r, f) EXCEPT !.text["binary"] = f.text, !.to["binary"] = f.to]
(* _try_save of the modals, on the object they were opened with.           *)
Edited(r, f) ==
    LET c == [Common(r, f) EXCEPT !.sessions = r.sessions] IN
    IF f.type = "script"
    THEN [c EXCEPT !.path = TRUE, !.module = None, !.compiled = [t \in Textual |-> None]]
    ELSE [c EXCEPT !.text[f.type] = f.text, !.to[f.type] = f.to,
                   !.compiled = [t \in Textual |-> IF t = f.type THEN Compile(f.text) ELSE None]]

(* to_dict and from_dict: what is compiled or cached is not written.       *)
ToDict(r) == [r EXCEPT !.compiled = Blank.compiled, !.module = None]
FromDict(d) == Built(d)

---------------------------------------------------------------------------
(* Evaluation of a frame [letter, dir, session].                           *)
Good == {v \in Versions : v \in {"v1", "v2"}}
Unloadable == {"gone", "syntax"}       \* loading the module raises
Harmless == {"no_apply", "not_bytes"}  \* apply() is missing or returns no bytes
ScriptOutput(v, x) == IF v \in Good THEN v ELSE x  \* a good script writes its own letter

\* Slip: a module whose apply() raised stays cached.
RunScriptKept(r) ==
    LET m == IF r.module = None THEN disk ELSE r.module
    IN  [used |-> m, module |-> IF m \in Unloadable THEN None ELSE m]
(* _apply_script: load once, forget the module when it raises.             *)
RunScript(r) ==
    LET m == IF r.module = None THEN disk ELSE r.module
    IN  [used |-> m, module |-> IF m \in Unloadable \union {"raises"} THEN None ELSE m]

Applies(r, frame, scope) == r.on /\ r.dir \in {None, frame.dir} /\ scope \in r.scopes
Scripted(r, frame, scope) == Applies(r, frame, scope) /\ r.type = "script" /\ r.path

(* re.sub reads the substitution before it looks for the pattern.          *)
Refuses(r, frame, scope) ==
    /\ Applies(r, frame, scope) /\ r.type \in Textual
    /\ r.compiled[r.type] # None /\ r.to[r.type] = Refused

(* ReplaceRule.apply: a script that fails leaves the bytes as they are; a  *)
(* substitution that is refused raises, to the relay.                      *)
Apply(r, x, frame, scope) ==
    IF ~Applies(r, frame, scope) THEN x
    ELSE IF r.type = "script" THEN IF r.path THEN ScriptOutput(RunScript(r).used, x) ELSE x
    ELSE IF Refuses(r, frame, scope) THEN Raised
    ELSE IF r.compiled[r.type] = x THEN r.to[r.type] ELSE x

(* RulesEngine.apply: later rules see what earlier ones made, and no frame *)
(* of which one raised.                                                    *)
ApplyAll(rules, frame, scope) ==
    FoldLeft(LAMBDA x, r : IF x = Raised THEN x ELSE Apply(r, x, frame, scope), frame.letter, rules)

(* InterceptFilter: the first rule that matches decides.  No rules at all  *)
(* hold every frame, rules of which none matches let it pass.              *)
MatchesFrame(r, frame) ==
    /\ r.on
    /\ r.dir \in {None, frame.dir}
    /\ frame.session \in r.sessions  \* all of them when the rule names none
    /\ r.text["binary"] = "" \/ r.compiled["binary"] = frame.letter
ShouldIntercept(rules, frame) ==
    IF rules = <<>> THEN TRUE
    ELSE LET matching == SelectSeq(rules, LAMBDA r : MatchesFrame(r, frame))
         IN  matching # <<>> /\ Head(matching).action = "intercept"

Frames == [letter : Letters, dir : Directions, session : Sessions]
Scopes == {"traffic", "tamper", "forge"}
Objects(k) == [i \in DOMAIN list[k] |-> rule[list[k][i]]]

---------------------------------------------------------------------------
RulesInit ==
    /\ list = [k \in Kinds |-> <<>>]
    /\ rule = [r \in Ids |-> Blank]
    /\ shown = [k \in Kinds |-> <<>>]
    /\ stale = [k \in Kinds |-> FALSE]
    /\ modal = NoModal /\ click = NoClick
    /\ disk \in Versions
    /\ used = [r \in Ids |-> [version |-> None, frame |-> 0, reset |-> FALSE]]
    /\ count = [edits |-> 0, frames |-> 0, scripts |-> 0]

(* Bound: a behaviour works on one of the lists, they do not meet.         *)
Alone(k) == \A other \in Kinds \ {k} : list[other] = <<>> /\ shown[other] = <<>>
Free(k) == IdsOf(k) \ {list[k][i] : i \in DOMAIN list[k]}
Listed(k, r) == Contains(list[k], r)
Index(k, r) == CHOOSE i \in DOMAIN list[k] : list[k][i] = r

(* list.pop and list.insert of Python: an index beyond either end is       *)
(* brought back to it, a negative one counts from the end.                 *)
Position(n, i) == IF i >= 0 THEN IF i < n THEN i ELSE n ELSE IF n + i > 0 THEN n + i ELSE 0
Moved(s, r, i) ==
    LET rest == RemoveFirst(s, r) IN InsertAt(rest, Position(Len(rest), i) + 1, r)

Scripting == count.frames + count.scripts > 0
Edit == count.edits < (IF Scripting THEN MaxEdits - 1 ELSE MaxEdits) /\ count' = [count EXCEPT !.edits = @ + 1]
Refreshed(k) == shown' = [shown EXCEPT ![k] = list'[k]] /\ stale' = [stale EXCEPT ![k] = FALSE]

---------------------------------------------------------------------------
(* The Tamper tab.  A modal takes all the input; a button of a table acts  *)
(* on the rule of the selected row as the table was last refreshed.        *)
UiAdd(k) ==
    /\ modal = NoModal /\ Edit /\ Alone(k)
    /\ \E r \in Free(k), f \in FormsOf(k) :
        /\ rule' = [rule EXCEPT ![r] = Created(f)]
        /\ list' = [list EXCEPT ![k] = Append(@, r)]
        /\ click' = Clicked(k, r, "add", f)
    /\ Refreshed(k)
    /\ UNCHANGED <<modal, disk, used>>

(* The modal is handed the rule object of the row, not its id.             *)
OpenEdit(k) ==
    /\ modal = NoModal
    /\ \E i \in DOMAIN shown[k] :
        modal' = [id |-> shown[k][i], kind |-> k, live |-> Listed(k, shown[k][i]) /\ ~stale[k]]
    /\ click' = NoClick
    /\ UNCHANGED <<list, rule, shown, stale, disk, used, count>>

(* An object that is in no list any more takes the edit along.             *)
SaveEdit ==
    /\ modal # NoModal /\ Edit
    /\ \E f \in FormsOf(modal.kind) :
        /\ rule' = IF modal.live THEN [rule EXCEPT ![modal.id] = Edited(@, f)] ELSE rule
        /\ click' = Clicked(modal.kind, modal.id, "edit", f)
    /\ modal' = NoModal
    /\ UNCHANGED <<list, disk, used>>
    /\ Refreshed(modal.kind)

CancelEdit ==
    modal # NoModal /\ modal' = NoModal /\ click' = NoClick /\ UNCHANGED <<list, rule, shown, stale, disk, used, count>>

\* Slip: what is at the row in the list goes, whatever rule that is by now.
UiRemoveByRow(k, r) ==
    /\ \E i \in DOMAIN list[k] \intersect DOMAIN shown[k] : shown[k][i] = r /\ list' = [list EXCEPT ![k] = RemoveAt(@, i)]
    /\ UNCHANGED rule /\ Refreshed(k)
UiRemove(k, r) == list' = [list EXCEPT ![k] = RemoveFirst(@, r)] /\ UNCHANGED rule /\ Refreshed(k)
UiUp(k, r) ==
    /\ IF Listed(k, r) /\ Index(k, r) > 1
       THEN list' = [list EXCEPT ![k] = Moved(@, r, Index(k, r) - 2)] /\ Refreshed(k)
       ELSE UNCHANGED <<list, shown, stale>>
    /\ UNCHANGED rule
UiDown(k, r) ==
    /\ IF Listed(k, r) /\ Index(k, r) < Len(list[k])
       THEN list' = [list EXCEPT ![k] = Moved(@, r, Index(k, r))] /\ Refreshed(k)
       ELSE UNCHANGED <<list, shown, stale>>
    /\ UNCHANGED rule
UiToggle(k, r) ==
    /\ UNCHANGED list
    /\ IF Listed(k, r) THEN rule' = [rule EXCEPT ![r].on = ~@] /\ Refreshed(k) ELSE UNCHANGED <<rule, shown, stale>>
UiReset(k, r) ==
    /\ k = "replace" /\ Listed(k, r) /\ rule[r].type = "script"
    /\ rule' = [rule EXCEPT ![r].module = None]
    /\ used' = [used EXCEPT ![r].reset = TRUE]
    /\ UNCHANGED <<list, shown, stale>>

UiButton(k) ==
    /\ modal = NoModal /\ Edit
    /\ \E i \in DOMAIN shown[k] :
        LET r == shown[k][i] IN
        \/ UiRemove(k, r) /\ click' = Clicked(k, r, "remove", None) /\ UNCHANGED used
        \/ (UiUp(k, r) \/ UiDown(k, r) \/ UiToggle(k, r)) /\ click' = Clicked(k, r, "button", None) /\ UNCHANGED used
        \/ UiReset(k, r) /\ click' = Clicked(k, r, "button", None)
    /\ UNCHANGED <<modal, disk>>

---------------------------------------------------------------------------
(* The tools of the MCP server: they act by id, and refresh no table.      *)
Orphaned(gone) == modal' = IF modal # NoModal /\ modal.id \in gone THEN [modal EXCEPT !.live = FALSE] ELSE modal
ByAi == Edit /\ click' = NoClick /\ UNCHANGED <<shown, stale, disk, used>>

McpAdd(k) ==
    /\ Alone(k)
    /\ \E r \in Free(k), f \in FormsOf(k), s \in {Sessions} \union {{x} : x \in Sessions} :
        /\ ~\E j \in DOMAIN shown[k] : shown[k][j] = r  \* an id is never used again
        /\ modal = NoModal \/ modal.id # r
        /\ f.type = "binary" /\ (k = "replace" => s = Sessions /\ f.scopes = Scopes)
        /\ rule' = [rule EXCEPT ![r] = Created([f EXCEPT !.sessions = s])]
        /\ list' = [list EXCEPT ![k] = Append(@, r)]
    /\ UNCHANGED modal /\ ByAi

McpUpdate(k) ==
    /\ \E i \in DOMAIN list[k], on \in BOOLEAN, action \in {"intercept", "forward"} :
        /\ k = "replace" => action = rule[list[k][i]].action
        /\ rule' = [rule EXCEPT ![list[k][i]].on = on, ![list[k][i]].action = action]
    /\ UNCHANGED <<list, modal>> /\ ByAi

McpRemove(k) ==
    /\ \E i \in DOMAIN list[k] : list' = [list EXCEPT ![k] = RemoveAt(@, i)] /\ Orphaned({list[k][i]})
    /\ UNCHANGED rule /\ ByAi

McpMove(k) ==
    /\ \E i \in DOMAIN list[k], n \in Indices : list' = [list EXCEPT ![k] = Moved(@, @[i], n)]
    /\ UNCHANGED <<rule, modal>> /\ ByAi

McpClear(k) ==
    /\ list' = [list EXCEPT ![k] = <<>>] /\ Orphaned(IdsOf(k))
    /\ UNCHANGED rule /\ ByAi

(* The project is saved and opened again: new objects from what was        *)
(* written.  No table is refreshed: its rows keep the objects they had.    *)
Reopen ==
    /\ modal = NoModal /\ Edit
    /\ rule' = [r \in Ids |-> FromDict(ToDict(rule[r]))]
    /\ stale' = [k \in Kinds |-> TRUE]
    /\ click' = NoClick
    /\ UNCHANGED <<list, shown, modal, disk, used>>

(* A frame passes the rules: each script that applies runs, up to a rule   *)
(* that raises.                                                            *)
ScriptsRun(frame, scope) ==
    {r \in ReplaceIds :
        /\ Scripted(rule[r], frame, scope)
        /\ \E i \in DOMAIN list["replace"] :
            list["replace"][i] = r /\ \A j \in 1 .. i : ~Refuses(rule[list["replace"][j]], frame, scope)}
Frame ==
    /\ count.frames < MaxFrames /\ count.edits < MaxEdits /\ count' = [count EXCEPT !.frames = @ + 1]
    /\ \E ran \in {ScriptsRun(frame, scope) : frame \in Frames, scope \in Scopes} :
        /\ rule' = [r \in Ids |-> IF r \in ran THEN [rule[r] EXCEPT !.module = RunScript(rule[r]).module] ELSE rule[r]]
        /\ used' = [r \in Ids |-> IF r \in ran THEN [version |-> RunScript(rule[r]).used, frame |-> count'.frames,
                                                     reset |-> FALSE]
                                ELSE used[r]]
    /\ click' = NoClick
    /\ UNCHANGED <<list, shown, stale, modal, disk>>

ScriptEdited ==
    /\ count.scripts < MaxScripts /\ count.edits < MaxEdits /\ count' = [count EXCEPT !.scripts = @ + 1]
    /\ disk' \in Versions \ {disk}
    /\ click' = NoClick
    /\ UNCHANGED <<list, rule, shown, stale, modal, used>>

RulesNext ==
    \/ \E k \in Kinds : UiAdd(k) \/ OpenEdit(k) \/ UiButton(k)
                        \/ McpAdd(k) \/ McpUpdate(k) \/ McpRemove(k) \/ McpMove(k) \/ McpClear(k)
    \/ SaveEdit \/ CancelEdit \/ Reopen \/ Frame \/ ScriptEdited

RulesSpec == RulesInit /\ [][RulesNext]_rvars

---------------------------------------------------------------------------
(* What the rules do now they also do after the project is saved and       *)
(* opened again: the decisions of the intercept rules and the bytes made   *)
(* by the replace rules are those of the texts the operator sees, however  *)
(* often a rule was edited and changed its type.  (A script is read anew.) *)
Forgetful(rules) == [i \in DOMAIN rules |-> [rules[i] EXCEPT !.module = None]]
Reloaded(rules) == [i \in DOMAIN rules |-> FromDict(ToDict(rules[i]))]
RestartChangesNothing ==
    \A frame \in Frames :
        /\ ShouldIntercept(Reloaded(Objects("intercept")), frame) = ShouldIntercept(Objects("intercept"), frame)
        /\ \A scope \in Scopes : ApplyAll(Reloaded(Objects("replace")), frame, scope)
                                 = ApplyAll(Forgetful(Objects("replace")), frame, scope)

(* The operator's click touches the rule it was made on and no other, even *)
(* when the table is older than the list: every other rule stays as it is, *)
(* in its place among the others.  What is removed is gone.  What was      *)
(* entered for a rule is what the list holds then, if the rule is still in *)
(* it and the table was refreshed since the project was opened; after that *)
(* the rows hold rule objects that nothing uses any more.                  *)
Before(s, a, b) == \E i, j \in DOMAIN s : i < j /\ s[i] = a /\ s[j] = b
SameOthers(s, q, r) ==
    \A a \in Ids \ {r} : /\ Contains(q, a) <=> Contains(s, a)
                         /\ \A b \in Ids \ {r} : Before(q, a, b) <=> Before(s, a, b)
Carries(r, f) ==
    /\ r.type = f.type /\ r.on = f.on /\ r.dir = f.dir
    /\ \A t \in Textual : f.type = t => r.compiled[t] = Compile(f.text) /\ r.to[t] = f.to
ClickTouchesSelected ==
    [][click'.does # None =>
        /\ \A r \in Ids \ {click'.id} : rule'[r] = rule[r]
        /\ \A k \in Kinds : SameOthers(list[k], list'[k], click'.id)
        /\ click'.does = "remove" => ~Contains(list'[click'.kind], click'.id)
        /\ click'.does = "edit" /\ Listed(click'.kind, click'.id) /\ ~stale[click'.kind]
           => Carries(rule'[click'.id], click'.form)]_rvars

(* After a script failed to load or raised, or the operator reset it, the  *)
(* file as it is then counts for the next frame: a script that failed and  *)
(* was repaired needs no reset, and one that did nothing only needs one.   *)
RepairedScriptIsUsed ==
    [][\A r \in ReplaceIds :
        /\ used'[r].frame # used[r].frame
        /\ used[r].version \in Unloadable \union {"raises"} \/ used[r].reset
        => used'[r].version = disk]_rvars
============================================================================
