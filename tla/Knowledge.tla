----------------------------- MODULE Knowledge -----------------------------
(***************************************************************************)
(* The knowledge base: findings and notes, written by the operator in the  *)
(* Notes tab and by an AI client through the MCP server.  An entry has an  *)
(* author and a lock; the AI is refused unless it is the author and the    *)
(* entry is not locked.                                                    *)
(***************************************************************************)
EXTENDS Integers, Sequences, SequencesExt

CONSTANTS
    Entries,        \* ids of entries
    Texts,          \* what an entry says (title, description, scope, tags, ...)
    Statuses,       \* FINDING_STATUSES and something else, to be refused
    ValidStatuses,
    MaxWork         \* bound: operations on the knowledge base

NoEntry == "no entry"
NoForm == [id |-> NoEntry, new |-> FALSE, text |-> "", locked |-> FALSE]

VARIABLES
    notes,     \* KnowledgeBase.findings and .notes, one list of ids
    entry,     \* the entry objects; the modal holds one, in the list or not
    rows,      \* NotesTab._row_to_id
    selected,  \* NotesTab._selected_id
    form,      \* the edit modal: its entry and what was in the widgets
    asking,    \* the confirmation of a deletion is open
    lastBy,    \* who last wrote what each entry says
    work       \* operations so far

kvars == <<notes, entry, rows, selected, form, asking, lastBy, work>>

Written(author, locked, text, status) == [author |-> author, locked |-> locked, text |-> text, status |-> status]
Has(e) == Contains(notes, e)

BlankEntries == [e \in Entries |-> Written("ai", FALSE, CHOOSE t \in Texts : TRUE, "hypothesis")]

KnowledgeInit ==
    /\ notes = <<>> /\ rows = <<>>
    /\ entry = BlankEntries
    /\ selected = NoEntry /\ form = NoForm /\ asking = FALSE
    /\ lastBy = [e \in Entries |-> "ai"]
    /\ work = 0

Worked == work < MaxWork /\ work' = work + 1
Screen == form = NoForm /\ ~asking       \* no modal takes the input
Fresh == Entries \ (ToSet(notes) \union {rows[i] : i \in DOMAIN rows} \union {form.id})

(* refresh_table: the highlighted entry stays so if it is still there.     *)
Refresh(keep) ==
    /\ rows' = notes'
    /\ selected' = IF Contains(notes', keep) THEN keep ELSE NoEntry

---------------------------------------------------------------------------
(* The Notes tab.                                                          *)
Highlight ==
    /\ Screen
    /\ \E i \in DOMAIN rows : selected # rows[i] /\ selected' = rows[i]
    /\ UNCHANGED <<notes, entry, rows, form, asking, lastBy, work>>

RefreshTable ==  \* the filter or the view is changed
    /\ Screen /\ UNCHANGED notes /\ Refresh(selected)
    /\ UNCHANGED <<entry, form, asking, lastBy, work>>

OpenNew ==
    /\ Screen
    /\ \E e \in Fresh, t \in Texts : form' = [id |-> e, new |-> TRUE, text |-> t, locked |-> TRUE]
    /\ UNCHANGED <<notes, entry, rows, selected, asking, lastBy, work>>

(* The widgets are filled from the entry when the modal opens; "Locked"    *)
(* among them.                                                             *)
OpenEdit ==
    /\ Screen /\ selected # NoEntry /\ Has(selected)
    /\ form' = [id |-> selected, new |-> FALSE, text |-> entry[selected].text, locked |-> entry[selected].locked]
    /\ UNCHANGED <<notes, entry, rows, selected, asking, lastBy, work>>

\* Slip: an entry that was removed while it was edited stays removed.
SaveForgets ==
    /\ form # NoForm /\ Worked
    /\ \E t \in Texts, s \in ValidStatuses, lock \in BOOLEAN :
        /\ entry' = [entry EXCEPT ![form.id] = Written(IF form.new THEN "user" ELSE @.author, form.new \/ lock, t, s)]
        /\ lastBy' = [lastBy EXCEPT ![form.id] = "user"]
    /\ notes' = IF form.new THEN Append(notes, form.id) ELSE notes
    /\ Refresh(form.id) /\ form' = NoForm
    /\ UNCHANGED asking

(* The operator may have changed any widget.  The modal writes into the    *)
(* entry object; the tab puts it into the list unless it is there.         *)
Save ==
    /\ form # NoForm /\ Worked
    /\ \E t \in Texts, s \in ValidStatuses, lock \in BOOLEAN :
        /\ entry' = [entry EXCEPT ![form.id] = Written(IF form.new THEN "user" ELSE @.author, form.new \/ lock, t, s)]
        /\ lastBy' = [lastBy EXCEPT ![form.id] = "user"]
    /\ notes' = IF Has(form.id) THEN notes ELSE Append(notes, form.id)
    /\ Refresh(form.id) /\ form' = NoForm
    /\ UNCHANGED asking

Cancel ==
    /\ form # NoForm /\ form' = NoForm
    /\ UNCHANGED <<notes, entry, rows, selected, asking, lastBy, work>>

AskDelete ==
    /\ Screen /\ selected # NoEntry /\ asking' = TRUE
    /\ UNCHANGED <<notes, entry, rows, selected, form, lastBy, work>>

AnswerDelete ==
    /\ asking /\ asking' = FALSE
    /\ \/ /\ Worked
          /\ notes' = RemoveFirst(notes, selected)
          /\ Refresh(NoEntry)
       \/ UNCHANGED <<notes, rows, selected, work>>
    /\ UNCHANGED <<entry, form, lastBy>>

---------------------------------------------------------------------------
(* The tools of the MCP server.                                            *)
AiCanMutate(e) == Has(e) /\ entry[e].author = "ai" /\ ~entry[e].locked
ByAi == Worked /\ UNCHANGED <<rows, selected, form, asking>>

AiAdd ==
    /\ \E e \in Fresh, t \in Texts, s \in Statuses \intersect ValidStatuses :
        /\ entry' = [entry EXCEPT ![e] = Written("ai", FALSE, t, s)]
        /\ notes' = Append(notes, e)
        /\ lastBy' = [lastBy EXCEPT ![e] = "ai"]
    /\ ByAi

(* update_finding: a status that is none is refused, before anything of    *)
(* the entry is written.                                                   *)
AiUpdate ==
    /\ \E e \in Entries, t \in Texts, s \in Statuses :
        /\ AiCanMutate(e) /\ s \in ValidStatuses
        /\ entry' = [entry EXCEPT ![e].text = t, ![e].status = s]
        /\ lastBy' = [lastBy EXCEPT ![e] = "ai"]
    /\ UNCHANGED notes /\ ByAi

AiRemove ==
    /\ \E e \in Entries : AiCanMutate(e) /\ notes' = RemoveFirst(notes, e)
    /\ UNCHANGED <<entry, lastBy>> /\ ByAi

KnowledgeNext ==
    \/ Highlight \/ RefreshTable \/ OpenNew \/ OpenEdit \/ Save \/ Cancel \/ AskDelete \/ AnswerDelete
    \/ AiAdd \/ AiUpdate \/ AiRemove

---------------------------------------------------------------------------
(* The operator's word is final: what the operator wrote last is changed   *)
(* or removed by the operator alone.  (The modal takes the lock from its   *)
(* switch, which shows the entry's old lock: false for the AI's entries.)  *)
ByOperator == (asking /\ ~asking') \/ (form # NoForm /\ form' = NoForm)
OperatorsWordIsFinal ==
    [][\A e \in Entries :
        work' > work /\ lastBy[e] = "user" /\ Has(e) /\ ~ByOperator
        => entry'[e] = entry[e] /\ Contains(notes', e)]_kvars

(* It is when the operator left the lock on, in spite of whatever the AI   *)
(* did while the modal or the confirmation was open: an entry that the     *)
(* operator wrote and locked stays as written, from the moment the modal   *)
(* is saved, and is listed once.                                           *)
LockedWordIsFinal ==
    [][work' > work =>
       /\ \A e \in Entries :
            /\ lastBy[e] = "user" /\ entry[e].locked /\ Has(e) /\ ~ByOperator
               => entry'[e] = entry[e] /\ Contains(notes', e)
            /\ lastBy'[e] = "user" /\ entry'[e] # entry[e] => Contains(notes', e)
       /\ IsInjective(notes')]_kvars
============================================================================
