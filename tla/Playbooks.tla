----------------------------- MODULE Playbooks ------------------------------
(***************************************************************************)
(* The Forge tab as the editor of playbooks that may be running: the list  *)
(* of playbooks, the frames of the current one, the text editor of the     *)
(* selected frame, the messages by which the tables report their cursors,  *)
(* and the workers that go through the frames.                             *)
(***************************************************************************)
EXTENDS Naturals, Sequences, SequencesExt, FiniteSets

CONSTANTS
    Books,      \* identities of playbooks
    FrameIds,   \* identities of frames
    Texts,      \* texts of frames
    Typed,      \* texts the operator types
    Opened,     \* projects that may be opened: playbooks, their frames, the texts
    Unborn,     \* the text of a frame that was never in a playbook
    Bad,        \* a text that is neither hex nor a legal STR text
    MaxOps,     \* bound: operations on the tab
    MaxTasks,   \* bound: clicks on Run or Send
    MaxQueued   \* bound: cursor messages of one table under way

ASSUME PlaybooksAssumption ==
    /\ Typed \cup {"", Unborn} \subseteq Texts /\ Unborn \notin Typed \cup {""}
    /\ \A p \in Opened :
        /\ p.books \in Seq(Books) /\ p.frames \in [Books -> Seq(FrameIds)] /\ p.texts \in [FrameIds -> Texts]
        /\ p.books # <<>> /\ p.frames[p.books[1]] # <<>>
        /\ \A i, j \in DOMAIN p.books : p.books[i] = p.books[j] => i = j
        /\ \A b, c \in Books : \A i \in DOMAIN p.frames[b], j \in DOMAIN p.frames[c] :
              p.frames[b][i] = p.frames[c][j] => b = c /\ i = j
        /\ \A b \in Books : \A i \in DOMAIN p.frames[b] : p.texts[p.frames[b][i]] # Unborn

Tasks == 1 .. MaxTasks
Tables == {"books", "frames", "history"}

VARIABLES
    books,     \* ForgeTab._playbooks
    frames,    \* Playbook.frames
    hex,       \* PlaybookFrame.raw_hex
    tab,       \* the selection and the editor
    moved,     \* RowHighlighted messages not yet handled, by table
    pane,      \* tasks with entries in the traffic table; rows of the history table
    runs,      \* Playbook.runs
    running,   \* ForgeTab._running
    task,      \* the workers
    meant,     \* history: what the operator last saw or typed for each frame
    past       \* history: the playbooks there were and the number of operations

bvars == <<books, frames, hex, tab, moved, pane, runs, running, task, meant, past>>

NoTask == [pc |-> "none", kind |-> "run", book |-> 0, only |-> <<>>, at |-> 1, sent |-> <<>>,
           cancelled |-> FALSE, began |-> <<>>, kept |-> {}, touched |-> FALSE]
Ongoing(w) == task[w].pc \in {"start", "wait"}

(* A project with playbooks was opened and everything has settled.         *)
BooksInit ==
    /\ \E p \in Opened :
         LET first == p.frames[p.books[1]] IN
         /\ books = p.books /\ frames = p.frames /\ hex = p.texts /\ meant = p.texts
         /\ tab = [current |-> 1, selected |-> 1, anchor |-> 1, cursor |-> 1, extending |-> FALSE,
                   chosen |-> <<first[1]>>, rows |-> first, editor |-> p.texts[first[1]], mode |-> "hex"]
    /\ moved = [t \in Tables |-> <<>>]
    /\ pane = [traffic |-> {}, history |-> <<>>]
    /\ runs = [b \in Books |-> <<>>] /\ running = FALSE
    /\ task = [w \in Tasks |-> NoTask] /\ past = [books |-> ToSet(books), ops |-> 0]

---------------------------------------------------------------------------
Book == books[tab.current]
Selected == IF tab.current = 0 \/ tab.selected = 0 THEN {} ELSE {frames[Book][tab.selected]}
Fresh == {f \in FrameIds : meant[f] = Unborn}
Post(m, table, id) == [m EXCEPT ![table] = Append(@, id)]
Room == \A t \in Tables : Len(moved[t]) < MaxQueued
Op == past.ops < MaxOps /\ Room
      /\ past' = [books |-> past.books \cup ToSet(books), ops |-> past.ops + 1]

(* _save_frame_editor: a text that is no legal STR text is not saved.      *)
Saved == [f \in FrameIds |-> IF f \in Selected /\ ~(tab.mode = "str" /\ tab.editor = Bad)
                             THEN tab.editor ELSE hex[f]]
Touched(b) == [w \in Tasks |->
    IF Ongoing(w) /\ task[w].book = b
    THEN [task[w] EXCEPT !.touched = TRUE, !.kept = @ \cap ToSet(frames'[b])] ELSE task[w]]

(* _refresh_frames_list for a list of frames: the cursor goes to the first *)
(* row, which the table reports, and then to the row asked for.            *)
Refresh(t, list, row) ==
    [t EXCEPT !.rows = list, !.anchor = 0, !.chosen = <<>>, !.cursor = IF row = 0 THEN 1 ELSE row]
Reported(m, list, row) ==
    LET first == IF list = <<>> THEN m ELSE Post(m, "frames", list[1])
    IN  IF row > 1 THEN Post(first, "frames", list[row]) ELSE first
Loaded(t, list, i) == [t EXCEPT !.selected = i, !.editor = IF i = 0 THEN "" ELSE hex'[list[i]]]

(* _switch_playbook, with the playbooks and frames there are then.         *)
Switch(t, i) ==
    LET list == frames'[books'[i]] IN
    /\ tab' = [Refresh(t, list, 0) EXCEPT !.current = i, !.selected = 0, !.editor = ""]
    /\ pane' = [traffic |-> {}, history |-> [k \in DOMAIN runs'[books'[i]] |-> runs'[books'[i]][k].task]]
    /\ running' = FALSE

---------------------------------------------------------------------------
(* Playbooks come from the dialog, an import or the Traffic tab.           *)
AddBook ==
    /\ Op
    /\ \E b \in Books \ (past.books \cup ToSet(books)), new \in {<<>>} \cup {<<f>> : f \in Fresh}, text \in Typed \ {Bad} :
         /\ books' = Append(books, b)
         /\ frames' = [frames EXCEPT ![b] = new]
         /\ hex' = [f \in FrameIds |-> IF f \in ToSet(new) THEN text ELSE Saved[f]]
         /\ meant' = [f \in FrameIds |-> IF f \in ToSet(new) THEN text ELSE meant[f]]
         /\ moved' = Post(Reported(moved, new, 0), "books", b)
    /\ UNCHANGED <<runs, task>>
    /\ Switch(tab, Len(books) + 1)

(* What is in the editor goes with the playbook; a worker keeps running.   *)
DeleteBook ==
    /\ tab.current # 0
    /\ books' = RemoveAt(books, tab.current) /\ Op
    /\ UNCHANGED <<frames, hex, runs, task, meant>>
    /\ IF books' = <<>>
       THEN /\ tab' = [Refresh(tab, <<>>, 0) EXCEPT !.current = 0, !.selected = 0, !.editor = ""]
            /\ pane' = [traffic |-> {}, history |-> <<>>] /\ UNCHANGED <<running, moved>>
       ELSE LET i == IF tab.current < Len(books) THEN tab.current ELSE Len(books) - 1 IN
            /\ Switch(tab, i)
            /\ moved' = Post(Reported(moved, frames[books'[i]], 0), "books", books'[i])

---------------------------------------------------------------------------
(* Frames.                                                                 *)
AddBlank ==
    /\ Op /\ tab.current # 0
    /\ \E f \in Fresh :
         LET i == IF tab.selected = 0 THEN Len(frames[Book]) + 1 ELSE tab.selected + 1
             list == InsertAt(frames[Book], i, f) IN
         /\ frames' = [frames EXCEPT ![Book] = list]
         /\ hex' = [Saved EXCEPT ![f] = ""] /\ meant' = [meant EXCEPT ![f] = ""]
         /\ tab' = Loaded(Refresh(tab, list, i), list, i)
         /\ moved' = Reported(moved, list, i)
    /\ task' = Touched(Book)
    /\ UNCHANGED <<books, pane, runs, running>>

\* Slip: the editor is not reloaded with the frame that moves up.
RemoveFrameKeepsText ==
    /\ Op /\ Selected # {}
    /\ LET list == RemoveAt(frames[Book], tab.selected)
           i == IF tab.selected <= Len(list) THEN tab.selected ELSE Len(list) IN
       /\ frames' = [frames EXCEPT ![Book] = list]
       /\ hex' = hex
       /\ tab' = [Refresh(tab, list, i) EXCEPT !.selected = i]
       /\ moved' = Reported(moved, list, i)
    /\ task' = Touched(Book)
    /\ UNCHANGED <<books, pane, runs, running, meant>>

RemoveFrame ==
    /\ Op /\ Selected # {}
    /\ LET list == RemoveAt(frames[Book], tab.selected)
           i == IF tab.selected <= Len(list) THEN tab.selected ELSE Len(list) IN
       /\ frames' = [frames EXCEPT ![Book] = list]
       /\ hex' = hex
       /\ tab' = Loaded(Refresh(tab, list, i), list, i)
       /\ moved' = Reported(moved, list, i)
    /\ task' = Touched(Book)
    /\ UNCHANGED <<books, pane, runs, running, meant>>

MoveFrame(j) ==
    /\ Op /\ Selected # {} /\ j \in {tab.selected - 1, tab.selected + 1} \cap DOMAIN frames[Book]
    /\ LET i == tab.selected
           list == [frames[Book] EXCEPT ![i] = frames[Book][j], ![j] = frames[Book][i]] IN
       /\ frames' = [frames EXCEPT ![Book] = list]
       /\ hex' = Saved
       /\ tab' = [Refresh(tab, list, j) EXCEPT !.selected = j]
       /\ moved' = Reported(moved, list, j)
    /\ task' = Touched(Book)
    /\ UNCHANGED <<books, pane, runs, running, meant>>

(* The copies are made of the frames chosen when the dialog is answered.   *)
CopyFrames ==
    /\ Op /\ tab.current # 0
    /\ \E target \in ToSet(books) \ {Book}, copy \in Fresh, f \in ToSet(frames[Book]) :
         /\ {f} = IF Len(tab.chosen) > 1 THEN ToSet(frames[Book]) \cap ToSet(tab.chosen) ELSE Selected
         /\ frames' = [frames EXCEPT ![target] = Append(@, copy)]
         /\ hex' = [Saved EXCEPT ![copy] = Saved[f]]
         /\ meant' = [meant EXCEPT ![copy] = Saved[f]]
         /\ task' = Touched(target)
    /\ UNCHANGED <<books, tab, moved, pane, runs, running>>

---------------------------------------------------------------------------
(* The editor and its two modes, of which STR cannot be left with a text   *)
(* that is not legal.                                                      *)
Type ==
    /\ Op /\ Selected # {}
    /\ \E text \in Typed \ {tab.editor} :
         /\ tab' = [tab EXCEPT !.editor = text]
         /\ meant' = [f \in FrameIds |-> IF f \in Selected THEN text ELSE meant[f]]
    /\ task' = [w \in Tasks |-> [task[w] EXCEPT !.touched = @ \/ (Ongoing(w) /\ task[w].book = Book)]]
    /\ UNCHANGED <<books, frames, hex, moved, pane, runs, running>>
SetMode ==
    /\ Op /\ ~(tab.mode = "str" /\ tab.editor = Bad)
    /\ tab' = [tab EXCEPT !.mode = IF @ = "hex" THEN "str" ELSE "hex"]
    /\ UNCHANGED <<books, frames, hex, moved, pane, runs, running, task, meant>>

(* Cursor keys; with Shift they extend the selection, and the flag stays   *)
(* when the cursor is at the end already.                                  *)
CursorTo(row, shift) ==
    /\ Op /\ tab.current # 0
    /\ row \in DOMAIN tab.rows \/ shift
    /\ shift => row \in {tab.cursor - 1, tab.cursor + 1}
    /\ tab' = [tab EXCEPT !.extending = @ \/ shift, !.cursor = IF row \in DOMAIN tab.rows THEN row ELSE @]
    /\ row # tab.cursor
    /\ moved' = IF row \in DOMAIN tab.rows THEN Post(moved, "frames", tab.rows[row]) ELSE moved
    /\ UNCHANGED <<books, frames, hex, pane, runs, running, task, meant>>
BookCursorTo ==
    /\ Op
    /\ \E b \in ToSet(books) \ {books[i] : i \in {tab.current} \ {0}} : moved' = Post(moved, "books", b)
    /\ UNCHANGED <<books, frames, hex, tab, pane, runs, running, task, meant>>
CancelSelection ==
    /\ Op /\ Len(tab.chosen) > 1
    /\ tab' = [tab EXCEPT !.chosen = <<IF tab.anchor \in DOMAIN tab.rows THEN tab.rows[tab.anchor]
                                       ELSE frames[Book][tab.selected]>>]
    /\ UNCHANGED <<books, frames, hex, moved, pane, runs, running, task, meant>>

(* on_data_table_row_highlighted, of the three tables.                     *)
Next1(table) == moved[table] # <<>> /\ moved' = [moved EXCEPT ![table] = Tail(@)]
BookHighlighted ==
    /\ Next1("books") /\ UNCHANGED <<books, frames, runs, task, meant, past>>
    /\ LET i == {k \in DOMAIN books : books[k] = Head(moved["books"])} \ {tab.current} IN
       IF i = {} THEN UNCHANGED <<hex, tab, pane, running>>
       ELSE \E k \in i : hex' = Saved /\ Switch(tab, k)

\* Slip: the text is not saved before the next frame is loaded.
FrameHighlightedUnsaved ==
    /\ Next1("frames")
    /\ LET i == {k \in DOMAIN tab.rows : tab.rows[k] = Head(moved["frames"])} IN
       /\ hex' = hex
       /\ IF i = {} \/ tab.current = 0 THEN tab' = [tab EXCEPT !.extending = FALSE]
          ELSE LET k == CHOOSE k \in i : TRUE
                   t == [tab EXCEPT !.extending = FALSE, !.anchor = k, !.chosen = <<tab.rows[k]>>]
               IN  tab' = IF k = tab.selected THEN t ELSE Loaded(t, frames[Book], k)
    /\ UNCHANGED <<books, frames, pane, runs, running, task, meant, past>>
FrameHighlighted ==
    /\ Next1("frames")
    /\ LET i == {k \in DOMAIN tab.rows : tab.rows[k] = Head(moved["frames"])} IN
       IF i = {} \/ tab.current = 0 THEN tab' = [tab EXCEPT !.extending = FALSE] /\ hex' = hex
       ELSE LET k == CHOOSE k \in i : TRUE
                lo == IF k < tab.anchor THEN k ELSE tab.anchor
                hi == IF k < tab.anchor THEN tab.anchor ELSE k
                t == [tab EXCEPT !.extending = FALSE, !.anchor = k, !.chosen = <<tab.rows[k]>>] IN
            IF tab.extending /\ tab.anchor # 0
            THEN /\ tab' = [tab EXCEPT !.extending = FALSE, !.chosen = SubSeq(tab.rows, lo, hi)]
                 /\ hex' = hex
            ELSE IF k = tab.selected THEN tab' = t /\ hex' = hex
            ELSE hex' = Saved /\ tab' = Loaded(t, frames[Book], k)
    /\ UNCHANGED <<books, frames, pane, runs, running, task, meant, past>>
(* on_data_table_row_selected: Enter or a second click on a row.           *)
FrameSelected ==
    /\ Op /\ tab.current # 0 /\ tab.cursor \in DOMAIN tab.rows
    /\ hex' = Saved
    /\ tab' = Loaded(tab, frames[Book], tab.cursor)
    /\ UNCHANGED <<books, frames, moved, pane, runs, running, task, meant>>
Of(b) == {runs[b][k].task : k \in DOMAIN runs[b]}
RunHighlighted ==
    /\ Next1("history")
    /\ pane' = IF tab.current # 0 /\ Head(moved["history"]) \in Of(Book)
               THEN [pane EXCEPT !.traffic = {Head(moved["history"])}] ELSE pane
    /\ UNCHANGED <<books, frames, hex, tab, runs, running, task, meant, past>>

---------------------------------------------------------------------------
(* Run and Send; a click cancels the worker of the click before.           *)
Begun(kind, only, list, texts) ==
    \E w \in Tasks :
      /\ task[w].pc = "none" /\ \A v \in Tasks : v < w => task[v].pc # "none"
      /\ task' = [v \in Tasks |->
            IF v = w THEN [NoTask EXCEPT !.pc = "start", !.kind = kind, !.book = Book, !.only = only,
                                         !.began = [i \in DOMAIN list |-> texts[list[i]]], !.kept = ToSet(list)]
            ELSE [task[v] EXCEPT !.cancelled = @ \/ Ongoing(v)]]
\* Slip: what is in the editor is not saved before the run.
DoRunUnsaved ==
    /\ Op /\ tab.current # 0 /\ frames[Book] # <<>>
    /\ hex' = hex
    /\ Begun("run", <<>>, frames[Book], meant)
    /\ running' = TRUE /\ pane' = [pane EXCEPT !.traffic = {}]
    /\ UNCHANGED <<books, frames, tab, moved, runs, meant>>
DoRun ==
    /\ Op /\ tab.current # 0 /\ frames[Book] # <<>>
    /\ hex' = Saved
    /\ Begun("run", <<>>, frames[Book], meant)
    /\ running' = TRUE /\ pane' = [pane EXCEPT !.traffic = {}]
    /\ UNCHANGED <<books, frames, tab, moved, runs, meant>>
SendSelected ==
    /\ Op /\ ~running
    /\ hex' = Saved
    /\ \E f \in Selected : Begun("send", <<f>>, <<f>>, meant)
    /\ pane' = [pane EXCEPT !.traffic = {}]
    /\ UNCHANGED <<books, frames, tab, moved, runs, running, meant>>
Stop == Op /\ running /\ running' = FALSE
        /\ UNCHANGED <<books, frames, hex, tab, moved, pane, runs, task, meant>>

List(w) == IF task[w].kind = "send" THEN task[w].only ELSE frames[task[w].book]
Ends(w) == /\ task' = [task EXCEPT ![w].pc = "done"]
           /\ running' = IF task[w].kind = "run" THEN FALSE ELSE running
Shows(w) == pane' = IF task[w].kind = "send" \/ running THEN [pane EXCEPT !.traffic = @ \cup {w}] ELSE pane

(* The answers to the last frame are entered and the next frame is sent.   *)
(* The frames are those the playbook has now.                              *)
SendNext(w) ==
    /\ Ongoing(w) /\ ~task[w].cancelled /\ task[w].at <= Len(List(w))
    /\ LET f == List(w)[task[w].at] IN
       IF hex[f] = Bad THEN Ends(w) /\ UNCHANGED pane
       ELSE /\ task' = [task EXCEPT ![w].pc = "wait", ![w].at = @ + 1,
                                    ![w].sent = Append(@, [frame |-> f, text |-> hex[f]])]
            /\ Shows(w) /\ UNCHANGED running
    /\ UNCHANGED <<books, frames, hex, tab, moved, runs, meant, past>>
\* Slip: the run goes into the history of the playbook that is shown.
FinishesShown(w) ==
    /\ Ongoing(w) /\ ~task[w].cancelled /\ task[w].at > Len(List(w)) /\ tab.current # 0
    /\ runs' = [runs EXCEPT ![Book] = Append(@, [task |-> w, sent |-> task[w].sent])]
    /\ pane' = [pane EXCEPT !.history = Append(@, w)]
    /\ Ends(w)
    /\ UNCHANGED <<books, frames, hex, tab, moved, meant, past>>
Finishes(w) ==
    /\ Ongoing(w) /\ ~task[w].cancelled /\ task[w].at > Len(List(w))
    /\ runs' = [runs EXCEPT ![task[w].book] = Append(@, [task |-> w, sent |-> task[w].sent])]
    /\ IF tab.current = 0 THEN UNCHANGED <<pane, moved>>
       ELSE LET rows == Append(pane.history, w)
                row == Len(runs'[Book]) IN
            /\ pane' = [traffic |-> IF task[w].kind = "send" \/ running
                                    THEN pane.traffic \cup {w} ELSE pane.traffic, history |-> rows]
            /\ moved' = IF row \in DOMAIN rows THEN Post(moved, "history", rows[row]) ELSE moved
    /\ Ends(w)
    /\ UNCHANGED <<books, frames, hex, tab, meant, past>>
SendFails(w) ==
    /\ task[w].pc = "wait" /\ ~task[w].cancelled
    /\ Ends(w)
    /\ UNCHANGED <<books, frames, hex, tab, moved, pane, runs, meant, past>>
Cancelled(w) ==
    /\ Ongoing(w) /\ task[w].cancelled
    /\ Ends(w)
    /\ UNCHANGED <<books, frames, hex, tab, moved, pane, runs, meant, past>>

BooksNext ==
    \/ AddBook \/ DeleteBook \/ AddBlank \/ RemoveFrame \/ CopyFrames
    \/ \E j \in 1 .. Cardinality(FrameIds) : MoveFrame(j)
    \/ Type \/ SetMode \/ BookCursorTo \/ CancelSelection
    \/ \E row \in 0 .. Cardinality(FrameIds), shift \in BOOLEAN : CursorTo(row, shift)
    \/ BookHighlighted \/ FrameHighlighted \/ FrameSelected \/ RunHighlighted
    \/ DoRun \/ SendSelected \/ Stop
    \/ \E w \in Tasks : SendNext(w) \/ Finishes(w) \/ SendFails(w) \/ Cancelled(w)
BooksSpec == BooksInit /\ [][BooksNext]_bvars

---------------------------------------------------------------------------
(* What the operator typed for a frame is kept for that frame, and for no  *)
(* other (_save_frame_editor and its callers), whatever is selected,       *)
(* moved, removed, switched to or reported late by a table: in the editor  *)
(* while the frame is selected, and in the frame afterwards.  Only a text  *)
(* that is not legal STR is given up.  The rows of the table are the       *)
(* frames of the playbook.                                                 *)
EditsStay ==
    /\ tab.current # 0 => tab.rows = frames[Book] /\ tab.selected <= Len(frames[Book])
    /\ \A b \in ToSet(books) : \A f \in ToSet(frames[b]) :
         meant[f] # Bad => meant[f] = IF f \in Selected THEN tab.editor ELSE hex[f]

(* A run that nobody edits under sends every frame of its playbook, in the *)
(* order and with the texts shown when it was started.                     *)
RunSendsWhatIsShown ==
    \A b \in Books : \A k \in DOMAIN runs[b] :
      LET t == task[runs[b][k].task] IN
      ~t.touched /\ Bad \notin ToSet(t.began)
      => t.began = [i \in DOMAIN t.sent |-> t.sent[i].text]

(* The history of a playbook has its own runs, each once, and only those   *)
(* that went through all frames: not one that was cancelled or failed.     *)
RunsAreWhole ==
    \A b \in Books : \A k \in DOMAIN runs[b] :
      LET w == runs[b][k].task IN
      /\ task[w].pc = "done" /\ task[w].book = b /\ ~task[w].cancelled
      /\ runs[b][k].sent = task[w].sent
      /\ \A j \in DOMAIN runs[b] \ {k} : runs[b][j].task # w

(* A run sends every frame, in the order and with the texts shown when it  *)
(* was started, and is entered once, in the history of its own playbook    *)
(* (_do_run and _async_run).                                               *)
RunsAreFaithful == RunSendsWhatIsShown /\ RunsAreWhole

(* "executes all frames in order": a frame that is in the playbook from    *)
(* the click to the end of the run is sent, once.  Not so: the run walks   *)
(* the list that the operator may edit.                                    *)
RunSendsEveryFrame ==
    \A b \in Books : \A k \in DOMAIN runs[b] :
      LET t == task[runs[b][k].task] IN
      \A f \in t.kept : Cardinality({i \in DOMAIN t.sent : t.sent[i].frame = f}) = 1

(* "Resetting here": what the traffic table shows belongs to the playbook  *)
(* that is shown.  Not so: a single frame under way is still shown after   *)
(* another playbook was switched to.                                       *)
TrafficIsOfPlaybook ==
    tab.current # 0 => \A w \in pane.traffic : task[w].book = Book
=============================================================================
