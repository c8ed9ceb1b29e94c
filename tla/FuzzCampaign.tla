---------------------------- MODULE FuzzCampaign ----------------------------
(***************************************************************************)
(* FuzzerEngine.run_campaign over ForgeEngine.forge_session: a campaign    *)
(* replays a recorded session once for a baseline and once per iteration   *)
(* with one frame mutated, each replay in a task with a timeout.  Beside   *)
(* it, a one-shot send of the API, which shares the session registry.      *)
(***************************************************************************)
EXTENDS Naturals, Sequences, FiniteSets

CONSTANTS
    Iterations,   \* campaign.iterations
    Mutators,     \* how many mutators the campaign has
    Templates,    \* recorded client frames to choose from: their sequence
                  \* numbers in the order of the log
    MaxSize       \* bound: chunks a server sends on one connection

ASSUME CampaignAssumption ==
    /\ Iterations \in Nat \ {0} /\ Mutators \in Nat /\ MaxSize \in Nat
    /\ Templates \subseteq Seq(Nat)

Replays == 0 .. Iterations          \* 0 is the baseline
Shot == Iterations + 1              \* the session of the one-shot send

VARIABLES
    frames,     \* the recorded session: sequence numbers of its client frames
    deleted,    \* it was removed from the registry
    state,      \* registry: the session of each replay and of the send
    camp,       \* the campaign
    replay,     \* the call of forge_session it waits for
    sent,       \* history: what each replay wrote
    turns,      \* history: how often each mutator was picked
    shot        \* the one-shot send: where it is

vars == <<frames, deleted, state, camp, replay, sent, turns, shot>>

Statuses == {"idle", "running", "stopped", "done"}
NoReplay == [pc |-> "none", n |-> 0, mutated |-> {}, todo |-> <<>>, got |-> 0, success |-> FALSE,
             error |-> "none", timedout |-> FALSE]

Init ==
    /\ frames \in Templates /\ deleted = FALSE
    /\ state = [r \in Replays \cup {Shot} |-> "none"]
    /\ \E crash \in BOOLEAN :
         camp = [pc |-> "idle", status |-> "idle", iteration |-> 0, source |-> <<>>,
                 baseline |-> 0, stop_on_crash |-> crash, results |-> <<>>]
    /\ replay = NoReplay
    /\ sent = [r \in Replays |-> <<>>] /\ turns = [m \in 1 .. Mutators |-> 0]
    /\ shot = "none"

\* Slip: the order of the log.
ByLog(numbers) == [i \in DOMAIN numbers |-> i]

(* sorted(..., key=sequence_number): stable, so ties keep the order of log.*)
Before(numbers, i, j) == numbers[i] < numbers[j] \/ (numbers[i] = numbers[j] /\ i < j)
BySequence(numbers) ==
    CHOOSE order \in [DOMAIN numbers -> DOMAIN numbers] :
        \A i, j \in DOMAIN numbers : i < j => Before(numbers, order[i], order[j])

---------------------------------------------------------------------------
(* A replay, in its own task.  It looks the session up again, so frames    *)
(* captured since the campaign began are sent too.                         *)
Begin(n, mutated) == replay' = [NoReplay EXCEPT !.pc = "begin", !.n = n, !.mutated = mutated]

Fail(why) == replay' = [replay EXCEPT !.pc = "done", !.error = why]

ForgeSession ==
    /\ replay.pc = "begin"
    /\ IF deleted THEN Fail("other") /\ UNCHANGED state
       ELSE /\ state' = [state EXCEPT ![replay.n] = "CONNECTING"]
            /\ replay' = [replay EXCEPT !.pc = "connect",
                   !.todo = [i \in DOMAIN frames |->
                                LET id == BySequence(frames)[i] IN
                                [id |-> id, mutated |-> id \in replay.mutated]]]
    /\ UNCHANGED <<frames, deleted, camp, sent, turns, shot>>

(* "Connection failed" and "Timeout connecting" are told apart by words.   *)
ConnectFails ==
    /\ replay.pc = "connect"
    /\ \E why \in {"connection", "other"} : Fail(why)
    /\ state' = [state EXCEPT ![replay.n] = "CLOSED"]
    /\ UNCHANGED <<frames, deleted, camp, sent, turns, shot>>

Connect ==
    /\ replay.pc = "connect"
    /\ state' = [state EXCEPT ![replay.n] = "ACTIVE"]
    /\ \/ replay' = [replay EXCEPT !.pc = "write"]
       \/ replay' = [replay EXCEPT !.pc = "closed", !.error = "other"]  \* create_framer raised
    /\ UNCHANGED <<frames, deleted, camp, sent, turns, shot>>

Write ==
    /\ replay.pc = "write"
    /\ \/ /\ replay.todo # <<>>
          /\ sent' = [sent EXCEPT ![replay.n] = Append(@, Head(replay.todo))]
          /\ \/ replay' = [replay EXCEPT !.todo = Tail(@)]
             \/ \E why \in {"connection", "other"} :                     \* drain() raises
                    replay' = [replay EXCEPT !.pc = "closing", !.error = why]
       \/ /\ replay.todo = <<>>                                          \* write_eof()
          /\ replay' = [replay EXCEPT !.pc = "read"]
          /\ UNCHANGED sent
    /\ UNCHANGED <<frames, deleted, state, camp, turns, shot>>

(* The response is over at EOF, which the server may never send.           *)
ReadChunk ==
    /\ replay.pc = "read" /\ replay.got < MaxSize
    /\ replay' = [replay EXCEPT !.got = @ + 1]
    /\ UNCHANGED <<frames, deleted, state, camp, sent, turns, shot>>

ReadEnds ==
    /\ replay.pc = "read"
    /\ \/ replay' = [replay EXCEPT !.pc = "closing", !.success = TRUE]
       \/ replay' = [replay EXCEPT !.pc = "closing", !.error = "connection"]
    /\ UNCHANGED <<frames, deleted, state, camp, sent, turns, shot>>

\* Slip: only a replay that ran to its end is marked closed.
ReturnsMarked ==
    /\ replay.pc \in {"closing", "closed"}
    /\ state' = [state EXCEPT ![replay.n] = IF replay.timedout THEN @ ELSE "CLOSED"]
    /\ replay' = [replay EXCEPT !.pc = "done"]
    /\ UNCHANGED <<frames, deleted, camp, sent, turns, shot>>

(* The finally blocks: wait_closed() if there is a connection, and then    *)
(* mark_closed.                                                            *)
Returns ==
    /\ replay.pc \in {"closing", "closed"}
    /\ state' = [state EXCEPT ![replay.n] = "CLOSED"]
    /\ replay' = [replay EXCEPT !.pc = "done"]
    /\ UNCHANGED <<frames, deleted, camp, sent, turns, shot>>

AfterClosing == replay.pc = "closing" /\ Returns
WithoutClosing == replay.pc = "closed" /\ Returns

\* Slip: the timeout covers connecting and sending only.
TimesOutEarly ==
    /\ replay.pc \in {"begin", "connect"} /\ ~replay.timedout
    /\ replay' = [replay EXCEPT !.timedout = TRUE, !.pc = IF @ = "begin" THEN "done" ELSE "closed"]
    /\ UNCHANGED <<frames, deleted, state, camp, sent, turns, shot>>

(* The caller's wait_for expires and cancels the replay where it is.       *)
TimesOut ==
    /\ replay.pc \in {"begin", "connect", "write", "read", "closing"} /\ ~replay.timedout
    /\ replay' = [replay EXCEPT !.timedout = TRUE, !.success = FALSE,
                     !.pc = IF @ = "begin" THEN "done"
                            ELSE IF @ \in {"connect", "closing"} THEN "closed" ELSE "closing"]
    /\ UNCHANGED <<frames, deleted, state, camp, sent, turns, shot>>

---------------------------------------------------------------------------
(* The campaign.  It ends at once without a mutator, session or frame.     *)
RunCampaign ==
    /\ camp.pc = "idle" /\ shot \in {"none", "done", "raised"}
    /\ IF Mutators = 0 \/ deleted \/ frames = <<>>
       THEN /\ camp' = [camp EXCEPT !.pc = "done", !.status = "done"]
            /\ UNCHANGED replay
       ELSE /\ camp' = [camp EXCEPT !.pc = "baseline", !.status = "running",
                                    !.source = BySequence(frames)]
            /\ Begin(0, {})
    /\ UNCHANGED <<frames, deleted, state, sent, turns, shot>>

MeasureBaseline ==
    /\ camp.pc = "baseline" /\ replay.pc = "done"
    /\ camp' = [camp EXCEPT !.pc = "loop", !.baseline = IF replay.success THEN replay.got ELSE 0]
    /\ replay' = NoReplay
    /\ UNCHANGED <<frames, deleted, state, sent, turns, shot>>

Picked(k) == ((k - 1) % Mutators) + 1

\* Slip: the turn of a mutator that has nothing to offer goes to the next frame only.
IterateSameMutator ==
    LET next == camp.iteration + 1
        m == Picked(Len(camp.results) + 1)
    IN
    /\ camp.pc = "loop" /\ next <= Iterations /\ camp.status # "stopped"
    /\ camp' = [camp EXCEPT !.iteration = next]
    /\ turns' = [turns EXCEPT ![m] = @ + 1]
    /\ UNCHANGED <<frames, deleted, state, replay, sent, shot>>

(* One iteration: frame and mutator of the round; a mutator that raises or *)
(* returns None uses its turn up.                                          *)
Iterate ==
    LET next == camp.iteration + 1 IN
    /\ camp.pc = "loop" /\ next <= Iterations /\ camp.status # "stopped"
    /\ turns' = [turns EXCEPT ![Picked(next)] = @ + 1]
    /\ \/ camp' = [camp EXCEPT !.iteration = next] /\ UNCHANGED replay
       \/ /\ camp' = [camp EXCEPT !.iteration = next, !.pc = "send"]
          /\ Begin(next, {camp.source[((next - 1) % Len(camp.source)) + 1]})
    /\ UNCHANGED <<frames, deleted, state, sent, shot>>

(* FuzzResult.create: a size 20% off a known baseline is of interest.      *)
Interesting(reset, timedout, size, baseline) ==
    \/ reset \/ timedout
    \/ size >= 0 /\ baseline > 0 /\ (5 * size > 6 * baseline \/ 5 * size < 4 * baseline)

Result(n, size) ==
    LET reset == ~replay.timedout /\ replay.error = "connection" IN
    [iteration |-> n, reset |-> reset, timedout |-> replay.timedout,
     interesting |-> Interesting(reset, replay.timedout,
                                 IF replay.success THEN size ELSE 0,
                                 IF replay.success THEN camp.baseline ELSE 0)]

\* Slip: a crash is looked for in the results before this one.
SendMutatedLate ==
    /\ camp.pc = "send" /\ replay.pc = "done"
    /\ LET crashed == \E i \in DOMAIN camp.results : camp.results[i].reset IN
       camp' = [camp EXCEPT !.results = Append(@, Result(camp.iteration, replay.got)),
                            !.pc = "loop",
                            !.status = IF camp.stop_on_crash /\ crashed THEN "stopped" ELSE @]
    /\ replay' = NoReplay
    /\ UNCHANGED <<frames, deleted, state, sent, turns, shot>>

(* _send_mutated has its answer: record it, and stop on a crash.           *)
SendMutated ==
    /\ camp.pc = "send" /\ replay.pc = "done"
    /\ LET result == Result(camp.iteration, replay.got) IN
       camp' = [camp EXCEPT !.results = Append(@, result), !.pc = "loop",
                            !.status = IF camp.stop_on_crash /\ result.reset THEN "stopped" ELSE @]
    /\ replay' = NoReplay
    /\ UNCHANGED <<frames, deleted, state, sent, turns, shot>>

Finish ==
    /\ camp.pc = "loop" /\ (camp.iteration = Iterations \/ camp.status = "stopped")
    /\ camp' = [camp EXCEPT !.pc = "done", !.status = IF @ = "stopped" THEN @ ELSE "done"]
    /\ UNCHANGED <<frames, deleted, state, replay, sent, turns, shot>>

(* The owner of the campaign object stops it.                              *)
Stop ==
    /\ camp.pc \in {"baseline", "loop", "send"} /\ camp.status = "running"
    /\ camp' = [camp EXCEPT !.status = "stopped"]
    /\ UNCHANGED <<frames, deleted, state, replay, sent, turns, shot>>

(* The recorded session may still be live, and may be deleted.             *)
Capture ==
    /\ ~deleted /\ camp.pc \in {"baseline", "send"} /\ frames \in Templates /\ frames # <<>>
    /\ frames' = Append(frames, Len(frames))
    /\ UNCHANGED <<deleted, state, camp, replay, sent, turns, shot>>

Delete ==
    /\ ~deleted /\ camp.pc \in {"idle", "baseline", "send"} /\ shot = "none"
    /\ deleted' = TRUE
    /\ UNCHANGED <<frames, state, camp, replay, sent, turns, shot>>

---------------------------------------------------------------------------
(* send_frame without a session: create, publish, send, log, close.  The   *)
(* engine answers most failures with a result; it may also raise, as for a *)
(* port that is none, and the caller's task may be cancelled.  The send    *)
(* and the campaign share only the registry: the model runs one after the  *)
(* other.                                                                  *)
OneShot ==
    /\ shot = "none" /\ camp.pc = "idle" /\ frames # <<>>
    /\ shot' = "publish" /\ state' = [state EXCEPT ![Shot] = "ACTIVE"]
    /\ UNCHANGED <<frames, deleted, camp, replay, sent, turns>>

OneShotSends ==
    /\ shot = "publish" /\ shot' = "send"
    /\ UNCHANGED <<frames, deleted, state, camp, replay, sent, turns>>

OneShotReturns ==
    /\ shot = "send" /\ shot' = "log"
    /\ UNCHANGED <<frames, deleted, state, camp, replay, sent, turns>>

OneShotLogged ==
    /\ shot = "log"
    /\ shot' = "done" /\ state' = [state EXCEPT ![Shot] = "CLOSED"]
    /\ UNCHANGED <<frames, deleted, camp, replay, sent, turns>>

OneShotRaises ==
    /\ shot \in {"publish", "send", "log"}
    /\ shot' = "raised"
    /\ UNCHANGED <<frames, deleted, state, camp, replay, sent, turns>>

ReplayProceeds ==
    ForgeSession \/ ConnectFails \/ Connect \/ Write \/ WithoutClosing \/ TimesOut
ReplayStep == ReplayProceeds \/ AfterClosing
CampaignStep == RunCampaign \/ MeasureBaseline \/ Iterate \/ SendMutated \/ Finish
OneShotStep == OneShot \/ OneShotSends \/ OneShotReturns \/ OneShotLogged \/ OneShotRaises
Environment == ReadChunk \/ ReadEnds \/ Stop \/ Capture \/ Delete

Next == ReplayStep \/ CampaignStep \/ OneShotStep \/ Environment

(* The target reads what it is sent, or is gone: wait_closed() waits until *)
(* the rest of the request is sent, and runs after the only cancellation.  *)
TargetReads == WF_vars(AfterClosing)

(* Tasks that can run do, and timers fire; the target need not answer, and *)
(* need not close, but read.                                               *)
Spec == /\ Init /\ [][Next]_vars
        /\ WF_vars(ReplayProceeds) /\ WF_vars(CampaignStep) /\ TargetReads

---------------------------------------------------------------------------
(* No replay leaves a session that is not CLOSED behind, however it ended: *)
(* a live one would count against max_sessions for ever                    *)
(* (forge/engine.py:404).                                                  *)
ReplaysClosed ==
    \A r \in Replays :
        state[r] \in {"CONNECTING", "ACTIVE"} => replay.n = r /\ replay.pc \notin {"none", "done"}

(* What a replay writes is the recorded session in the order of its        *)
(* sequence numbers, with at most the frame of its turn mutated, although  *)
(* frames are read anew for every replay (forge/engine.py:357).            *)
OneMutation ==
    \A r \in Replays :
        /\ \A i, j \in DOMAIN sent[r] :
               i < j => LET a == sent[r][i].id
                            b == sent[r][j].id
                        IN  frames[a] < frames[b] \/ (frames[a] = frames[b] /\ a < b)
        /\ Cardinality({i \in DOMAIN sent[r] : sent[r][i].mutated}) <= (IF r = 0 THEN 0 ELSE 1)

(* api.py:1646: each mutator gets an equal number of turns, skipped or not.*)
RoundRobin == \A m, k \in 1 .. Mutators : turns[m] <= turns[k] + 1

(* With stop_on_crash nothing is sent after a reset (fuzzing/engine.py:227)*)
CrashStops ==
    camp.stop_on_crash =>
        \A i \in DOMAIN camp.results : camp.results[i].reset =>
            i = Len(camp.results) /\ camp.pc \in {"loop", "done"} /\ camp.status = "stopped"

(* A campaign ends even if the target answers nothing and never closes:    *)
(* the replay that waits for EOF is cut off (forge/engine.py:457).  It may *)
(* not if the target does not even read (TargetReads).                     *)
CampaignEnds == (camp.pc # "idle") ~> (camp.pc = "done" /\ camp.status \in {"done", "stopped"})

(* A replay is the recorded session with one frame mutated, and leaves no  *)
(* live session behind.                                                    *)
ReplaysAreSound == ReplaysClosed /\ OneMutation

(* The mutators take turns, and a crash can be made to end them.           *)
TurnsAreKept == RoundRobin /\ CrashStops

(* api.py:1164: a one-shot send "opens a fresh connection to host:port,    *)
(* sends data, drains replies, and closes": its session is over with it.   *)
OneShotCloses == shot \in {"done", "raised"} => state[Shot] = "CLOSED"
=============================================================================
