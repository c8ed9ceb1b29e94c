-------------------------- MODULE TamperController ---------------------------
(***************************************************************************)
(* QueuedTamperController (protopoke/tamper/controller.py): relays call    *)
(* process() and wait on a future; an operator resolves the future with a  *)
(* verdict.  Everything runs on one asyncio loop, so each action is the    *)
(* code between two awaits that really suspend: the queue is unbounded, so *)
(* its put() does not suspend and a hold is one step.                      *)
(*                                                                         *)
(* A definition that begins "Slip:" is no part of the specification: it is *)
(* a mistake the next definition could contain, used to see the property   *)
(* that forbids it fail.                                                   *)
(***************************************************************************)
EXTENDS Sequences, FiniteSets

CONSTANTS Unit,         \* units, one per call of process()
          Session,      \* session ids
          Direction,    \* the two directions of a session
          SessionOf,    \* the session of a unit's frame
          DirectionOf,  \* the direction of a unit's frame
          SessionSets,  \* session filters an operator sets
          RuleSets,     \* intercept filters, each the set of units it selects
          NoFilter      \* None: the filter is not set

ASSUME UnitAssumption ==
    /\ SessionOf \in [Unit -> Session]
    /\ DirectionOf \in [Unit -> Direction]
    /\ SessionSets \subseteq SUBSET Session
    /\ RuleSets \subseteq SUBSET Unit
    /\ NoFilter \notin Direction
    /\ NoFilter \notin SessionSets
    /\ NoFilter \notin RuleSets

VARIABLES
    tamper_enabled, direction_filter, session_filter, intercept_filter,
    pending,         \* units in the _pending dictionary
    future,          \* state of each unit's asyncio.Future
    action,          \* unit.action
    incoming_queue,  \* _incoming_queue, consumed by get_pending()
    proc,            \* where each process() coroutine stands
    cancelled,       \* units whose relay task received task.cancel()
    accepted         \* history: the verdict each future was resolved with

filterVars == <<tamper_enabled, direction_filter, session_filter,
                intercept_filter>>
vars == <<filterVars, pending, future, action, incoming_queue, proc,
          cancelled, accepted>>

Verdict == {"FORWARD", "DROP", "MODIFIED"}
NoVerdict == "none"

TypeOK ==
    /\ tamper_enabled \in BOOLEAN
    /\ direction_filter \in Direction \cup {NoFilter}
    /\ session_filter \in SessionSets \cup {NoFilter}
    /\ intercept_filter \in RuleSets \cup {NoFilter}
    /\ pending \subseteq Unit
    /\ future \in [Unit -> {"none", "unresolved", "resolved", "cancelled"}]
    /\ action \in [Unit -> Verdict]
    /\ incoming_queue \in Seq(Unit)
    /\ proc \in [Unit -> {"idle", "waiting", "returned", "raised"}]
    /\ cancelled \subseteq Unit
    /\ accepted \in [Unit -> Verdict \cup {NoVerdict}]

Init ==
    /\ tamper_enabled \in BOOLEAN
    /\ direction_filter = NoFilter
    /\ session_filter = NoFilter
    /\ intercept_filter = NoFilter
    /\ pending = {}
    /\ future = [u \in Unit |-> "none"]
    /\ action = [u \in Unit |-> "FORWARD"]
    /\ incoming_queue = <<>>
    /\ proc = [u \in Unit |-> "idle"]
    /\ cancelled = {}
    /\ accepted = [u \in Unit |-> NoVerdict]

------------------------------------------------------------------------------
(* process(), called by a relay                                             *)

\* The master switch and the three filters, in the order process() asks them.
Intercepts(u) ==
    /\ tamper_enabled
    /\ direction_filter \in {NoFilter, DirectionOf[u]}
    /\ session_filter # NoFilter => SessionOf[u] \in session_filter
    /\ intercept_filter # NoFilter => u \in intercept_filter

\* Slip: a frame nobody holds leaves without an action.
PassThroughUnset(u) ==
    /\ proc[u] = "idle"
    /\ ~Intercepts(u)
    /\ action' = [action EXCEPT ![u] = NoVerdict]
    /\ proc' = [proc EXCEPT ![u] = "returned"]
    /\ UNCHANGED <<filterVars, pending, future, incoming_queue, cancelled,
                   accepted>>

PassThrough(u) ==
    /\ proc[u] = "idle"
    /\ ~Intercepts(u)
    /\ action' = [action EXCEPT ![u] = "FORWARD"]
    /\ proc' = [proc EXCEPT ![u] = "returned"]
    /\ UNCHANGED <<filterVars, pending, future, incoming_queue, cancelled,
                   accepted>>

Hold(u) ==
    /\ proc[u] = "idle"
    /\ Intercepts(u)
    /\ pending' = pending \cup {u}
    /\ future' = [future EXCEPT ![u] = "unresolved"]
    /\ incoming_queue' = Append(incoming_queue, u)
    /\ proc' = [proc EXCEPT ![u] = "waiting"]
    /\ UNCHANGED <<filterVars, action, cancelled, accepted>>

\* The loop runs the task that awaited a finished future: process() returns
\* the unit, or raises when the task was cancelled meanwhile; both pop it.
Resume(u) ==
    /\ proc[u] = "waiting"
    /\ future[u] \in {"resolved", "cancelled"}
    /\ proc' = [proc EXCEPT ![u] = IF u \in cancelled THEN "raised"
                                                      ELSE "returned"]
    /\ pending' = pending \ {u}
    /\ UNCHANGED <<filterVars, future, action, incoming_queue, cancelled,
                   accepted>>

\* task.cancel() on a relay waiting here.  It cancels the future; when the
\* future is already resolved it is remembered and delivered at the wake-up.
CancelTask(u) ==
    /\ proc[u] = "waiting"
    /\ u \notin cancelled
    /\ cancelled' = cancelled \cup {u}
    /\ future' = [future EXCEPT ![u] = IF @ = "unresolved" THEN "cancelled"
                                                           ELSE @]
    /\ UNCHANGED <<filterVars, pending, action, incoming_queue, proc, accepted>>

------------------------------------------------------------------------------
(* The operator                                                             *)

\* The pending units whose future is not done(): the ones a verdict reaches.
Undecided == {u \in pending : future[u] = "unresolved"}

Resolve(U, a) ==
    /\ action' = [u \in Unit |-> IF u \in U THEN a ELSE action[u]]
    /\ future' = [u \in Unit |-> IF u \in U THEN "resolved" ELSE future[u]]
    /\ accepted' = [u \in Unit |-> IF u \in U THEN a ELSE accepted[u]]

\* Slip: the unit's action is assigned before future.done() is asked.
SetVerdictUnchecked(u, a) ==
    /\ u \in pending
    /\ action' = [action EXCEPT ![u] = a]
    /\ future' = [future EXCEPT ![u] = IF u \in Undecided THEN "resolved" ELSE @]
    /\ accepted' = [accepted EXCEPT ![u] = IF u \in Undecided THEN a ELSE @]
    /\ UNCHANGED <<filterVars, pending, incoming_queue, proc, cancelled>>

\* set_verdict() returning True (returning False changes nothing).
SetVerdict(u, a) ==
    /\ u \in Undecided
    /\ Resolve({u}, a)
    /\ UNCHANGED <<filterVars, pending, incoming_queue, proc, cancelled>>

\* forward_all(): forward() for every id in a snapshot of _pending.
ForwardAll ==
    /\ Undecided # {}
    /\ Resolve(Undecided, "FORWARD")
    /\ UNCHANGED <<filterVars, pending, incoming_queue, proc, cancelled>>

\* Slip: the dictionary is cleared before its futures are resolved.
ForwardAllPendingCleared ==
    /\ pending' = {}
    /\ UNCHANGED <<action, future, accepted>>

\* _forward_all_pending(): resolve everything, then clear the dictionary.
ForwardAllPending ==
    /\ Resolve(Undecided, "FORWARD")
    /\ pending' = {}

Shutdown == /\ ForwardAllPending
            /\ UNCHANGED <<filterVars, incoming_queue, proc, cancelled>>

Enable == /\ tamper_enabled' = TRUE
          /\ UNCHANGED <<direction_filter, session_filter, intercept_filter,
                         pending, future, action, incoming_queue, proc,
                         cancelled, accepted>>

\* Slip: only the switch is turned.
DisableOnly == /\ tamper_enabled' = FALSE
               /\ UNCHANGED <<direction_filter, session_filter,
                              intercept_filter, pending, future, action,
                              incoming_queue, proc, cancelled, accepted>>

Disable == /\ tamper_enabled' = FALSE
           /\ ForwardAllPending
           /\ UNCHANGED <<direction_filter, session_filter, intercept_filter,
                          incoming_queue, proc, cancelled>>

\* The three filter setters assign and touch nothing that is already held.
SetFilters ==
    /\ \/ /\ direction_filter' \in Direction \cup {NoFilter}
          /\ UNCHANGED <<session_filter, intercept_filter>>
       \/ /\ session_filter' \in SessionSets \cup {NoFilter}
          /\ UNCHANGED <<direction_filter, intercept_filter>>
       \/ /\ intercept_filter' \in RuleSets \cup {NoFilter}
          /\ UNCHANGED <<direction_filter, session_filter>>
    /\ UNCHANGED <<tamper_enabled, pending, future, action, incoming_queue,
                   proc, cancelled, accepted>>

\* get_pending(): the queue keeps units that were settled in the meantime.
GetPending ==
    /\ incoming_queue # <<>>
    /\ incoming_queue' = Tail(incoming_queue)
    /\ UNCHANGED <<filterVars, pending, future, action, proc, cancelled,
                   accepted>>

------------------------------------------------------------------------------
Relays == \E u \in Unit : PassThrough(u) \/ Hold(u) \/ Resume(u) \/ CancelTask(u)

Operator == \/ \E u \in Unit, a \in Verdict : SetVerdict(u, a)
            \/ ForwardAll \/ Shutdown \/ Enable \/ Disable \/ SetFilters
            \/ GetPending

Next == Relays \/ Operator

Spec == Init /\ [][Next]_vars

\* asyncio runs every task whose future is done; nothing else is assumed:
\* the operator may never answer.
LoopFairness == \A u \in Unit : WF_vars(Resume(u))

FairSpec == Spec /\ LoopFairness

------------------------------------------------------------------------------
(* Properties                                                               *)

\* The relay acts on the first verdict: once a future is done, neither a
\* later verdict nor a bulk forward (forward_all, disable, shutdown) changes
\* the action of the unit its relay is about to read.
VerdictIsFinal ==
    [][\A u \in Unit : future[u] \in {"resolved", "cancelled"} =>
          /\ action'[u] = action[u]
          /\ future'[u] = future[u]
          /\ accepted'[u] = accepted[u]]_vars

\* The unit process() returns carries the verdict that was accepted for it,
\* and FORWARD when it was never held.
ReturnsAcceptedVerdict ==
    \A u \in Unit : proc[u] = "returned" =>
        action[u] = IF future[u] = "none" THEN "FORWARD" ELSE accepted[u]

\* A relay never waits on a future that no verdict can reach any more: while
\* its future is open, the unit is found in _pending under its id.
WaitingIsReachable ==
    \A u \in Unit : proc[u] = "waiting" /\ future[u] = "unresolved"
                        => u \in pending

\* The setter's promise "When disabled, all currently pending frames are
\* immediately forwarded": it must also hold for a process() racing with it.
NothingHeldWhileDisabled == ~tamper_enabled => Undecided = {}

\* The setter's promise seen from the relay: once interception is off, every
\* waiting relay gets going again without any help from the operator.
DisableReleases ==
    \A u \in Unit : (proc[u] = "waiting" /\ ~tamper_enabled)
                        ~> proc[u] # "waiting"

\* The controller implements the gate the relays rely on: one verdict per
\* held unit, handed back unchanged, abandoned only on cancellation.
StageOf(u) ==
    CASE proc[u] = "idle"     -> "new"
      [] proc[u] = "returned" -> "released"
      [] proc[u] = "raised"   -> "abandoned"
      [] proc[u] = "waiting"  -> IF u \in cancelled THEN "abandoned"
                                 ELSE IF future[u] = "unresolved" THEN "held"
                                 ELSE "decided"

VerdictOf(u) == IF proc[u] = "returned" THEN action[u] ELSE accepted[u]

Gate == INSTANCE VerdictGate WITH stage   <- [u \in Unit |-> StageOf(u)],
                                  verdict <- [u \in Unit |-> VerdictOf(u)]

ImplementsGate == Gate!GateSpec
------------------------------------------------------------------------------
(* The inductive invariant of the proofs.                                  *)
\* A unit's coroutine, its future, its dictionary entry and its verdict agree.
UnitInv(u) ==
    /\ proc[u] = "idle" => future[u] = "none"
    /\ future[u] = "none" => /\ action[u] = "FORWARD"
                             /\ proc[u] \in {"idle", "returned"}
                             /\ u \notin cancelled
    /\ future[u] = "unresolved" => /\ proc[u] = "waiting"
                                   /\ u \in pending
                                   /\ u \notin cancelled
    /\ future[u] = "cancelled" => u \in cancelled
    /\ future[u] = "resolved" <=> accepted[u] # NoVerdict
    /\ future[u] = "resolved" => action[u] = accepted[u]
    /\ proc[u] = "returned" => u \notin cancelled
    /\ proc[u] = "raised" => u \in cancelled

IInv == /\ TypeOK
        /\ \A u \in Unit : UnitInv(u)
        /\ NothingHeldWhileDisabled
==============================================================================
