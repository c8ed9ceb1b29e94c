----------------------------- MODULE VerdictGate -----------------------------
(***************************************************************************)
(* What a tamper controller promises the relays that call process(): every *)
(* unit either passes straight through, or is held, receives exactly one   *)
(* verdict, and is handed back to its relay with that verdict.  A relay    *)
(* whose task is cancelled abandons the unit it was waiting for.           *)
(*                                                                         *)
(* TamperController implements this specification; SessionRelay composes   *)
(* it with the two relays of a session.                                    *)
(***************************************************************************)
CONSTANT Unit      \* the intercepted units (one per call of process)

VARIABLES stage,   \* how far each unit has come
          verdict  \* the InterceptAction of each unit that was decided

gateVars == <<stage, verdict>>

Action == {"FORWARD", "DROP", "MODIFIED"}

Stage == {"new", "held", "decided", "released", "abandoned"}

NoVerdict == "none"

GateInit == /\ stage = [u \in Unit |-> "new"]
            /\ verdict = [u \in Unit |-> NoVerdict]

\* A unit outside the controller's scope is returned at once, to be forwarded.
Pass(u) == /\ stage[u] = "new"
           /\ stage' = [stage EXCEPT ![u] = "released"]
           /\ verdict' = [verdict EXCEPT ![u] = "FORWARD"]

Hold(u) == /\ stage[u] = "new"
           /\ stage' = [stage EXCEPT ![u] = "held"]
           /\ UNCHANGED verdict

\* One decision settles any number of held units: a single one when the
\* operator names it, all of them on forward_all, disable and shutdown.
Decide(U, a) ==
    /\ U # {}
    /\ \A u \in U : stage[u] = "held"
    /\ stage' = [u \in Unit |-> IF u \in U THEN "decided" ELSE stage[u]]
    /\ verdict' = [u \in Unit |-> IF u \in U THEN a ELSE verdict[u]]

Release(u) == /\ stage[u] = "decided"
              /\ stage' = [stage EXCEPT ![u] = "released"]
              /\ UNCHANGED verdict

\* Cancelled relays abandon what they wait for; one cancellation reaches both
\* relays of a session.
Abandon(U) ==
    /\ U # {}
    /\ \A u \in U : stage[u] \in {"held", "decided"}
    /\ stage' = [u \in Unit |-> IF u \in U THEN "abandoned" ELSE stage[u]]
    /\ UNCHANGED verdict

GateNext == \/ \E u \in Unit : Pass(u) \/ Hold(u) \/ Release(u)
            \/ \E U \in SUBSET Unit : Abandon(U) \/ \E a \in Action : Decide(U, a)

GateSpec == GateInit /\ [][GateNext]_gateVars
==============================================================================
