------------------------------ MODULE TabsProofs ------------------------------
(***************************************************************************)
(* Theorems about what the Tamper tab and the Forge tab work on: the       *)
(* controller that holds the intercepted units (Unit ... SessionSets), the *)
(* replace and intercept rules, and the playbooks, for any number of       *)
(* units, rules, frames, runs and edits.  Each part has its own inductive  *)
(* invariant: IInv, RulesIInv and BooksIInv.                               *)
(***************************************************************************)
EXTENDS MCTabs, TamperController, SequenceTheorems, WellFoundedInduction, TLAPS

(* The Tamper controller.  IInv, of TamperController, is inductive.        *)

\* Every step keeps the variables in their types, whatever the constants.
LEMMA TypeStep == TypeOK /\ [Next]_vars => TypeOK'
<1> SUFFICES ASSUME TypeOK, [Next]_vars PROVE TypeOK'
  OBVIOUS
<1> USE DEF TypeOK, filterVars, Verdict, NoVerdict
<1>1. ASSUME NEW u \in Unit, PassThrough(u) PROVE TypeOK'
  BY <1>1 DEF PassThrough
<1>2. ASSUME NEW u \in Unit, Hold(u) PROVE TypeOK'
  BY <1>2 DEF Hold
<1>3. ASSUME NEW u \in Unit, Resume(u) PROVE TypeOK'
  BY <1>3 DEF Resume
<1>4. ASSUME NEW u \in Unit, CancelTask(u) PROVE TypeOK'
  BY <1>4 DEF CancelTask
<1>5. ASSUME NEW u \in Unit, NEW a \in Verdict, SetVerdict(u, a) PROVE TypeOK'
  BY <1>5 DEF SetVerdict, Resolve
<1>6. CASE ForwardAll
  BY <1>6 DEF ForwardAll, Resolve
<1>7. CASE Shutdown
  BY <1>7 DEF Shutdown, ForwardAllPending, Resolve
<1>8. CASE Enable
  BY <1>8 DEF Enable
<1>9. CASE Disable
  BY <1>9 DEF Disable, ForwardAllPending, Resolve
<1>10. CASE SetFilters
  BY <1>10 DEF SetFilters
<1>11. CASE GetPending
  BY <1>11 DEF GetPending
<1>12. CASE UNCHANGED vars
  BY <1>12 DEF vars
<1> QED
  BY <1>1, <1>2, <1>3, <1>4, <1>5, <1>6, <1>7, <1>8, <1>9, <1>10, <1>11,
     <1>12 DEF Next, Relays, Operator

\* The variables of the controller always have their types.
THEOREM TypeCorrect == Spec => []TypeOK
<1>1. Init => TypeOK
  BY DEF Init, TypeOK, Verdict, NoVerdict
<1>2. QED
  BY <1>1, TypeStep, PTL DEF Spec

\* Resolving undecided units keeps UnitInv for every unit, as long as only
\* units without an open future leave the dictionary.
LEMMA ResolveKeeps ==
  ASSUME TypeOK, \A u \in Unit : UnitInv(u),
         NEW U \in SUBSET Undecided, NEW a \in Verdict, Resolve(U, a),
         UNCHANGED <<proc, cancelled>>,
         \A u \in Undecided \ U : u \in pending'
  PROVE  \A u \in Unit : UnitInv(u)'
<1> SUFFICES ASSUME NEW u \in Unit PROVE UnitInv(u)'
  OBVIOUS
<1>1. CASE u \in U
  <2>1. future[u] = "unresolved" /\ UnitInv(u)
    BY <1>1 DEF Undecided
  <2> QED
    BY <1>1, <2>1 DEF Resolve, UnitInv, TypeOK, Verdict, NoVerdict
<1>2. CASE u \notin U
  <2>1. action'[u] = action[u] /\ future'[u] = future[u] /\ accepted'[u] = accepted[u]
    BY <1>2 DEF Resolve
  <2>2. future[u] = "unresolved" => u \in pending'
    BY <1>2 DEF Undecided, UnitInv
  <2> QED
    BY <2>1, <2>2 DEF UnitInv
<1> QED
  BY <1>1, <1>2

(* At the start nothing is held and no future exists. *)
LEMMA IInvInit == Init => IInv
BY DEF Init, IInv, TypeOK, UnitInv, NothingHeldWhileDisabled, Undecided,
       Verdict, NoVerdict

(* Every action keeps the inductive invariant. *)
LEMMA IInvStep == IInv /\ [Next]_vars => IInv'
<1> SUFFICES ASSUME IInv, [Next]_vars PROVE IInv'
  OBVIOUS
<1>t. TypeOK /\ TypeOK' /\ \A u \in Unit : UnitInv(u)
  BY TypeStep DEF IInv
<1> SUFFICES (\A v \in Unit : UnitInv(v)') /\ NothingHeldWhileDisabled'
  BY <1>t DEF IInv
<1>n. NothingHeldWhileDisabled
  BY DEF IInv
<1>1. ASSUME NEW u \in Unit, PassThrough(u)
      PROVE (\A v \in Unit : UnitInv(v)') /\ NothingHeldWhileDisabled'
  BY <1>1, <1>t, <1>n DEF PassThrough, UnitInv, TypeOK, filterVars,
                          NothingHeldWhileDisabled, Undecided
<1>2. ASSUME NEW u \in Unit, Hold(u)
      PROVE (\A v \in Unit : UnitInv(v)') /\ NothingHeldWhileDisabled'
  <2>1. tamper_enabled'
    BY <1>2 DEF Hold, Intercepts, filterVars
  <2>2. \A v \in Unit : UnitInv(v)'
    BY <1>2, <1>t DEF Hold, UnitInv, TypeOK, NoVerdict
  <2> QED
    BY <2>1, <2>2 DEF NothingHeldWhileDisabled
<1>3. ASSUME NEW u \in Unit, Resume(u)
      PROVE (\A v \in Unit : UnitInv(v)') /\ NothingHeldWhileDisabled'
  BY <1>3, <1>t, <1>n DEF Resume, UnitInv, TypeOK, filterVars,
                          NothingHeldWhileDisabled, Undecided
<1>4. ASSUME NEW u \in Unit, CancelTask(u)
      PROVE (\A v \in Unit : UnitInv(v)') /\ NothingHeldWhileDisabled'
  BY <1>4, <1>t, <1>n DEF CancelTask, UnitInv, TypeOK, filterVars,
                          NothingHeldWhileDisabled, Undecided
<1>5. ASSUME NEW u \in Unit, NEW a \in Verdict, SetVerdict(u, a)
      PROVE (\A v \in Unit : UnitInv(v)') /\ NothingHeldWhileDisabled'
  <2>1. {u} \in SUBSET Undecided /\ pending' = pending
    BY <1>5 DEF SetVerdict
  <2>2. \A v \in Unit : UnitInv(v)'
    BY <1>5, <2>1, <1>t, ResolveKeeps DEF SetVerdict, Undecided
  <2>3. NothingHeldWhileDisabled'
    BY <1>5, <2>1, <1>n DEF SetVerdict, Resolve, NothingHeldWhileDisabled,
                            Undecided, filterVars
  <2> QED
    BY <2>2, <2>3
<1>6. CASE ForwardAll
  <2>1. \A v \in Unit : UnitInv(v)'
    BY <1>6, <1>t, ResolveKeeps DEF ForwardAll, Verdict
  <2>2. Undecided' = {}
    BY <1>6, <1>t DEF ForwardAll, Resolve, Undecided, TypeOK
  <2> QED
    BY <2>1, <2>2 DEF NothingHeldWhileDisabled
<1>7. CASE Shutdown \/ Disable
  <2>1. /\ Resolve(Undecided, "FORWARD") /\ pending' = {}
        /\ UNCHANGED <<proc, cancelled>>
    BY <1>7 DEF Shutdown, Disable, ForwardAllPending
  <2>2. \A v \in Unit : UnitInv(v)'
    BY <2>1, <1>t, ResolveKeeps DEF Verdict
  <2> QED
    BY <2>1, <2>2 DEF NothingHeldWhileDisabled, Undecided
<1>8. CASE Enable
  BY <1>8, <1>t DEF Enable, UnitInv, NothingHeldWhileDisabled
<1>9. CASE SetFilters \/ GetPending \/ UNCHANGED vars
  <2>1. UNCHANGED <<tamper_enabled, pending, future, action, proc, cancelled,
                    accepted>>
    BY <1>9 DEF SetFilters, GetPending, vars, filterVars
  <2> QED
    BY <2>1, <1>t, <1>n DEF UnitInv, NothingHeldWhileDisabled, Undecided
<1> QED
  BY <1>1, <1>2, <1>3, <1>4, <1>5, <1>6, <1>7, <1>8, <1>9
  DEF Next, Relays, Operator

(* The inductive invariant holds in every reachable state. *)
LEMMA IInvCorrect == Spec => []IInv
BY IInvInit, IInvStep, PTL DEF Spec

\* No relay waits on a future that a verdict cannot reach.
THEOREM WaitingReachable == Spec => []WaitingIsReachable
<1>1. IInv => WaitingIsReachable
  BY DEF IInv, UnitInv, WaitingIsReachable
<1> QED
  BY <1>1, IInvCorrect, PTL

\* With interception off nothing is held, however process(), the setter and
\* the operator interleave.
THEOREM DisabledHoldsNothing == Spec => []NothingHeldWhileDisabled
<1>1. IInv => NothingHeldWhileDisabled
  BY DEF IInv
<1> QED
  BY <1>1, IInvCorrect, PTL

\* process() returns the verdict that was accepted for the unit.
THEOREM ReturnsVerdict == Spec => []ReturnsAcceptedVerdict
<1>1. IInv => ReturnsAcceptedVerdict
  BY DEF IInv, UnitInv, TypeOK, ReturnsAcceptedVerdict
<1> QED
  BY <1>1, IInvCorrect, PTL

\* A done future is done for good: neither a second verdict nor a bulk forward
\* changes the action its relay is about to read.
THEOREM VerdictFinal == Spec => VerdictIsFinal
<1> DEFINE Kept == \A u \in Unit : future[u] \in {"resolved", "cancelled"} =>
                      /\ action'[u] = action[u]
                      /\ future'[u] = future[u]
                      /\ accepted'[u] = accepted[u]
<1>1. ASSUME IInv, [Next]_vars PROVE [Kept]_vars
  <2> SUFFICES ASSUME NEW v \in Unit, future[v] \in {"resolved", "cancelled"}
               PROVE  /\ action'[v] = action[v]
                      /\ future'[v] = future[v]
                      /\ accepted'[v] = accepted[v]
    OBVIOUS
  <2>t. TypeOK /\ UnitInv(v) /\ v \notin Undecided
    BY <1>1 DEF IInv, Undecided
  <2>1. ASSUME NEW u \in Unit, PassThrough(u) \/ Hold(u) \/ Resume(u) \/ CancelTask(u)
        PROVE  /\ action'[v] = action[v]
               /\ future'[v] = future[v]
               /\ accepted'[v] = accepted[v]
    BY <2>1, <2>t DEF PassThrough, Hold, Resume, CancelTask, TypeOK, UnitInv
  <2>2. ASSUME NEW u \in Unit, NEW a \in Verdict, SetVerdict(u, a)
        PROVE  /\ action'[v] = action[v]
               /\ future'[v] = future[v]
               /\ accepted'[v] = accepted[v]
    BY <2>2, <2>t DEF SetVerdict, Resolve
  <2>3. CASE ForwardAll \/ Shutdown \/ Disable
    BY <2>3, <2>t DEF ForwardAll, Shutdown, Disable, ForwardAllPending, Resolve
  <2>4. CASE Enable \/ SetFilters \/ GetPending \/ UNCHANGED vars
    BY <2>4 DEF Enable, SetFilters, GetPending, vars
  <2> QED
    BY <1>1, <2>1, <2>2, <2>3, <2>4 DEF Next, Relays, Operator
<1>2. QED
  BY <1>1, IInvCorrect, PTL DEF Spec, VerdictIsFinal

------------------------------------------------------------------------------
(* The controller implements the gate                                       *)

\* The initial states of the controller are initial states of the gate.
LEMMA GateInitially == Init => Gate!GateInit
BY DEF Init, Gate!GateInit, Gate!NoVerdict, NoVerdict, StageOf, VerdictOf

\* Each step of the controller is a step of the gate or leaves it unchanged.
LEMMA GateStep == IInv /\ IInv' /\ [Next]_vars => [Gate!GateNext]_Gate!gateVars
<1> SUFFICES ASSUME IInv, IInv', [Next]_vars
             PROVE  Gate!GateNext \/ UNCHANGED Gate!gateVars
  OBVIOUS
<1>t. TypeOK /\ TypeOK' /\ (\A u \in Unit : UnitInv(u)) /\ (\A u \in Unit : UnitInv(u)')
  BY DEF IInv
<1>1. ASSUME NEW u \in Unit, PassThrough(u) PROVE Gate!Pass(u)
  <2>1. \A v \in Unit \ {u} : StageOf(v)' = StageOf(v) /\ VerdictOf(v)' = VerdictOf(v)
    BY <1>1, <1>t DEF PassThrough, StageOf, VerdictOf, TypeOK
  <2>2. /\ StageOf(u) = "new" /\ StageOf(u)' = "released"
        /\ VerdictOf(u)' = "FORWARD"
    BY <1>1, <1>t DEF PassThrough, StageOf, VerdictOf, TypeOK
  <2> QED
    BY <2>1, <2>2 DEF Gate!Pass
<1>2. ASSUME NEW u \in Unit, Hold(u) PROVE Gate!Hold(u)
  <2>1. \A v \in Unit \ {u} : StageOf(v)' = StageOf(v) /\ VerdictOf(v)' = VerdictOf(v)
    BY <1>2, <1>t DEF Hold, StageOf, VerdictOf, TypeOK
  <2>2. StageOf(u) = "new" /\ StageOf(u)' = "held" /\ VerdictOf(u)' = VerdictOf(u)
    BY <1>2, <1>t DEF Hold, StageOf, VerdictOf, TypeOK, UnitInv
  <2> QED
    BY <2>1, <2>2 DEF Gate!Hold
<1>3. ASSUME NEW u \in Unit, Resume(u), u \notin cancelled PROVE Gate!Release(u)
  <2>1. \A v \in Unit \ {u} : StageOf(v)' = StageOf(v) /\ VerdictOf(v)' = VerdictOf(v)
    BY <1>3, <1>t DEF Resume, StageOf, VerdictOf, TypeOK
  <2>2. StageOf(u) = "decided" /\ StageOf(u)' = "released" /\ VerdictOf(u)' = VerdictOf(u)
    BY <1>3, <1>t DEF Resume, StageOf, VerdictOf, TypeOK, UnitInv
  <2> QED
    BY <2>1, <2>2 DEF Gate!Release
<1>4. ASSUME NEW u \in Unit, Resume(u), u \in cancelled PROVE UNCHANGED Gate!gateVars
  <2>1. \A v \in Unit : StageOf(v)' = StageOf(v) /\ VerdictOf(v)' = VerdictOf(v)
    BY <1>4, <1>t DEF Resume, StageOf, VerdictOf, TypeOK
  <2> QED
    BY <2>1 DEF Gate!gateVars
<1>5. ASSUME NEW u \in Unit, CancelTask(u) PROVE Gate!Abandon({u})
  <2>1. \A v \in Unit \ {u} : StageOf(v)' = StageOf(v) /\ VerdictOf(v)' = VerdictOf(v)
    BY <1>5, <1>t DEF CancelTask, StageOf, VerdictOf, TypeOK
  <2>2. /\ StageOf(u) \in {"held", "decided"} /\ StageOf(u)' = "abandoned"
        /\ VerdictOf(u)' = VerdictOf(u)
    BY <1>5, <1>t DEF CancelTask, StageOf, VerdictOf, TypeOK, UnitInv
  <2> QED
    BY <2>1, <2>2 DEF Gate!Abandon
<1>6. ASSUME NEW U \in SUBSET Undecided, NEW a \in Verdict, Resolve(U, a),
             UNCHANGED <<proc, cancelled>>
      PROVE  Gate!Decide(U, a) \/ UNCHANGED Gate!gateVars
  <2>1. \A v \in Unit \ U : StageOf(v)' = StageOf(v) /\ VerdictOf(v)' = VerdictOf(v)
    BY <1>6, <1>t DEF Resolve, StageOf, VerdictOf, TypeOK
  <2>2. \A v \in U : /\ v \in Unit /\ StageOf(v) = "held" /\ StageOf(v)' = "decided"
                     /\ VerdictOf(v)' = a
    BY <1>6, <1>t DEF Resolve, Undecided, StageOf, VerdictOf, TypeOK, UnitInv
  <2>3. CASE U = {}
    BY <2>1, <2>3 DEF Gate!gateVars
  <2>4. CASE U # {}
    BY <2>1, <2>2, <2>4 DEF Gate!Decide
  <2> QED
    BY <2>3, <2>4
<1>7. ASSUME NEW u \in Unit, NEW a \in Verdict, SetVerdict(u, a)
      PROVE  Gate!GateNext \/ UNCHANGED Gate!gateVars
  BY <1>7, <1>6 DEF SetVerdict, Gate!GateNext, Gate!Action, Verdict, Undecided
<1>8. CASE ForwardAll \/ Shutdown \/ Disable
  <2>1. Resolve(Undecided, "FORWARD") /\ UNCHANGED <<proc, cancelled>>
    BY <1>8 DEF ForwardAll, Shutdown, Disable, ForwardAllPending
  <2> QED
    BY <2>1, <1>6, <1>t DEF Gate!GateNext, Gate!Action, Verdict, Undecided, TypeOK
<1>9. CASE Enable \/ SetFilters \/ GetPending \/ UNCHANGED vars
  <2>1. \A v \in Unit : StageOf(v)' = StageOf(v) /\ VerdictOf(v)' = VerdictOf(v)
    BY <1>9 DEF Enable, SetFilters, GetPending, vars, StageOf, VerdictOf
  <2> QED
    BY <2>1 DEF Gate!gateVars
<1> QED
  BY <1>1, <1>2, <1>3, <1>4, <1>5, <1>7, <1>8, <1>9
  DEF Next, Relays, Operator, Gate!GateNext

\* Whatever the operator and the relays do, a relay sees a gate that gives
\* each held unit one verdict and hands it back unchanged.
THEOREM GateImplemented == Spec => ImplementsGate
<1>1. IInv /\ IInv' /\ [Next]_vars => [Gate!GateNext]_Gate!gateVars
  BY GateStep
<1> QED
  BY <1>1, GateInitially, IInvCorrect, PTL DEF Spec, ImplementsGate, Gate!GateSpec

---------------------------------------------------------------------------
(* The rules.  RulesIInv is inductive.                                     *)

\* What is compiled of a rule: the pattern of its own type, from its text.
CompiledOf(r) == [t \in Textual |-> IF t = r.type THEN Compile(r.text[t]) ELSE None]

Fields == {"type", "text", "to", "compiled", "path", "module", "dir", "on", "scopes", "action", "sessions"}
IsRule(r) ==
    /\ r = [x \in Fields |-> r[x]]
    /\ DOMAIN r.text = Textual /\ DOMAIN r.to = Textual
    /\ r.compiled = CompiledOf(r)

\* The lists hold rules of their own kind, each rule once.
Once(s) == \A i, j \in DOMAIN s : s[i] = s[j] => i = j
ListsInv ==
    /\ DOMAIN list = Kinds
    /\ \A k \in Kinds : list[k] \in Seq(IdsOf(k)) /\ Once(list[k])

RulesInv ==
    /\ DOMAIN rule = Ids
    /\ \A r \in Ids : IsRule(rule[r])
    /\ \A r \in InterceptIds : rule[r].module = None

\* A script that failed is not remembered.
Failed == Unloadable \union {"raises"}
ScriptsInv ==
    /\ DOMAIN used = Ids
    /\ \A r \in Ids : /\ used[r] = [version |-> used[r].version, frame |-> used[r].frame, reset |-> used[r].reset]
                      /\ used[r].version \in Failed \/ used[r].reset => rule[r].module = None

\* The tables show rules of their kind; a modal opened on a rule that is still
\* in the list, from rows of the project that is open, has the rule's object.
TablesInv ==
    /\ DOMAIN shown = Kinds /\ DOMAIN stale = Kinds
    /\ \A k \in Kinds : shown[k] \in Seq(IdsOf(k))
ModalInv ==
    modal # NoModal =>
        /\ modal.kind \in Kinds /\ modal.id \in IdsOf(modal.kind)
        /\ Listed(modal.kind, modal.id) /\ ~stale[modal.kind] => modal.live

CoreInv == ListsInv /\ RulesInv /\ ScriptsInv
RulesIInv == CoreInv /\ TablesInv /\ ModalInv

---------------------------------------------------------------------------
(* Lists of rules.  r is the list s without what is at its place n.        *)
Thinned(s, r, n) ==
    /\ Len(s) \in Nat /\ n \in 1 .. Len(s)
    /\ DOMAIN s = 1 .. Len(s) /\ DOMAIN r = 1 .. Len(s) - 1 /\ Len(r) = Len(s) - 1
    /\ \A i \in 1 .. Len(s) - 1 : r[i] = IF i < n THEN s[i] ELSE s[i + 1]

(* Taking a rule out of a list leaves the others in it, in their order;    *)
(* and so does putting one in.                                             *)
LEMMA OthersStay ==
  ASSUME NEW s, NEW r, NEW n, Thinned(s, r, n)
  PROVE  SameOthers(s, r, s[n]) /\ SameOthers(r, s, s[n])
  <1> DEFINE old(i) == IF i < n THEN i ELSE i + 1
             new(k) == IF k < n THEN k ELSE k - 1
  <1>1. \A i \in DOMAIN r : old(i) \in DOMAIN s /\ r[i] = s[old(i)]
    BY DEF Thinned
  <1>2. \A i, j \in DOMAIN r : i < j => old(i) < old(j)
    BY DEF Thinned
  <1>3. \A k \in DOMAIN s : k # n => new(k) \in DOMAIN r /\ r[new(k)] = s[k]
    <2> SUFFICES ASSUME NEW k \in DOMAIN s, k # n PROVE new(k) \in DOMAIN r /\ r[new(k)] = s[k]
      OBVIOUS
    <2>1. new(k) \in 1 .. Len(s) - 1 /\ old(new(k)) = k
      BY DEF Thinned
    <2> QED
      BY <2>1, <1>1 DEF Thinned
  <1>4. \A k, m \in DOMAIN s : k # n /\ m # n /\ k < m => new(k) < new(m)
    BY DEF Thinned
  <1>5. DOMAIN s = 1 .. Len(s) /\ DOMAIN r = 1 .. Len(r)
    BY DEF Thinned
  <1> HIDE DEF old, new
  <1>6. ASSUME NEW a, a # s[n] PROVE Contains(r, a) <=> Contains(s, a)
    BY <1>1, <1>3, <1>5, <1>6 DEF Contains
  <1>7. ASSUME NEW a, NEW b, a # s[n], b # s[n] PROVE Before(r, a, b) <=> Before(s, a, b)
    <2>1. ASSUME Before(r, a, b) PROVE Before(s, a, b)
      <3>1. PICK i \in DOMAIN r, j \in DOMAIN r : i < j /\ r[i] = a /\ r[j] = b
        BY <2>1 DEF Before
      <3>2. old(i) < old(j) /\ s[old(i)] = a /\ s[old(j)] = b /\ old(i) \in DOMAIN s /\ old(j) \in DOMAIN s
        BY <3>1, <1>1, <1>2
      <3> QED
        BY <3>2 DEF Before
    <2>2. ASSUME Before(s, a, b) PROVE Before(r, a, b)
      <3>1. PICK k \in DOMAIN s, m \in DOMAIN s : k < m /\ s[k] = a /\ s[m] = b
        BY <2>2 DEF Before
      <3>2. k # n /\ m # n
        BY <3>1, <1>7
      <3>3. new(k) < new(m) /\ r[new(k)] = a /\ r[new(m)] = b /\ new(k) \in DOMAIN r /\ new(m) \in DOMAIN r
        BY <3>1, <3>2, <1>3, <1>4
      <3> QED
        BY <3>3 DEF Before
    <2> QED
      BY <2>1, <2>2
  <1> QED
    BY <1>6, <1>7 DEF SameOthers

(* list.pop: the list without one place.                                   *)
LEMMA RemovedPlace ==
  ASSUME NEW S, NEW s \in Seq(S), NEW n \in 1 .. Len(s)
  PROVE  RemoveAt(s, n) \in Seq(S) /\ Thinned(s, RemoveAt(s, n), n)
  <1> DEFINE a == SubSeq(s, 1, n - 1)
             b == SubSeq(s, n + 1, Len(s))
  <1>0. Len(s) \in Nat /\ n \in Nat /\ 1 <= n /\ n <= Len(s) /\ DOMAIN s = 1 .. Len(s)
    BY LenProperties
  <1>1. a \in Seq(S) /\ Len(a) = n - 1 /\ \A i \in 1 .. n - 1 : a[i] = s[i]
    <2>1. \A i \in 1 .. n - 1 : i \in 1 .. Len(s)
      BY <1>0
    <2>2. \A i \in 1 .. n - 1 : s[i] \in S
      BY <2>1, ElementOfSeq
    <2> QED
      BY <1>0, <2>1, <2>2, SubSeqProperties
  <1>2. b \in Seq(S) /\ Len(b) = Len(s) - n /\ \A i \in 1 .. Len(s) - n : b[i] = s[n + i]
    <2>1. \A i \in n + 1 .. Len(s) : s[i] \in S
      <3>1. \A i \in n + 1 .. Len(s) : i \in 1 .. Len(s)
        BY <1>0
      <3> QED
        BY <3>1, ElementOfSeq
    <2>2. CASE n + 1 <= Len(s)
      BY <1>0, <2>1, <2>2, SubSeqProperties
    <2>3. CASE n = Len(s)
      BY <1>0, <2>1, <2>3, SubSeqProperties
    <2>4. \A l, k \in Nat : k <= l => k + 1 <= l \/ k = l
      OBVIOUS
    <2>5. n + 1 <= Len(s) \/ n = Len(s)
      BY <1>0, <2>4
    <2> QED
      BY <2>2, <2>3, <2>5
  <1> HIDE DEF a, b
  <1>3. /\ a \o b \in Seq(S) /\ Len(a \o b) = Len(a) + Len(b)
        /\ \A i \in 1 .. Len(a) + Len(b) : (a \o b)[i] = IF i <= Len(a) THEN a[i] ELSE b[i - Len(a)]
    BY <1>1, <1>2, ConcatProperties
  <1>4. RemoveAt(s, n) = a \o b
    BY DEF RemoveAt, a, b
  <1>5. Len(a) + Len(b) = Len(s) - 1
    BY <1>0, <1>1, <1>2
  <1>6. ASSUME NEW i \in 1 .. Len(s) - 1 PROVE (a \o b)[i] = IF i < n THEN s[i] ELSE s[i + 1]
    <2>1. i \in 1 .. Len(a) + Len(b) /\ (i <= Len(a) <=> i < n)
      BY <1>0, <1>1, <1>2
    <2>2. CASE i < n
      <3>1. (a \o b)[i] = a[i] /\ i \in 1 .. n - 1
        BY <1>0, <1>3, <2>1, <2>2
      <3> QED
        BY <3>1, <1>1, <2>2
    <2>3. CASE ~(i < n)
      <3>1. (a \o b)[i] = b[i - Len(a)]
        BY <1>3, <2>1, <2>3
      <3>2. i - Len(a) \in 1 .. Len(s) - n /\ n + (i - Len(a)) = i + 1
        BY <1>0, <1>1, <2>3
      <3> QED
        BY <3>1, <3>2, <1>2, <2>3
    <2> QED
      BY <2>2, <2>3
  <1>7. DOMAIN (a \o b) = 1 .. Len(s) - 1
    BY <1>3, <1>5, LenProperties
  <1> QED
    BY <1>0, <1>3, <1>4, <1>5, <1>6, <1>7 DEF Thinned

(* list.insert: what was there, around the new one.                        *)
LEMMA InsertedPlace ==
  ASSUME NEW S, NEW q \in Seq(S), NEW e \in S, NEW n \in 1 .. Len(q) + 1
  PROVE  InsertAt(q, n, e) \in Seq(S) /\ Thinned(InsertAt(q, n, e), q, n) /\ InsertAt(q, n, e)[n] = e
  <1> DEFINE a == SubSeq(q, 1, n - 1)
             b == SubSeq(q, n, Len(q))
             c == a \o <<e>>
             s == c \o b
  <1>0. Len(q) \in Nat /\ n \in Nat /\ 1 <= n /\ n <= Len(q) + 1 /\ DOMAIN q = 1 .. Len(q)
    BY LenProperties
  <1>1. a \in Seq(S) /\ Len(a) = n - 1 /\ \A i \in 1 .. n - 1 : a[i] = q[i]
    <2>1. \A i \in 1 .. n - 1 : i \in 1 .. Len(q)
      BY <1>0
    <2>2. \A i \in 1 .. n - 1 : q[i] \in S
      BY <2>1, ElementOfSeq
    <2> QED
      BY <1>0, <2>1, <2>2, SubSeqProperties
  <1>2. b \in Seq(S) /\ Len(b) = Len(q) - n + 1 /\ \A i \in 1 .. Len(q) - n + 1 : b[i] = q[n + i - 1]
    <2>1. \A i \in n .. Len(q) : q[i] \in S
      <3>1. \A i \in n .. Len(q) : i \in 1 .. Len(q)
        BY <1>0
      <3> QED
        BY <3>1, ElementOfSeq
    <2>2. CASE n <= Len(q)
      BY <1>0, <2>1, <2>2, SubSeqProperties
    <2>3. CASE n = Len(q) + 1
      BY <1>0, <2>1, <2>3, SubSeqProperties
    <2> QED
      BY <1>0, <2>2, <2>3
  <1>3. <<e>> \in Seq(S) /\ Len(<<e>>) = 1 /\ <<e>>[1] = e
    OBVIOUS
  <1> HIDE DEF a, b
  <1>4. /\ c \in Seq(S) /\ Len(c) = n
        /\ \A i \in 1 .. n - 1 : c[i] = q[i]
        /\ c[n] = e
    <2>1. /\ c \in Seq(S) /\ Len(c) = Len(a) + 1
          /\ \A i \in 1 .. Len(a) + 1 : c[i] = IF i <= Len(a) THEN a[i] ELSE <<e>>[i - Len(a)]
      BY <1>1, <1>3, ConcatProperties
    <2> HIDE DEF c
    <2>2. \A i \in 1 .. n - 1 : i \in 1 .. Len(a) + 1 /\ i <= Len(a)
      BY <1>0, <1>1
    <2>3. n \in 1 .. Len(a) + 1 /\ ~(n <= Len(a)) /\ n - Len(a) = 1
      BY <1>0, <1>1
    <2>4. \A i \in 1 .. n - 1 : c[i] = q[i]
      BY <1>1, <2>1, <2>2
    <2>5. c[n] = e
      BY <1>3, <2>1, <2>3
    <2>6. Len(c) = n
      BY <1>0, <1>1, <2>1
    <2> QED
      BY <2>1, <2>4, <2>5, <2>6
  <1> HIDE DEF c
  <1>5. /\ s \in Seq(S) /\ Len(s) = Len(c) + Len(b)
        /\ \A i \in 1 .. Len(c) + Len(b) : s[i] = IF i <= Len(c) THEN c[i] ELSE b[i - Len(c)]
    BY <1>4, <1>2, ConcatProperties
  <1>6. InsertAt(q, n, e) = s
    BY DEF InsertAt, s, c, a, b
  <1>7. Len(s) = Len(q) + 1 /\ DOMAIN s = 1 .. Len(q) + 1 /\ Len(s) \in Nat
    BY <1>0, <1>2, <1>4, <1>5, LenProperties
  <1> HIDE DEF s
  <1>8. ASSUME NEW i \in 1 .. Len(q) PROVE q[i] = IF i < n THEN s[i] ELSE s[i + 1]
    <2>1. CASE i < n
      <3>1. i \in 1 .. Len(c) + Len(b) /\ i <= Len(c) /\ i \in 1 .. n - 1
        BY <1>0, <1>2, <1>4, <2>1
      <3> QED
        BY <3>1, <1>4, <1>5, <2>1
    <2>2. CASE ~(i < n)
      <3>1. /\ i + 1 \in 1 .. Len(c) + Len(b) /\ ~(i + 1 <= Len(c))
            /\ (i + 1) - Len(c) \in 1 .. Len(q) - n + 1 /\ n + ((i + 1) - Len(c)) - 1 = i
        BY <1>0, <1>2, <1>4, <2>2
      <3>2. s[i + 1] = b[(i + 1) - Len(c)]
        BY <3>1, <1>5
      <3> QED
        BY <3>1, <3>2, <1>2, <2>2
    <2> QED
      BY <2>1, <2>2
  <1>9. s[n] = e
    <2>1. n \in 1 .. Len(c) + Len(b) /\ n <= Len(c)
      BY <1>0, <1>2, <1>4
    <2> QED
      BY <2>1, <1>4, <1>5
  <1> QED
    <2>1. Len(s) - 1 = Len(q) /\ n \in 1 .. Len(s)
      BY <1>0, <1>7
    <2>2. Thinned(s, q, n)
      BY <1>0, <1>7, <1>8, <2>1 DEF Thinned
    <2> QED
      BY <1>5, <1>6, <1>9, <2>2

(* A list in which every rule is once loses the rule that is taken out,    *)
(* and takes in one it does not have.                                      *)
LEMMA OnceThinned ==
  ASSUME NEW s, NEW r, NEW n, Thinned(s, r, n)
  PROVE  /\ Once(s) => Once(r) /\ ~Contains(r, s[n])
         /\ Once(r) /\ ~Contains(r, s[n]) => Once(s)
  <1>0. /\ Len(s) \in Nat /\ n \in 1 .. Len(s)
        /\ DOMAIN s = 1 .. Len(s) /\ DOMAIN r = 1 .. Len(s) - 1 /\ DOMAIN r = 1 .. Len(r)
        /\ \A i \in 1 .. Len(s) - 1 : r[i] = IF i < n THEN s[i] ELSE s[i + 1]
    BY DEF Thinned
  <1>1. ASSUME Once(s) PROVE Once(r) /\ ~Contains(r, s[n])
    <2> DEFINE old(i) == IF i < n THEN i ELSE i + 1
    <2>1. \A i \in DOMAIN r : old(i) \in DOMAIN s /\ old(i) # n /\ r[i] = s[old(i)]
      BY <1>0
    <2>2. \A i, j \in DOMAIN r : old(i) = old(j) => i = j
      BY <1>0
    <2>3. n \in DOMAIN s
      BY <1>0
    <2> HIDE DEF old
    <2>4. \A i, j \in DOMAIN r : r[i] = r[j] => i = j
      BY <1>1, <2>1, <2>2 DEF Once
    <2>5. \A i \in DOMAIN r : r[i] # s[n]
      BY <1>1, <2>1, <2>3 DEF Once
    <2> QED
      BY <1>0, <2>4, <2>5 DEF Once, Contains
  <1>2. ASSUME Once(r), ~Contains(r, s[n]) PROVE Once(s)
    <2> DEFINE new(k) == IF k < n THEN k ELSE k - 1
    <2>1. \A k \in DOMAIN s : k # n => new(k) \in DOMAIN r /\ r[new(k)] = s[k]
      BY <1>0
    <2>2. \A k \in DOMAIN s : k # n => s[k] # s[n]
      BY <1>0, <1>2, <2>1 DEF Contains
    <2>3. \A k, m \in DOMAIN s : k # n /\ m # n /\ new(k) = new(m) => k = m
      BY <1>0
    <2> HIDE DEF new
    <2>4. ASSUME NEW k \in DOMAIN s, NEW m \in DOMAIN s, s[k] = s[m] PROVE k = m
      <3>1. CASE k = n \/ m = n
        BY <1>0, <2>2, <2>4, <3>1
      <3>2. CASE k # n /\ m # n
        <4>1. new(k) = new(m)
          BY <1>2, <2>1, <2>4, <3>2 DEF Once
        <4> QED
          BY <2>3, <3>2, <4>1
      <3> QED
        BY <3>1, <3>2
    <2> QED
      BY <2>4 DEF Once
  <1> QED
    BY <1>1, <1>2

(* The least of a set of places is one of them.                            *)
LEMMA FirstPlace ==
  ASSUME NEW I, I \subseteq Nat, I # {}
  PROVE  Min(I) \in I
  <1> DEFINE R == OpToRel(<, Nat)
  <1>1. PICK x \in I : \A y \in I : ~ (<<y, x>> \in R)
    <2>1. IsWellFoundedOn(R, Nat)
      BY NatLessThanWellFounded
    <2> HIDE DEF R
    <2> QED
      BY <2>1, WFMin
  <1>2. \A y \in I : x <= y
    <2> SUFFICES ASSUME NEW y \in I PROVE x <= y
      OBVIOUS
    <2>1. x \in Nat /\ y \in Nat
      OBVIOUS
    <2>2. ~(y < x)
      BY <1>1, <2>1 DEF OpToRel
    <2> QED
      BY <2>1, <2>2
  <1> QED
    BY <1>2 DEF Min

(* remove_rule: the rule is gone, the others stay.                         *)
LEMMA RuleRemoved ==
  ASSUME NEW S, NEW s \in Seq(S), NEW r
  PROVE  /\ RemoveFirst(s, r) \in Seq(S) /\ SameOthers(s, RemoveFirst(s, r), r)
         /\ Once(s) => Once(RemoveFirst(s, r)) /\ ~Contains(RemoveFirst(s, r), r)
  <1> DEFINE I == {i \in 1 .. Len(s) : s[i] = r}
             n == Min(I)
  <1>0. Len(s) \in Nat
    BY LenProperties
  <1>1. CASE I = {}
    <2>1. RemoveFirst(s, r) = s
      BY <1>1 DEF RemoveFirst
    <2>2. ~Contains(s, r)
      BY <1>1 DEF Contains
    <2> QED
      BY <2>1, <2>2 DEF SameOthers
  <1>2. CASE I # {}
    <2>1. n \in 1 .. Len(s) /\ s[n] = r
      <3>1. I \subseteq Nat
        BY <1>0
      <3>2. n \in I
        BY <3>1, <1>2, FirstPlace
      <3> QED
        BY <3>2
    <2>2. RemoveFirst(s, r) = RemoveAt(s, n)
      BY <1>2 DEF RemoveFirst, SelectInSeq
    <2> HIDE DEF n, I
    <2> QED
      BY <2>1, <2>2, RemovedPlace, OthersStay, OnceThinned
  <1> QED
    BY <1>1, <1>2

(* move_rule: wherever the rule goes, the others stay.                     *)
LEMMA RuleMoved ==
  ASSUME NEW S, NEW s \in Seq(S), NEW r \in S, NEW i \in Int
  PROVE  /\ Moved(s, r, i) \in Seq(S) /\ SameOthers(s, Moved(s, r, i), r)
         /\ Once(s) => Once(Moved(s, r, i))
  <1> DEFINE rest == RemoveFirst(s, r)
             n == Position(Len(rest), i) + 1
  <1>1. rest \in Seq(S) /\ SameOthers(s, rest, r) /\ (Once(s) => Once(rest) /\ ~Contains(rest, r))
    BY RuleRemoved
  <1> HIDE DEF rest
  <1>2. n \in 1 .. Len(rest) + 1
    <2>1. Len(rest) \in Nat
      BY <1>1, LenProperties
    <2> QED
      BY <2>1 DEF Position
  <1> HIDE DEF n
  <1>3. /\ InsertAt(rest, n, r) \in Seq(S) /\ SameOthers(rest, InsertAt(rest, n, r), r)
        /\ Once(s) => Once(InsertAt(rest, n, r))
    <2>1. /\ InsertAt(rest, n, r) \in Seq(S) /\ Thinned(InsertAt(rest, n, r), rest, n)
          /\ InsertAt(rest, n, r)[n] = r
      BY <1>1, <1>2, InsertedPlace
    <2> QED
      BY <1>1, <2>1, OthersStay, OnceThinned
  <1>4. Moved(s, r, i) = InsertAt(rest, n, r)
    BY DEF Moved, rest, n
  <1>5. SameOthers(s, InsertAt(rest, n, r), r)
    BY <1>1, <1>3 DEF SameOthers
  <1> QED
    BY <1>3, <1>4, <1>5

(* add_rule: the new rule comes last, the others stay.                     *)
LEMMA RuleAdded ==
  ASSUME NEW S, NEW s \in Seq(S), NEW r \in S
  PROVE  /\ Append(s, r) \in Seq(S) /\ SameOthers(s, Append(s, r), r)
         /\ Once(s) /\ ~Contains(s, r) => Once(Append(s, r))
  <1>1. /\ Append(s, r) \in Seq(S) /\ Len(Append(s, r)) = Len(s) + 1
        /\ \A i \in 1 .. Len(s) : Append(s, r)[i] = s[i]
        /\ Append(s, r)[Len(s) + 1] = r
    BY AppendProperties
  <1>2. Len(s) \in Nat /\ DOMAIN s = 1 .. Len(s) /\ DOMAIN Append(s, r) = 1 .. Len(s) + 1
    BY <1>1, LenProperties
  <1> DEFINE q == Append(s, r)
  <1> HIDE DEF q
  <1>3. Thinned(q, s, Len(s) + 1)
    BY <1>1, <1>2 DEF Thinned, q
  <1>4. SameOthers(s, q, q[Len(s) + 1]) /\ (Once(s) /\ ~Contains(s, q[Len(s) + 1]) => Once(q))
    BY <1>3, OthersStay, OnceThinned
  <1> QED
    BY <1>1, <1>4 DEF q

---------------------------------------------------------------------------
(* Rule objects.                                                           *)

(* A blank rule: nothing to match, nothing compiled.                       *)
LEMMA BlankIsRule == IsRule(Blank) /\ Blank.module = None
  BY DEF IsRule, Fields, Blank, CompiledOf, Compile

(* A rule built from any contents of a modal.                              *)
LEMMA CreatedIsRule ==
  ASSUME NEW f
  PROVE  IsRule(Created(f)) /\ Created(f).module = None
  <1> DEFINE c == IF f.type = "script" THEN [Common(Blank, f) EXCEPT !.path = TRUE]
                  ELSE [Common(Blank, f) EXCEPT !.text[f.type] = f.text, !.to[f.type] = f.to]
             b == Common(Blank, f)
  <1>1. Blank = [x \in Fields |-> Blank[x]] /\ DOMAIN Blank.text = Textual /\ DOMAIN Blank.to = Textual /\ Blank.module = None
    BY DEF Blank, Fields
  <1>2. b = [x \in Fields |-> b[x]] /\ DOMAIN b.text = Textual /\ DOMAIN b.to = Textual /\ b.module = None
    BY <1>1 DEF Common, Fields
  <1> HIDE DEF b
  <1>3. c = [x \in Fields |-> c[x]] /\ DOMAIN c.text = Textual /\ DOMAIN c.to = Textual /\ c.module = None
    <2>1. c = IF f.type = "script" THEN [b EXCEPT !.path = TRUE]
              ELSE [b EXCEPT !.text[f.type] = f.text, !.to[f.type] = f.to]
      BY DEF b
    <2> HIDE DEF c
    <2>2. CASE f.type = "script"
      BY <1>2, <2>1, <2>2 DEF Fields
    <2>3. CASE f.type # "script"
      <3>1. c = [[b EXCEPT !.text = [b.text EXCEPT ![f.type] = f.text]] EXCEPT !.to = [b.to EXCEPT ![f.type] = f.to]]
        BY <1>2, <2>1, <2>3 DEF Fields
      <3> QED
        BY <1>2, <3>1 DEF Fields
    <2> QED
      BY <2>2, <2>3
  <1>4. Created(f) = [c EXCEPT !.compiled = CompiledOf(c)]
    BY DEF Created, Built, CompiledOf
  <1> HIDE DEF c
  <1>5. CompiledOf(Created(f)) = CompiledOf(c)
    BY <1>3, <1>4 DEF CompiledOf, Fields
  <1> QED
    BY <1>3, <1>4, <1>5 DEF IsRule, Fields

(* A rule edited in a modal, whatever its type was and becomes: it keeps   *)
(* the module of its script or forgets it.                                 *)
LEMMA EditedIsRule ==
  ASSUME NEW r, IsRule(r), NEW f
  PROVE  IsRule(Edited(r, f)) /\ Edited(r, f).module \in {r.module, None}
  <1> DEFINE c == [Common(r, f) EXCEPT !.sessions = r.sessions]
  <1>1. /\ c = [x \in Fields |-> c[x]]
        /\ c.type = f.type /\ c.text = r.text /\ c.compiled = r.compiled /\ c.module = r.module /\ c.to = r.to
        /\ DOMAIN r.text = Textual /\ DOMAIN r.to = Textual
    BY DEF IsRule, Common, Fields
  <1> HIDE DEF c
  <1>2. CASE f.type = "script"
    <2>1. Edited(r, f) = [c EXCEPT !.path = TRUE, !.module = None, !.compiled = [t \in Textual |-> None]]
      BY <1>2 DEF Edited, c
    <2>2. Edited(r, f).compiled = CompiledOf(Edited(r, f))
      BY <1>1, <1>2, <2>1 DEF CompiledOf, Textual, Fields
    <2> QED
      BY <1>1, <2>1, <2>2 DEF IsRule, Fields
  <1>3. CASE f.type # "script"
    <2>1. Edited(r, f) = [c EXCEPT !.text[f.type] = f.text, !.to[f.type] = f.to,
                                   !.compiled = [t \in Textual |-> IF t = f.type THEN Compile(f.text) ELSE None]]
      BY <1>3 DEF Edited, c
    <2>2. DOMAIN Edited(r, f).text = Textual /\ DOMAIN Edited(r, f).to = Textual
      BY <1>1, <2>1 DEF Fields
    <2>3. Edited(r, f).compiled = CompiledOf(Edited(r, f))
      BY <1>1, <2>1 DEF CompiledOf, Fields
    <2> QED
      BY <1>1, <2>1, <2>2, <2>3 DEF IsRule, Fields
  <1> QED
    BY <1>2, <1>3

(* It carries what was entered.                                            *)
LEMMA EditCarries ==
  ASSUME NEW r, IsRule(r), NEW f
  PROVE  Carries(Edited(r, f), f)
  <1> DEFINE c == [Common(r, f) EXCEPT !.sessions = r.sessions]
  <1>1. /\ c = [x \in Fields |-> c[x]]
        /\ c.type = f.type /\ c.on = f.on /\ c.dir = f.dir /\ c.to = r.to
        /\ DOMAIN r.to = Textual
    BY DEF IsRule, Common, Fields
  <1> HIDE DEF c
  <1>2. CASE f.type = "script"
    <2>1. Edited(r, f) = [c EXCEPT !.path = TRUE, !.module = None, !.compiled = [t \in Textual |-> None]]
      BY <1>2 DEF Edited, c
    <2> QED
      BY <1>1, <1>2, <2>1 DEF Carries, Fields, Textual
  <1>3. CASE f.type # "script"
    <2>1. Edited(r, f) = [c EXCEPT !.text[f.type] = f.text, !.to[f.type] = f.to,
                                   !.compiled = [t \in Textual |-> IF t = f.type THEN Compile(f.text) ELSE None]]
      BY <1>3 DEF Edited, c
    <2> QED
      BY <1>1, <1>3, <2>1 DEF Carries, Fields
  <1> QED
    BY <1>2, <1>3

(* What comes back from a file is the rule without its script's module:    *)
(* what is compiled again is what was compiled.                            *)
LEMMA ReadBack ==
  ASSUME NEW r, IsRule(r)
  PROVE  FromDict(ToDict(r)) = [r EXCEPT !.module = None]
  <1>1. ToDict(r).type = r.type /\ ToDict(r).text = r.text
    BY DEF IsRule, ToDict, Fields
  <1>2. FromDict(ToDict(r)) = [ToDict(r) EXCEPT !.compiled = CompiledOf(r)]
    BY <1>1 DEF FromDict, Built, CompiledOf
  <1> QED
    BY <1>2 DEF IsRule, ToDict, Fields

(* A rule that was switched on or off.                                     *)
LEMMA SwitchedIsRule ==
  ASSUME NEW r, IsRule(r), NEW on
  PROVE  /\ IsRule([r EXCEPT !.on = on]) /\ [r EXCEPT !.on = on].module = r.module
  BY DEF IsRule, Fields, CompiledOf

(* A rule of which the module of its script changed.                       *)
LEMMA LoadedIsRule ==
  ASSUME NEW r, IsRule(r), NEW module
  PROVE  IsRule([r EXCEPT !.module = module]) /\ [r EXCEPT !.module = module].module = module
  BY DEF IsRule, Fields, CompiledOf

---------------------------------------------------------------------------
(* The inductive invariant.                                                *)
LEMMA KindFacts == Kinds = {"replace", "intercept"} /\ \A k \in Kinds : IdsOf(k) \subseteq Ids
  BY DEF Kinds, IdsOf, Ids

(* An operation on one list leaves rules of its kind in it.                *)
LEMMA ListsStep ==
  ASSUME ListsInv, NEW k \in Kinds, NEW s \in Seq(IdsOf(k)), Once(s), list' = [list EXCEPT ![k] = s]
  PROVE  ListsInv'
  BY DEF ListsInv

(* An operation on one rule object leaves it a rule, and the module of its *)
(* script as it is or forgotten.                                           *)
LEMMA RuleStep ==
  ASSUME CoreInv, NEW r, NEW q, r \in Ids => IsRule(q) /\ q.module \in {rule[r].module, None},
         rule' = [rule EXCEPT ![r] = q],
         used' = used \/ (q.module = None /\ used' = [used EXCEPT ![r].reset = TRUE])
  PROVE  RulesInv' /\ ScriptsInv'
  <1>1. \A x \in Ids : rule'[x] = IF x = r THEN q ELSE rule[x]
    BY DEF CoreInv, RulesInv
  <1>2. DOMAIN rule' = Ids
    BY DEF CoreInv, RulesInv
  <1>3. RulesInv'
    <2>1. \A x \in Ids : IsRule(rule'[x])
      BY <1>1 DEF CoreInv, RulesInv
    <2>2. \A x \in InterceptIds : rule'[x].module = None
      BY <1>1 DEF CoreInv, RulesInv, Ids
    <2> QED
      BY <1>2, <2>1, <2>2 DEF RulesInv
  <1>4. ScriptsInv'
    <2>1. CASE used' = used
      BY <1>1, <2>1 DEF CoreInv, ScriptsInv
    <2>2. CASE q.module = None /\ used' = [used EXCEPT ![r].reset = TRUE]
      <3>0. ScriptsInv
        BY DEF CoreInv
      <3>1. DOMAIN used' = Ids
        BY <2>2, <3>0 DEF ScriptsInv
      <3>2. ASSUME NEW x \in Ids
            PROVE  /\ used'[x] = [version |-> used'[x].version, frame |-> used'[x].frame, reset |-> used'[x].reset]
                   /\ used'[x].version \in Failed \/ used'[x].reset => rule'[x].module = None
        <4>1. CASE x = r
          <5>1. used'[x] = [used[x] EXCEPT !.reset = TRUE] /\ rule'[x].module = None
            BY <1>1, <2>2, <3>0, <4>1 DEF ScriptsInv
          <5>2. used[x] = [version |-> used[x].version, frame |-> used[x].frame, reset |-> used[x].reset]
            BY <3>0 DEF ScriptsInv
          <5> QED
            BY <5>1, <5>2
        <4>2. CASE x # r
          BY <1>1, <2>2, <3>0, <4>2 DEF ScriptsInv
        <4> QED
          BY <4>1, <4>2
      <3> QED
        BY <3>1, <3>2 DEF ScriptsInv
    <2> QED
      BY <2>1, <2>2
  <1> QED
    BY <1>3, <1>4

(* The invariant holds at the start: no rules.                             *)
LEMMA RulesInitInv == RulesInit => RulesIInv
  <1> SUFFICES ASSUME RulesInit PROVE RulesIInv
    OBVIOUS
  <1>1. ListsInv
    BY DEF RulesInit, ListsInv, Once
  <1>2. RulesInv
    BY BlankIsRule DEF RulesInit, RulesInv, Ids
  <1>3. ScriptsInv
    BY BlankIsRule DEF RulesInit, ScriptsInv, Failed, Unloadable, None
  <1>4. TablesInv /\ ModalInv
    BY DEF RulesInit, TablesInv, ModalInv
  <1> QED
    BY <1>1, <1>2, <1>3, <1>4 DEF RulesIInv, CoreInv

(* A rule in a list is of its kind, and has a place.                       *)
LEMMA ListedFacts ==
  ASSUME ListsInv, NEW k \in Kinds
  PROVE  /\ list[k] \in Seq(IdsOf(k)) /\ DOMAIN list[k] = 1 .. Len(list[k]) /\ Len(list[k]) \in Nat /\ Once(list[k])
         /\ \A i \in DOMAIN list[k] : list[k][i] \in IdsOf(k)
         /\ \A r : Listed(k, r) => r \in IdsOf(k) /\ Index(k, r) \in 1 .. Len(list[k])
  <1>1. list[k] \in Seq(IdsOf(k)) /\ Once(list[k])
    BY DEF ListsInv
  <1>2. DOMAIN list[k] = 1 .. Len(list[k]) /\ Len(list[k]) \in Nat
    BY <1>1, LenProperties
  <1>3. \A i \in DOMAIN list[k] : list[k][i] \in IdsOf(k)
    BY <1>1, <1>2, ElementOfSeq
  <1>4. ASSUME NEW r, Listed(k, r) PROVE r \in IdsOf(k) /\ Index(k, r) \in 1 .. Len(list[k])
    <2>1. \E i \in DOMAIN list[k] : list[k][i] = r
      BY <1>2, <1>4 DEF Listed, Contains
    <2> QED
      BY <1>2, <1>3, <2>1 DEF Index
  <1> QED
    BY <1>1, <1>2, <1>3, <1>4

(* An operation that leaves every rule object as it is.                    *)
LEMMA RulesSame == RulesInv /\ ScriptsInv /\ UNCHANGED <<rule, used>> => RulesInv' /\ ScriptsInv'
  BY DEF RulesInv, ScriptsInv

(* A button of a table: what it does to the list and to the rule objects.  *)
LEMMA ButtonStep ==
  ASSUME CoreInv, NEW k \in Kinds, NEW r,
         \/ (UiRemove(k, r) \/ UiUp(k, r) \/ UiDown(k, r) \/ UiToggle(k, r)) /\ UNCHANGED used
         \/ UiReset(k, r)
  PROVE  /\ CoreInv'
         /\ \A x \in Ids \ {r} : rule'[x] = rule[x]
         /\ \A l \in Kinds : SameOthers(list[l], list'[l], r)
         /\ UiRemove(k, r) => ~Contains(list'[k], r)
  <1>0. ListsInv /\ RulesInv /\ ScriptsInv /\ DOMAIN list = Kinds /\ DOMAIN rule = Ids
    BY DEF CoreInv, ListsInv, RulesInv
  <1>1. \A s : SameOthers(s, s, r)
    BY DEF SameOthers
  <1>2. ASSUME NEW s \in Seq(IdsOf(k)), SameOthers(list[k], s, r), Once(s), list' = [list EXCEPT ![k] = s],
               UNCHANGED <<rule, used>>
        PROVE  /\ CoreInv'
               /\ \A x \in Ids \ {r} : rule'[x] = rule[x]
               /\ \A l \in Kinds : SameOthers(list[l], list'[l], r)
    <2>1. ListsInv'
      BY <1>0, <1>2, ListsStep
    <2>2. RulesInv' /\ ScriptsInv'
      BY <1>0, <1>2, RulesSame
    <2>3. \A l \in Kinds : list'[l] = IF l = k THEN s ELSE list[l]
      BY <1>0, <1>2
    <2>4. \A l \in Kinds : SameOthers(list[l], list'[l], r)
      BY <1>1, <1>2, <2>3
    <2> QED
      BY <1>2, <2>1, <2>2, <2>4 DEF CoreInv
  <1>3. ASSUME NEW q, r \in Ids => IsRule(q) /\ q.module \in {rule[r].module, None},
               rule' = [rule EXCEPT ![r] = q], UNCHANGED list,
               used' = used \/ (q.module = None /\ used' = [used EXCEPT ![r].reset = TRUE])
        PROVE  /\ CoreInv'
               /\ \A x \in Ids \ {r} : rule'[x] = rule[x]
               /\ \A l \in Kinds : SameOthers(list[l], list'[l], r)
    <2>1. RulesInv' /\ ScriptsInv'
      BY <1>3, RuleStep
    <2>2. ListsInv'
      BY <1>0, <1>3 DEF ListsInv
    <2>3. \A x \in Ids \ {r} : rule'[x] = rule[x]
      BY <1>0, <1>3
    <2> QED
      BY <1>1, <1>3, <2>1, <2>2, <2>3 DEF CoreInv
  <1>4. ASSUME UiRemove(k, r), UNCHANGED used
        PROVE  /\ CoreInv'
               /\ \A x \in Ids \ {r} : rule'[x] = rule[x]
               /\ \A l \in Kinds : SameOthers(list[l], list'[l], r)
    <2>1. /\ RemoveFirst(list[k], r) \in Seq(IdsOf(k)) /\ SameOthers(list[k], RemoveFirst(list[k], r), r)
          /\ Once(RemoveFirst(list[k], r))
      BY <1>0, ListedFacts, RuleRemoved
    <2>2. list' = [list EXCEPT ![k] = RemoveFirst(list[k], r)] /\ UNCHANGED rule
      BY <1>4 DEF UiRemove
    <2> QED
      BY <1>2, <1>4, <2>1, <2>2
  <1>11. ASSUME UiRemove(k, r) PROVE ~Contains(list'[k], r)
    <2>1. ~Contains(RemoveFirst(list[k], r), r)
      BY <1>0, ListedFacts, RuleRemoved
    <2>2. list'[k] = RemoveFirst(list[k], r)
      BY <1>0, <1>11 DEF UiRemove
    <2> QED
      BY <2>1, <2>2
  <1>5. ASSUME NEW i \in Int, Listed(k, r), list' = [list EXCEPT ![k] = Moved(list[k], r, i)], UNCHANGED <<rule, used>>
        PROVE  /\ CoreInv'
               /\ \A x \in Ids \ {r} : rule'[x] = rule[x]
               /\ \A l \in Kinds : SameOthers(list[l], list'[l], r)
    BY <1>0, <1>2, <1>5, ListedFacts, RuleMoved
  <1>6. ASSUME UNCHANGED <<list, rule, used>>
        PROVE  /\ CoreInv'
               /\ \A x \in Ids \ {r} : rule'[x] = rule[x]
               /\ \A l \in Kinds : SameOthers(list[l], list'[l], r)
    <2>1. ListsInv' /\ RulesInv' /\ ScriptsInv'
      BY <1>0, <1>6, RulesSame DEF ListsInv
    <2> QED
      BY <1>1, <1>6, <2>1 DEF CoreInv
  <1>7. ASSUME UiUp(k, r), UNCHANGED used
        PROVE  /\ CoreInv'
               /\ \A x \in Ids \ {r} : rule'[x] = rule[x]
               /\ \A l \in Kinds : SameOthers(list[l], list'[l], r)
    <2>1. CASE Listed(k, r) /\ Index(k, r) > 1
      <3>1. Index(k, r) - 2 \in Int
        BY <1>0, <2>1, ListedFacts
      <3> QED
        BY <1>5, <1>7, <2>1, <3>1 DEF UiUp
    <2>2. CASE ~(Listed(k, r) /\ Index(k, r) > 1)
      BY <1>6, <1>7, <2>2 DEF UiUp
    <2> QED
      BY <2>1, <2>2
  <1>8. ASSUME UiDown(k, r), UNCHANGED used
        PROVE  /\ CoreInv'
               /\ \A x \in Ids \ {r} : rule'[x] = rule[x]
               /\ \A l \in Kinds : SameOthers(list[l], list'[l], r)
    <2>1. CASE Listed(k, r) /\ Index(k, r) < Len(list[k])
      <3>1. Index(k, r) \in Int
        BY <1>0, <2>1, ListedFacts
      <3> QED
        BY <1>5, <1>8, <2>1, <3>1 DEF UiDown
    <2>2. CASE ~(Listed(k, r) /\ Index(k, r) < Len(list[k]))
      BY <1>6, <1>8, <2>2 DEF UiDown
    <2> QED
      BY <2>1, <2>2
  <1>9. ASSUME UiToggle(k, r), UNCHANGED used
        PROVE  /\ CoreInv'
               /\ \A x \in Ids \ {r} : rule'[x] = rule[x]
               /\ \A l \in Kinds : SameOthers(list[l], list'[l], r)
    <2>1. CASE Listed(k, r)
      <3>1. r \in Ids
        BY <1>0, <2>1, ListedFacts, KindFacts
      <3>2. IsRule([rule[r] EXCEPT !.on = ~rule[r].on]) /\ [rule[r] EXCEPT !.on = ~rule[r].on].module = rule[r].module
        BY <1>0, <3>1, SwitchedIsRule DEF RulesInv
      <3>3. rule' = [rule EXCEPT ![r] = [rule[r] EXCEPT !.on = ~rule[r].on]] /\ UNCHANGED list
        BY <1>9, <2>1 DEF UiToggle
      <3> QED
        BY <1>3, <1>9, <3>2, <3>3
    <2>2. CASE ~Listed(k, r)
      BY <1>6, <1>9, <2>2 DEF UiToggle
    <2> QED
      BY <2>1, <2>2
  <1>10. ASSUME UiReset(k, r)
         PROVE  /\ CoreInv'
                /\ \A x \in Ids \ {r} : rule'[x] = rule[x]
                /\ \A l \in Kinds : SameOthers(list[l], list'[l], r)
    <2>1. r \in Ids
      BY <1>0, <1>10, ListedFacts, KindFacts DEF UiReset
    <2>2. IsRule([rule[r] EXCEPT !.module = None]) /\ [rule[r] EXCEPT !.module = None].module = None
      BY <1>0, <2>1, LoadedIsRule DEF RulesInv
    <2>3. /\ rule' = [rule EXCEPT ![r] = [rule[r] EXCEPT !.module = None]] /\ UNCHANGED list
          /\ used' = [used EXCEPT ![r].reset = TRUE]
      BY <1>10 DEF UiReset
    <2>4. PICK q : q = [rule[r] EXCEPT !.module = None]
      OBVIOUS
    <2>5. IsRule(q) /\ q.module = None /\ rule' = [rule EXCEPT ![r] = q]
      BY <2>2, <2>3, <2>4
    <2> QED
      BY <1>3, <2>3, <2>5
  <1> QED
    BY <1>4, <1>7, <1>8, <1>9, <1>10, <1>11

(* A rule that is added, from the interface or by the AI.                  *)
LEMMA AddStep ==
  ASSUME CoreInv, NEW k \in Kinds, NEW r \in Free(k), NEW f, UNCHANGED used,
         rule' = [rule EXCEPT ![r] = Created(f)], list' = [list EXCEPT ![k] = Append(@, r)]
  PROVE  /\ CoreInv'
         /\ \A x \in Ids \ {r} : rule'[x] = rule[x]
         /\ \A l \in Kinds : SameOthers(list[l], list'[l], r)
  <1>0. ListsInv /\ RulesInv /\ DOMAIN list = Kinds /\ DOMAIN rule = Ids /\ list[k] \in Seq(IdsOf(k))
    BY DEF CoreInv, ListsInv, RulesInv
  <1>1. RulesInv' /\ ScriptsInv'
    BY CreatedIsRule, RuleStep
  <1>8. r \in IdsOf(k) /\ Once(list[k]) /\ ~Contains(list[k], r)
    BY <1>0, ListedFacts DEF Free, Contains
  <1>2. /\ Append(list[k], r) \in Seq(IdsOf(k)) /\ SameOthers(list[k], Append(list[k], r), r)
        /\ Once(Append(list[k], r))
    BY <1>0, <1>8, RuleAdded
  <1>3. list' = [list EXCEPT ![k] = Append(list[k], r)]
    OBVIOUS
  <1>4. ListsInv'
    BY <1>0, <1>2, <1>3, ListsStep
  <1>5. \A l \in Kinds : list'[l] = IF l = k THEN Append(list[k], r) ELSE list[l]
    BY <1>0, <1>3
  <1>6. \A l \in Kinds : SameOthers(list[l], list'[l], r)
    BY <1>2, <1>5 DEF SameOthers
  <1>7. \A x \in Ids \ {r} : rule'[x] = rule[x]
    BY <1>0
  <1> QED
    BY <1>1, <1>4, <1>6, <1>7 DEF CoreInv

(* A step that leaves the objects alone keeps the invariant if the lists   *)
(* stay lists of rules.                                                    *)
LEMMA ListOnly ==
  ASSUME CoreInv, NEW k \in Kinds, NEW s \in Seq(IdsOf(k)), Once(s), list' = [list EXCEPT ![k] = s],
         UNCHANGED <<rule, used>>
  PROVE  CoreInv'
  BY ListsStep, RulesSame DEF CoreInv

(* A step that leaves the lists alone.                                     *)
LEMMA ListsSame == CoreInv /\ UNCHANGED list /\ RulesInv' /\ ScriptsInv' => CoreInv'
  BY DEF CoreInv, ListsInv

(* A frame passes: scripts run, and one that fails is forgotten.           *)
LEMMA FrameStep == CoreInv /\ Frame => CoreInv'
  <1> SUFFICES ASSUME CoreInv, Frame PROVE CoreInv'
    OBVIOUS
  <1>0. RulesInv /\ ScriptsInv
    BY DEF CoreInv
  <1>1. PICK ran \in {ScriptsRun(frame, scope) : frame \in Frames, scope \in Scopes} :
          /\ rule' = [r \in Ids |-> IF r \in ran THEN [rule[r] EXCEPT !.module = RunScript(rule[r]).module] ELSE rule[r]]
          /\ used' = [r \in Ids |-> IF r \in ran THEN [version |-> RunScript(rule[r]).used, frame |-> count'.frames,
                                                       reset |-> FALSE]
                                  ELSE used[r]]
    BY DEF Frame
  <1>2. ran \subseteq ReplaceIds
    BY <1>1 DEF ScriptsRun
  <1>3. RulesInv'
    <2>1. ASSUME NEW r \in Ids PROVE IsRule(rule'[r])
      <3>1. CASE r \in ran
        <4>1. IsRule(rule[r])
          BY <1>0 DEF RulesInv
        <4>2. IsRule([rule[r] EXCEPT !.module = RunScript(rule[r]).module])
          BY <4>1, LoadedIsRule
        <4> QED
          BY <1>1, <3>1, <4>2
      <3>2. CASE r \notin ran
        BY <1>0, <1>1, <3>2 DEF RulesInv
      <3> QED
        BY <3>1, <3>2
    <2>2. \A r \in InterceptIds : rule'[r].module = None
      BY <1>0, <1>1, <1>2, RulesAssumption DEF RulesInv, Ids
    <2>3. DOMAIN rule' = Ids
      BY <1>1
    <2> QED
      BY <2>1, <2>2, <2>3 DEF RulesInv
  <1>4. ScriptsInv'
    <2>1. ASSUME NEW r \in Ids
          PROVE  /\ used'[r] = [version |-> used'[r].version, frame |-> used'[r].frame, reset |-> used'[r].reset]
                 /\ used'[r].version \in Failed \/ used'[r].reset => rule'[r].module = None
      <3>1. CASE r \in ran
        <4>1. rule'[r].module = RunScript(rule[r]).module
          <5>1. IsRule(rule[r])
            BY <1>0 DEF RulesInv
          <5>2. [rule[r] EXCEPT !.module = RunScript(rule[r]).module].module = RunScript(rule[r]).module
            BY <5>1, LoadedIsRule
          <5>3. rule'[r] = [rule[r] EXCEPT !.module = RunScript(rule[r]).module]
            BY <1>1, <3>1
          <5> QED
            BY <5>2, <5>3
        <4>2. used'[r] = [version |-> RunScript(rule[r]).used, frame |-> count'.frames, reset |-> FALSE]
          BY <1>1, <3>1
        <4>3. RunScript(rule[r]).used \in Failed => RunScript(rule[r]).module = None
          BY DEF RunScript, Failed
        <4>4. used'[r].version = RunScript(rule[r]).used /\ used'[r].frame = count'.frames /\ used'[r].reset = FALSE
          BY <4>2
        <4> QED
          BY <4>1, <4>2, <4>3, <4>4
      <3>2. CASE r \notin ran
        BY <1>0, <1>1, <3>2 DEF ScriptsInv
      <3> QED
        BY <3>1, <3>2
    <2>2. DOMAIN used' = Ids
      BY <1>1
    <2> QED
      BY <2>1, <2>2 DEF ScriptsInv
  <1> QED
    BY <1>3, <1>4, ListsSame DEF Frame

(* The project is opened again: every rule is as a file gives it.          *)
LEMMA ReopenStep == CoreInv /\ Reopen => CoreInv'
  <1> SUFFICES ASSUME CoreInv, Reopen PROVE CoreInv'
    OBVIOUS
  <1>0. RulesInv /\ ScriptsInv
    BY DEF CoreInv
  <1>1. ASSUME NEW r \in Ids PROVE IsRule(rule'[r]) /\ rule'[r].module = None
    <2>1. IsRule(rule[r])
      BY <1>0 DEF RulesInv
    <2>2. rule'[r] = [rule[r] EXCEPT !.module = None]
      BY <2>1, ReadBack DEF Reopen
    <2> QED
      BY <2>1, <2>2, LoadedIsRule
  <1>2. RulesInv' /\ ScriptsInv'
    BY <1>0, <1>1 DEF Reopen, RulesInv, ScriptsInv, Ids
  <1> QED
    BY <1>2, ListsSame DEF Reopen

(* Every step keeps what is known of the lists, rules and scripts.         *)
LEMMA CoreStep == CoreInv /\ [RulesNext]_rvars => CoreInv'
  <1> SUFFICES ASSUME CoreInv, [RulesNext]_rvars PROVE CoreInv'
    OBVIOUS
  <1>0. ListsInv /\ RulesInv /\ ScriptsInv
    BY DEF CoreInv
  <1>1. ASSUME NEW k \in Kinds, UiAdd(k) PROVE CoreInv'
    BY <1>1, AddStep DEF UiAdd
  <1>2. ASSUME NEW k \in Kinds, OpenEdit(k) PROVE CoreInv'
    BY <1>0, <1>2, RulesSame, ListsSame DEF OpenEdit
  <1>3. ASSUME NEW k \in Kinds, UiButton(k) PROVE CoreInv'
    <2>1. PICK i \in DOMAIN shown[k] :
            LET r == shown[k][i] IN
            \/ (UiRemove(k, r) \/ UiUp(k, r) \/ UiDown(k, r) \/ UiToggle(k, r)) /\ UNCHANGED used
            \/ UiReset(k, r)
      BY <1>3 DEF UiButton
    <2> QED
      BY <1>3, <2>1, ButtonStep DEF UiButton
  <1>4. ASSUME NEW k \in Kinds, McpAdd(k) PROVE CoreInv'
    <2>1. PICK r \in Free(k), f \in FormsOf(k), s \in {Sessions} \union {{x} : x \in Sessions} :
            /\ rule' = [rule EXCEPT ![r] = Created([f EXCEPT !.sessions = s])]
            /\ list' = [list EXCEPT ![k] = Append(@, r)]
      BY <1>4 DEF McpAdd
    <2>2. UNCHANGED used
      BY <1>4 DEF McpAdd, ByAi
    <2> QED
      BY <2>1, <2>2, AddStep
  <1>5. ASSUME NEW k \in Kinds, McpUpdate(k) PROVE CoreInv'
    <2>1. PICK i \in DOMAIN list[k], on \in BOOLEAN, act \in {"intercept", "forward"} :
            rule' = [rule EXCEPT ![list[k][i]].on = on, ![list[k][i]].action = act]
      BY <1>5 DEF McpUpdate
    <2> DEFINE r == list[k][i]
               q == [rule[r] EXCEPT !.on = on, !.action = act]
    <2>2. r \in Ids
      BY <1>0, ListedFacts, KindFacts
    <2>3. IsRule(q) /\ q.module = rule[r].module
      <3>1. IsRule(rule[r])
        BY <1>0, <2>2 DEF RulesInv
      <3> QED
        BY <3>1 DEF IsRule, Fields, CompiledOf
    <2>4. DOMAIN rule = Ids
      BY <1>0 DEF RulesInv
    <2> HIDE DEF r
    <2>5. rule' = [rule EXCEPT ![r] = q]
      BY <2>1, <2>2, <2>4 DEF r
    <2> HIDE DEF q
    <2>6. RulesInv' /\ ScriptsInv'
      BY <1>5, <2>3, <2>5, RuleStep DEF McpUpdate, ByAi
    <2> QED
      BY <1>5, <2>6, ListsSame DEF McpUpdate
  <1>6. ASSUME NEW k \in Kinds, McpRemove(k) PROVE CoreInv'
    <2>1. PICK i \in DOMAIN list[k] : list' = [list EXCEPT ![k] = RemoveAt(list[k], i)]
      BY <1>6 DEF McpRemove
    <2>2. RemoveAt(list[k], i) \in Seq(IdsOf(k)) /\ Once(RemoveAt(list[k], i))
      BY <1>0, ListedFacts, RemovedPlace, OnceThinned
    <2> QED
      BY <1>6, <2>1, <2>2, ListOnly DEF McpRemove, ByAi
  <1>7. ASSUME NEW k \in Kinds, McpMove(k) PROVE CoreInv'
    <2>1. PICK i \in DOMAIN list[k], n \in Indices : list' = [list EXCEPT ![k] = Moved(list[k], list[k][i], n)]
      BY <1>7 DEF McpMove
    <2>2. Moved(list[k], list[k][i], n) \in Seq(IdsOf(k)) /\ Once(Moved(list[k], list[k][i], n))
      BY <1>0, ListedFacts, RuleMoved, RulesAssumption
    <2> QED
      BY <1>7, <2>1, <2>2, ListOnly DEF McpMove, ByAi
  <1>8. ASSUME NEW k \in Kinds, McpClear(k) PROVE CoreInv'
    <2>1. <<>> \in Seq(IdsOf(k)) /\ Once(<<>>)
      BY DEF Once
    <2> QED
      BY <1>8, <2>1, ListOnly DEF McpClear, ByAi
  <1>9. CASE SaveEdit
    <2>1. CASE modal.live
      <3>1. PICK f \in FormsOf(modal.kind) : rule' = [rule EXCEPT ![modal.id] = Edited(rule[modal.id], f)]
        BY <1>9, <2>1 DEF SaveEdit
      <3>2. modal.id \in Ids => /\ IsRule(Edited(rule[modal.id], f))
                                /\ Edited(rule[modal.id], f).module \in {rule[modal.id].module, None}
        BY <1>0, EditedIsRule DEF RulesInv
      <3>3. RulesInv' /\ ScriptsInv'
        BY <1>9, <3>1, <3>2, RuleStep DEF SaveEdit
      <3> QED
        BY <1>9, <3>3, ListsSame DEF SaveEdit
    <2>2. CASE ~modal.live
      BY <1>0, <1>9, <2>2, RulesSame, ListsSame DEF SaveEdit
    <2> QED
      BY <2>1, <2>2
  <1>10. CASE CancelEdit
    BY <1>0, <1>10, RulesSame, ListsSame DEF CancelEdit
  <1>11. CASE Reopen
    BY <1>11, ReopenStep
  <1>12. CASE Frame
    BY <1>12, FrameStep
  <1>13. CASE ScriptEdited
    BY <1>0, <1>13, RulesSame, ListsSame DEF ScriptEdited
  <1>14. CASE UNCHANGED rvars
    BY <1>0, <1>14, RulesSame, ListsSame DEF rvars
  <1> QED
    BY <1>1, <1>2, <1>3, <1>4, <1>5, <1>6, <1>7, <1>8, <1>9, <1>10, <1>11, <1>12, <1>13, <1>14 DEF RulesNext

(* The tables.                                                             *)
LEMMA TablesSame == TablesInv /\ UNCHANGED <<shown, stale>> => TablesInv'
  BY DEF TablesInv

LEMMA TablesRefreshed ==
  ASSUME TablesInv, ListsInv', NEW k \in Kinds, Refreshed(k)
  PROVE  TablesInv'
  <1>1. list'[k] \in Seq(IdsOf(k))
    BY DEF ListsInv
  <1> QED
    BY <1>1 DEF TablesInv, Refreshed

LEMMA TablesStep == RulesIInv /\ CoreInv' /\ [RulesNext]_rvars => TablesInv'
  <1> SUFFICES ASSUME RulesIInv, ListsInv', [RulesNext]_rvars PROVE TablesInv'
    BY DEF CoreInv
  <1>0. TablesInv
    BY DEF RulesIInv
  <1>1. ASSUME NEW k \in Kinds, UiAdd(k) PROVE TablesInv'
    BY <1>0, <1>1, TablesRefreshed DEF UiAdd
  <1>2. ASSUME NEW k \in Kinds, UiButton(k) PROVE TablesInv'
    <2>1. Refreshed(k) \/ UNCHANGED <<shown, stale>>
      BY <1>2 DEF UiButton, UiRemove, UiUp, UiDown, UiToggle, UiReset
    <2> QED
      BY <1>0, <2>1, TablesRefreshed, TablesSame
  <1>3. ASSUME NEW k \in Kinds,
               OpenEdit(k) \/ McpAdd(k) \/ McpUpdate(k) \/ McpRemove(k) \/ McpMove(k) \/ McpClear(k)
        PROVE  TablesInv'
    <2>1. UNCHANGED <<shown, stale>>
      BY <1>3 DEF OpenEdit, McpAdd, McpUpdate, McpRemove, McpMove, McpClear, ByAi
    <2> QED
      BY <1>0, <2>1, TablesSame
  <1>4. CASE SaveEdit
    <2>1. modal.kind \in Kinds /\ Refreshed(modal.kind)
      BY <1>4 DEF SaveEdit, RulesIInv, ModalInv
    <2> QED
      BY <1>0, <2>1, TablesRefreshed
  <1>5. CASE CancelEdit \/ Frame \/ ScriptEdited \/ UNCHANGED rvars
    <2>1. UNCHANGED <<shown, stale>>
      BY <1>5 DEF CancelEdit, Frame, ScriptEdited, rvars
    <2> QED
      BY <1>0, <2>1, TablesSame
  <1>6. CASE Reopen
    BY <1>0, <1>6 DEF Reopen, TablesInv
  <1> QED
    BY <1>1, <1>2, <1>3, <1>4, <1>5, <1>6 DEF RulesNext

(* The modal: as long as it is open no project is opened and no table      *)
(* refreshed, and a rule that leaves its list does not come back.          *)
LEMMA ModalStays ==
  ASSUME ModalInv, UNCHANGED <<modal, stale>>,
         modal # NoModal => (Contains(list'[modal.kind], modal.id) => Contains(list[modal.kind], modal.id))
  PROVE  ModalInv'
  BY DEF ModalInv, Listed

LEMMA ModalOrphaned ==
  ASSUME RulesIInv, UNCHANGED stale, NEW k \in Kinds, NEW gone \in SUBSET IdsOf(k), NEW s,
         list' = [list EXCEPT ![k] = s], Orphaned(gone),
         \A r \in gone : ~Contains(s, r), \A r \in IdsOf(k) \ gone : Contains(s, r) => Contains(list[k], r)
  PROVE  ModalInv'
  <1>0. ModalInv /\ DOMAIN list = Kinds
    BY DEF RulesIInv, CoreInv, ListsInv
  <1>1. CASE modal = NoModal
    BY <1>1 DEF Orphaned, ModalInv
  <1>2. CASE modal # NoModal /\ modal.id \in gone
    <2>1. modal' = [modal EXCEPT !.live = FALSE]
      BY <1>2 DEF Orphaned
    <2>2. modal.kind \in Kinds /\ modal.id \in IdsOf(modal.kind)
      BY <1>0, <1>2 DEF ModalInv
    <2>3. modal.kind = k
      BY <1>2, <2>2, RulesAssumption DEF IdsOf, Kinds
    <2>4. modal'.kind = k /\ modal'.id = modal.id
      BY <2>1, <2>3
    <2>5. ~Contains(list'[k], modal.id)
      BY <1>0, <1>2
    <2> QED
      BY <2>2, <2>3, <2>4, <2>5 DEF ModalInv, Listed
  <1>3. CASE modal # NoModal /\ modal.id \notin gone
    <2>1. modal' = modal
      BY <1>3 DEF Orphaned
    <2>2. modal.kind \in Kinds /\ modal.id \in IdsOf(modal.kind)
      BY <1>0, <1>3 DEF ModalInv
    <2>3. Contains(list'[modal.kind], modal.id) => Contains(list[modal.kind], modal.id)
      BY <1>0, <1>3, <2>2
    <2> QED
      BY <1>0, <2>1, <2>3, ModalStays
  <1> QED
    BY <1>1, <1>2, <1>3

LEMMA ModalStep == RulesIInv /\ [RulesNext]_rvars => ModalInv'
  <1> SUFFICES ASSUME RulesIInv, [RulesNext]_rvars PROVE ModalInv'
    OBVIOUS
  <1>0. ModalInv /\ ListsInv /\ TablesInv /\ DOMAIN list = Kinds
    BY DEF RulesIInv, CoreInv, ListsInv
  <1>1. ASSUME modal' = NoModal PROVE ModalInv'
    BY <1>1 DEF ModalInv
  <1>2. ASSUME NEW k \in Kinds, UiAdd(k) \/ UiButton(k) PROVE ModalInv'
    BY <1>1, <1>2 DEF UiAdd, UiButton
  <1>3. CASE SaveEdit \/ CancelEdit \/ Reopen
    BY <1>1, <1>3 DEF SaveEdit, CancelEdit, Reopen
  <1>4. ASSUME NEW k \in Kinds, OpenEdit(k) PROVE ModalInv'
    <2>1. PICK i \in DOMAIN shown[k] :
            modal' = [id |-> shown[k][i], kind |-> k, live |-> Listed(k, shown[k][i]) /\ ~stale[k]]
      BY <1>4 DEF OpenEdit
    <2>2. shown[k][i] \in IdsOf(k)
      <3>1. shown[k] \in Seq(IdsOf(k))
        BY <1>0 DEF TablesInv
      <3>2. DOMAIN shown[k] = 1 .. Len(shown[k])
        BY <3>1, LenProperties
      <3> QED
        BY <3>1, <3>2, ElementOfSeq
    <2>3. UNCHANGED <<list, stale>>
      BY <1>4 DEF OpenEdit
    <2> QED
      BY <2>1, <2>2, <2>3 DEF ModalInv, Listed
  <1>5. ASSUME NEW k \in Kinds, McpAdd(k) PROVE ModalInv'
    <2>1. PICK r \in Free(k) : (modal = NoModal \/ modal.id # r) /\ list' = [list EXCEPT ![k] = Append(@, r)]
      BY <1>5 DEF McpAdd
    <2>2. UNCHANGED <<modal, stale>>
      BY <1>5 DEF McpAdd, ByAi
    <2>3. ASSUME modal # NoModal, Contains(list'[modal.kind], modal.id) PROVE Contains(list[modal.kind], modal.id)
      <3>1. CASE modal.kind = k
        <4>1. list'[k] = Append(list[k], r) /\ list[k] \in Seq(IdsOf(k)) /\ r \in IdsOf(k) /\ modal.id \in Ids
          BY <1>0, <2>1, <2>3, <3>1, ListedFacts, KindFacts DEF Free, ModalInv
        <4>2. SameOthers(list[k], Append(list[k], r), r)
          BY <4>1, RuleAdded
        <4> QED
          BY <2>1, <2>3, <3>1, <4>1, <4>2 DEF SameOthers
      <3>2. CASE modal.kind # k
        BY <1>0, <2>1, <2>3, <3>2
      <3> QED
        BY <3>1, <3>2
    <2> QED
      BY <1>0, <2>2, <2>3, ModalStays
  <1>6. ASSUME NEW k \in Kinds, McpMove(k) PROVE ModalInv'
    <2>1. PICK i \in DOMAIN list[k], n \in Indices : list' = [list EXCEPT ![k] = Moved(list[k], list[k][i], n)]
      BY <1>6 DEF McpMove
    <2>2. UNCHANGED <<modal, stale>>
      BY <1>6 DEF McpMove, ByAi
    <2>3. list[k][i] \in IdsOf(k) /\ list[k] \in Seq(IdsOf(k)) /\ Contains(list[k], list[k][i])
      BY <1>0, ListedFacts DEF Contains
    <2>4. SameOthers(list[k], Moved(list[k], list[k][i], n), list[k][i])
      BY <2>3, RuleMoved, RulesAssumption
    <2>5. ASSUME modal # NoModal, Contains(list'[modal.kind], modal.id) PROVE Contains(list[modal.kind], modal.id)
      <3>1. CASE modal.kind = k
        <4>1. list'[k] = Moved(list[k], list[k][i], n) /\ modal.id \in Ids
          BY <1>0, <2>1, <2>5, <3>1, KindFacts DEF ModalInv
        <4> QED
          BY <2>3, <2>4, <2>5, <3>1, <4>1 DEF SameOthers
      <3>2. CASE modal.kind # k
        BY <1>0, <2>1, <2>5, <3>2
      <3> QED
        BY <3>1, <3>2
    <2> QED
      BY <1>0, <2>2, <2>5, ModalStays
  <1>7. ASSUME NEW k \in Kinds, McpRemove(k) PROVE ModalInv'
    <2>1. PICK i \in DOMAIN list[k] : list' = [list EXCEPT ![k] = RemoveAt(list[k], i)] /\ Orphaned({list[k][i]})
      BY <1>7 DEF McpRemove
    <2>2. UNCHANGED stale
      BY <1>7 DEF McpRemove, ByAi
    <2>3. list[k] \in Seq(IdsOf(k)) /\ i \in 1 .. Len(list[k]) /\ Once(list[k]) /\ list[k][i] \in IdsOf(k)
      BY <1>0, ListedFacts
    <2> DEFINE s == RemoveAt(list[k], i)
    <2>4. Thinned(list[k], s, i)
      BY <2>3, RemovedPlace
    <2> HIDE DEF s
    <2>5. ~Contains(s, list[k][i]) /\ SameOthers(list[k], s, list[k][i])
      BY <2>3, <2>4, OnceThinned, OthersStay
    <2>6. \A r \in IdsOf(k) \ {list[k][i]} : Contains(s, r) => Contains(list[k], r)
      BY <2>5, KindFacts DEF SameOthers
    <2>7. list' = [list EXCEPT ![k] = s]
      BY <2>1 DEF s
    <2> QED
      BY <2>1, <2>2, <2>3, <2>5, <2>6, <2>7, ModalOrphaned
  <1>8. ASSUME NEW k \in Kinds, McpClear(k) PROVE ModalInv'
    <2>1. list' = [list EXCEPT ![k] = <<>>] /\ Orphaned(IdsOf(k)) /\ UNCHANGED stale
      BY <1>8 DEF McpClear, ByAi
    <2>2. \A r : ~Contains(<<>>, r)
      BY DEF Contains
    <2> QED
      BY <2>1, <2>2, ModalOrphaned
  <1>9. ASSUME UNCHANGED <<modal, stale, list>> PROVE ModalInv'
    BY <1>0, <1>9, ModalStays
  <1>10. ASSUME NEW k \in Kinds, McpUpdate(k) PROVE ModalInv'
    BY <1>9, <1>10 DEF McpUpdate, ByAi
  <1>11. CASE Frame \/ ScriptEdited \/ UNCHANGED rvars
    BY <1>9, <1>11 DEF Frame, ScriptEdited, rvars
  <1> QED
    BY <1>2, <1>3, <1>4, <1>5, <1>6, <1>7, <1>8, <1>10, <1>11 DEF RulesNext

(* The inductive invariant holds throughout.                               *)
LEMMA RulesInvHolds == RulesSpec => []RulesIInv
  <1>1. RulesIInv /\ [RulesNext]_rvars => RulesIInv'
    BY CoreStep, TablesStep, ModalStep DEF RulesIInv
  <1> QED
    BY <1>1, RulesInitInv, PTL DEF RulesSpec

---------------------------------------------------------------------------
(* The results.                                                            *)

(* However often rules are edited, change their type, are moved, switched, *)
(* run or removed, saving and reopening the project changes no decision of *)
(* the intercept rules and no byte the replace rules make: nothing that    *)
(* was compiled outlives the text it was compiled from (rules/rule.py,     *)
(* __post_init__; ui/modals/add_rule.py, _try_save).                       *)
THEOREM RestartNeverChangesAnything == RulesSpec => []RestartChangesNothing
  <1>1. RulesIInv => RestartChangesNothing
    <2> SUFFICES ASSUME RulesIInv PROVE RestartChangesNothing
      OBVIOUS
    <2>0. ListsInv /\ RulesInv
      BY DEF RulesIInv, CoreInv
    <2>1. ASSUME NEW k \in Kinds PROVE Reloaded(Objects(k)) = Forgetful(Objects(k))
      <3>1. \A i \in DOMAIN list[k] : FromDict(ToDict(rule[list[k][i]])) = [rule[list[k][i]] EXCEPT !.module = None]
        BY <2>0, ListedFacts, KindFacts, ReadBack DEF RulesInv
      <3> QED
        BY <3>1 DEF Reloaded, Forgetful, Objects
    <2>2. Forgetful(Objects("intercept")) = Objects("intercept")
      <3>1. ASSUME NEW i \in DOMAIN list["intercept"]
            PROVE  [rule[list["intercept"][i]] EXCEPT !.module = None] = rule[list["intercept"][i]]
        <4>1. list["intercept"][i] \in InterceptIds
          BY <2>0, ListedFacts DEF Kinds, IdsOf
        <4>2. IsRule(rule[list["intercept"][i]]) /\ rule[list["intercept"][i]].module = None
          BY <2>0, <4>1 DEF RulesInv, Ids
        <4> QED
          BY <4>2 DEF IsRule, Fields
      <3> QED
        BY <3>1 DEF Forgetful, Objects
    <2> QED
      BY <2>1, <2>2 DEF RestartChangesNothing, Kinds
  <1> QED
    BY <1>1, RulesInvHolds, PTL

(* A click changes the rule it was made on and no other, in whatever state *)
(* the table it was made in is: the tab acts by id, taking a rule out of a *)
(* list or putting it back leaves the order of the others, a list has no   *)
(* rule twice, and the object a modal edits is the listed one as long as   *)
(* the rule stays in the list and the project stays open (ui/tabs/         *)
(* tamper.py; ui/widgets/rule_table.py, _selected_rule; rules/engine.py,   *)
(* remove_rule and move_rule).                                             *)
THEOREM ClickAlwaysTouchesSelected == RulesSpec => ClickTouchesSelected
  <1> DEFINE Touches == click'.does # None =>
               /\ \A r \in Ids \ {click'.id} : rule'[r] = rule[r]
               /\ \A k \in Kinds : SameOthers(list[k], list'[k], click'.id)
               /\ click'.does = "remove" => ~Contains(list'[click'.kind], click'.id)
               /\ click'.does = "edit" /\ Listed(click'.kind, click'.id) /\ ~stale[click'.kind]
                  => Carries(rule'[click'.id], click'.form)
  <1>1. RulesIInv /\ [RulesNext]_rvars => [Touches]_rvars
    <2> SUFFICES ASSUME RulesIInv, RulesNext, click'.does # None PROVE Touches
      BY DEF rvars
    <2>0. CoreInv /\ ListsInv /\ RulesInv /\ ModalInv /\ DOMAIN rule = Ids /\ \A s, r : SameOthers(s, s, r)
      BY DEF RulesIInv, CoreInv, RulesInv, SameOthers
    <2>1. ASSUME NEW k \in Kinds, UiAdd(k) PROVE Touches
      <3>1. PICK r \in Free(k), f \in FormsOf(k) :
              /\ rule' = [rule EXCEPT ![r] = Created(f)] /\ list' = [list EXCEPT ![k] = Append(@, r)]
              /\ click' = Clicked(k, r, "add", f)
        BY <2>1 DEF UiAdd
      <3>2. click'.does = "add" /\ click'.id = r
        BY <3>1 DEF Clicked
      <3> QED
        BY <2>0, <2>1, <3>1, <3>2, AddStep DEF UiAdd
    <2>2. ASSUME NEW k \in Kinds, UiButton(k) PROVE Touches
      <3>1. PICK i \in DOMAIN shown[k] :
              LET r == shown[k][i] IN
              \/ UiRemove(k, r) /\ click' = Clicked(k, r, "remove", None) /\ UNCHANGED used
              \/ (UiUp(k, r) \/ UiDown(k, r) \/ UiToggle(k, r)) /\ click' = Clicked(k, r, "button", None) /\ UNCHANGED used
              \/ UiReset(k, r) /\ click' = Clicked(k, r, "button", None)
        BY <2>2 DEF UiButton
      <3>2. PICK r : r = shown[k][i]
        OBVIOUS
      <3>3. /\ click'.id = r /\ click'.kind = k /\ click'.does \in {"remove", "button"}
            /\ click'.does = "remove" => UiRemove(k, r)
            /\ \/ (UiRemove(k, r) \/ UiUp(k, r) \/ UiDown(k, r) \/ UiToggle(k, r)) /\ UNCHANGED used
               \/ UiReset(k, r)
        BY <3>1, <3>2 DEF Clicked
      <3>4. /\ \A x \in Ids \ {r} : rule'[x] = rule[x]
            /\ \A l \in Kinds : SameOthers(list[l], list'[l], r)
            /\ UiRemove(k, r) => ~Contains(list'[k], r)
        BY <2>0, <3>3, ButtonStep
      <3> QED
        BY <3>3, <3>4
    <2>3. CASE SaveEdit
      <3>1. PICK f \in FormsOf(modal.kind) :
              /\ rule' = IF modal.live THEN [rule EXCEPT ![modal.id] = Edited(rule[modal.id], f)] ELSE rule
              /\ click' = Clicked(modal.kind, modal.id, "edit", f)
        BY <2>3 DEF SaveEdit
      <3>2. click'.id = modal.id /\ click'.kind = modal.kind /\ click'.does = "edit" /\ click'.form = f
        BY <3>1 DEF Clicked
      <3>3. /\ modal.kind \in Kinds /\ modal.id \in Ids /\ UNCHANGED list
            /\ Listed(modal.kind, modal.id) /\ ~stale[modal.kind] => modal.live
        BY <2>0, <2>3, KindFacts DEF SaveEdit, ModalInv
      <3>4. IsRule(rule[modal.id])
        BY <2>0, <3>3 DEF RulesInv
      <3>5. Carries(Edited(rule[modal.id], f), f)
        BY <3>4, EditCarries
      <3>6. modal.live => rule'[modal.id] = Edited(rule[modal.id], f)
        BY <2>0, <3>1, <3>3
      <3>7. \A x \in Ids \ {modal.id} : rule'[x] = rule[x]
        BY <2>0, <3>1
      <3> QED
        BY <2>0, <3>2, <3>3, <3>5, <3>6, <3>7
    <2>4. ASSUME click' = NoClick PROVE FALSE
      BY <2>4 DEF NoClick, Clicked
    <2>5. \A k \in Kinds : ~OpenEdit(k) /\ ~McpAdd(k) /\ ~McpUpdate(k) /\ ~McpRemove(k) /\ ~McpMove(k) /\ ~McpClear(k)
      BY <2>4 DEF OpenEdit, McpAdd, McpUpdate, McpRemove, McpMove, McpClear, ByAi
    <2>6. ~CancelEdit /\ ~Reopen /\ ~Frame /\ ~ScriptEdited
      BY <2>4 DEF CancelEdit, Reopen, Frame, ScriptEdited
    <2> QED
      BY <2>1, <2>2, <2>3, <2>5, <2>6 DEF RulesNext
  <1> QED
    BY <1>1, RulesInvHolds, PTL DEF RulesSpec, ClickTouchesSelected

(* After a script failed to load or raised, or was reset, what the file    *)
(* holds when it runs next is what runs: a failed module is never kept     *)
(* (rules/rule.py, _apply_script and reset_script_state).                  *)
THEOREM RepairedScriptIsAlwaysUsed == RulesSpec => RepairedScriptIsUsed
  <1> DEFINE Repaired == \A r \in ReplaceIds :
               /\ used'[r].frame # used[r].frame
               /\ used[r].version \in Unloadable \union {"raises"} \/ used[r].reset
               => used'[r].version = disk
  <1>1. RulesIInv /\ [RulesNext]_rvars => [Repaired]_rvars
    <2> SUFFICES ASSUME RulesIInv, RulesNext,
                        NEW r \in ReplaceIds, used'[r].frame # used[r].frame,
                        used[r].version \in Unloadable \union {"raises"} \/ used[r].reset
                 PROVE  used'[r].version = disk
      BY DEF rvars
    <2>0. r \in Ids /\ rule[r].module = None /\ DOMAIN used = Ids
      BY DEF RulesIInv, CoreInv, ScriptsInv, Failed, Ids
    <2>1. CASE Frame
      <3>1. PICK ran \in {ScriptsRun(frame, scope) : frame \in Frames, scope \in Scopes} :
              used' = [x \in Ids |-> IF x \in ran THEN [version |-> RunScript(rule[x]).used, frame |-> count'.frames,
                                                        reset |-> FALSE]
                                    ELSE used[x]]
        BY <2>1, SMTT(30) DEF Frame
      <3>2. used'[r] = [version |-> RunScript(rule[r]).used, frame |-> count'.frames, reset |-> FALSE]
        BY <2>0, <3>1
      <3> QED
        BY <2>0, <3>2 DEF RunScript
    <2>2. CASE UNCHANGED used
      BY <2>2
    <2>3. ASSUME NEW k \in Kinds, UiButton(k), ~UNCHANGED used PROVE FALSE
      <3>1. PICK x : used' = [used EXCEPT ![x].reset = TRUE]
        BY <2>3 DEF UiButton, UiReset
      <3>2. used[r] = [version |-> used[r].version, frame |-> used[r].frame, reset |-> used[r].reset]
        BY <2>0 DEF RulesIInv, CoreInv, ScriptsInv
      <3>3. used'[r].frame = used[r].frame
        <4>1. CASE x = r
          <5>1. used'[r] = [used[r] EXCEPT !.reset = TRUE]
            BY <2>0, <3>1, <4>1
          <5> QED
            BY <3>2, <5>1
        <4>2. CASE x # r
          BY <2>0, <3>1, <4>2
        <4> QED
          BY <4>1, <4>2
      <3> QED
        BY <3>3
    <2>4. Frame \/ UNCHANGED used \/ \E k \in Kinds : UiButton(k)
      BY DEF RulesNext, UiAdd, OpenEdit, McpAdd, McpUpdate, McpRemove, McpMove, McpClear, ByAi,
             SaveEdit, CancelEdit, Reopen, ScriptEdited
    <2> QED
      BY <2>1, <2>2, <2>3, <2>4
  <1> QED
    BY <1>1, RulesInvHolds, PTL DEF RulesSpec, RepairedScriptIsUsed

---------------------------------------------------------------------------
(* The playbooks.  Every frame is at one place of one playbook, playbooks  *)
(* have distinct identities, and a worker whose playbook was not edited    *)
(* goes through a list whose frames hold the texts shown when it began.    *)
Sendings == [frame : FrameIds, text : Texts]
Ever == past.books \cup ToSet(books)
Apart(fr) ==
    \A b, c \in Books : \A i \in DOMAIN fr[b], j \in DOMAIN fr[c] : fr[b][i] = fr[c][j] => b = c /\ i = j
Placed(fr) == UNION {ToSet(fr[b]) : b \in Books}
Shown(i, items, texts) == IF i = 0 THEN "" ELSE texts[items[i]]

BookTypes ==
    /\ Ever \subseteq Books
    /\ books \in Seq(Books) /\ \A i, j \in DOMAIN books : books[i] = books[j] => i = j
    /\ frames \in [Books -> Seq(FrameIds)] /\ Apart(frames)
    /\ hex \in [FrameIds -> Texts] /\ meant \in [FrameIds -> Texts]
    /\ \A f \in Placed(frames) : hex[f] # Unborn /\ meant[f] # Unborn

TabFields == {"current", "selected", "anchor", "cursor", "extending", "chosen", "rows", "editor", "mode"}
TabTypes ==
    /\ DOMAIN tab = TabFields
    /\ tab.current \in 0 .. Len(books) /\ tab.selected \in Nat /\ tab.editor \in Texts \ {Unborn}

Follows(w) ==
    /\ task[w].began = [i \in DOMAIN List(w) |-> task[w].began[i]]
    /\ \A i \in DOMAIN List(w) :
          /\ List(w)[i] \in ToSet(frames[task[w].book])
          /\ hex[List(w)[i]] = task[w].began[i] /\ meant[List(w)[i]] = task[w].began[i]
    /\ task[w].at = Len(task[w].sent) + 1 /\ Len(task[w].sent) <= Len(List(w))
    /\ \A i \in DOMAIN task[w].sent : task[w].sent[i].text = task[w].began[i]

WorkFields == {"pc", "kind", "book", "only", "at", "sent", "cancelled", "began", "kept", "touched"}
Work(w) ==
    /\ DOMAIN task[w] = WorkFields
    /\ task[w].sent \in Seq(Sendings) /\ task[w].only \in Seq(FrameIds) /\ task[w].at \in Nat \ {0}
    /\ task[w].pc # "none" => task[w].book \in Ever
    /\ Ongoing(w) /\ ~task[w].touched /\ Bad \notin ToSet(task[w].began) => Follows(w)
WorkersInv == DOMAIN task = Tasks /\ \A w \in Tasks : Work(w)

Histories == [task : Tasks, sent : Seq(Sendings)]
RunsTypes == runs \in [Books -> Seq(Histories)]

BooksIInv == BookTypes /\ TabTypes /\ WorkersInv /\ RunsTypes /\ EditsStay /\ RunsAreFaithful

---------------------------------------------------------------------------
(* What is known of the frames and of the one that is selected.            *)
LEMMA BookFacts ==
  ASSUME BooksIInv
  PROVE  /\ books \in Seq(Books) /\ Len(books) \in Nat /\ DOMAIN books = 1 .. Len(books)
         /\ tab.current \in Nat /\ tab.current <= Len(books)
         /\ tab.current # 0 => /\ tab.current \in DOMAIN books /\ Book \in ToSet(books) /\ Book \in Books
                               /\ tab.rows = frames[Book] /\ tab.selected <= Len(frames[Book])
         /\ ToSet(books) \subseteq Books /\ Ever \subseteq Books
         /\ \A b \in Books : /\ frames[b] \in Seq(FrameIds) /\ Len(frames[b]) \in Nat
                             /\ DOMAIN frames[b] = 1 .. Len(frames[b])
                             /\ ToSet(frames[b]) \subseteq FrameIds /\ ToSet(frames[b]) \subseteq Placed(frames)
  <1>1. books \in Seq(Books) /\ Len(books) \in Nat /\ DOMAIN books = 1 .. Len(books)
    BY LenProperties DEF BooksIInv, BookTypes
  <1>2. tab.current \in Nat /\ tab.current <= Len(books)
    BY <1>1 DEF BooksIInv, TabTypes
  <1>3. ToSet(books) \subseteq Books /\ Ever \subseteq Books
    BY DEF BooksIInv, BookTypes, Ever
  <1>4. tab.current # 0 => tab.current \in DOMAIN books /\ Book \in ToSet(books) /\ Book \in Books
                           /\ tab.rows = frames[Book] /\ tab.selected <= Len(frames[Book])
    BY <1>1, <1>2, <1>3 DEF BooksIInv, EditsStay, Book, ToSet
  <1>5. ASSUME NEW b \in Books
        PROVE  /\ frames[b] \in Seq(FrameIds) /\ Len(frames[b]) \in Nat
               /\ DOMAIN frames[b] = 1 .. Len(frames[b])
               /\ ToSet(frames[b]) \subseteq FrameIds /\ ToSet(frames[b]) \subseteq Placed(frames)
    <2>1. frames[b] \in Seq(FrameIds)
      BY DEF BooksIInv, BookTypes
    <2>2. Len(frames[b]) \in Nat /\ DOMAIN frames[b] = 1 .. Len(frames[b])
      BY <2>1, LenProperties
    <2>3. ToSet(frames[b]) \subseteq FrameIds
      BY <2>1, <2>2, ElementOfSeq DEF ToSet
    <2> QED
      BY <2>1, <2>2, <2>3 DEF Placed
  <1> QED
    BY <1>1, <1>2, <1>3, <1>4, <1>5

LEMMA SelectedFacts ==
  ASSUME BooksIInv, NEW f \in Selected
  PROVE  /\ tab.current # 0 /\ tab.selected \in 1 .. Len(frames[Book])
         /\ f = frames[Book][tab.selected] /\ Selected = {f}
         /\ f \in FrameIds /\ f \in ToSet(frames[Book])
         /\ \A b \in Books : f \in ToSet(frames[b]) => b = Book
  <1>1. tab.current # 0 /\ tab.selected # 0 /\ f = frames[Book][tab.selected] /\ Selected = {f}
    BY DEF Selected
  <1>2. tab.selected \in 1 .. Len(frames[Book]) /\ Book \in Books
    BY <1>1, BookFacts DEF BooksIInv, TabTypes
  <1>3. f \in ToSet(frames[Book]) /\ f \in FrameIds
    BY <1>1, <1>2, BookFacts DEF ToSet
  <1>4. \A b \in Books : f \in ToSet(frames[b]) => b = Book
    BY <1>1, <1>2, BookFacts DEF BooksIInv, BookTypes, Apart, ToSet
  <1> QED
    BY <1>1, <1>2, <1>3, <1>4

LEMMA FreshFacts ==
  ASSUME BooksIInv, NEW f \in Fresh
  PROVE  f \in FrameIds /\ f \notin Placed(frames) /\ f \notin Selected
  <1>1. f \in FrameIds /\ f \notin Placed(frames)
    BY DEF Fresh, BooksIInv, BookTypes
  <1>2. f \notin Selected
    BY <1>1, SelectedFacts, BookFacts
  <1> QED
    BY <1>1, <1>2

(* Saving the editor.                                                      *)
LEMMA SavedFacts ==
  ASSUME BooksIInv
  PROVE  /\ Saved \in [FrameIds -> Texts]
         /\ \A f \in FrameIds \ Selected : Saved[f] = hex[f]
         /\ \A f \in Placed(frames) : Saved[f] # Unborn
         /\ \A b \in ToSet(books) : \A f \in ToSet(frames[b]) : meant[f] # Bad => meant[f] = Saved[f]
         /\ \A w \in Tasks : Follows(w) /\ Bad \notin ToSet(task[w].began) /\ task[w].book \in Books
               => \A i \in DOMAIN List(w) : Saved[List(w)[i]] = task[w].began[i]
  <1>1. /\ Saved \in [FrameIds -> Texts]
        /\ \A f \in FrameIds : Saved[f] = IF f \in Selected /\ ~(tab.mode = "str" /\ tab.editor = Bad)
                                          THEN tab.editor ELSE hex[f]
        /\ \A f \in FrameIds \ Selected : Saved[f] = hex[f]
    BY DEF Saved, BooksIInv, BookTypes, TabTypes
  <1>2. \A f \in Placed(frames) : f \in FrameIds /\ Saved[f] # Unborn
    <2>1. \A f \in Placed(frames) : f \in FrameIds
      BY BookFacts DEF Placed
    <2> QED
      BY <1>1, <2>1 DEF BooksIInv, BookTypes, TabTypes
  <1>3. ASSUME NEW b \in ToSet(books), NEW f \in ToSet(frames[b]), meant[f] # Bad
        PROVE  meant[f] = Saved[f] /\ (f \in Selected => meant[f] = tab.editor)
    <2>1. meant[f] = IF f \in Selected THEN tab.editor ELSE hex[f]
      BY <1>3 DEF BooksIInv, EditsStay
    <2>2. f \in FrameIds
      BY BookFacts
    <2> QED
      BY <1>1, <1>3, <2>1, <2>2
  <1>4. ASSUME NEW w \in Tasks, Follows(w), Bad \notin ToSet(task[w].began), task[w].book \in Books,
               NEW i \in DOMAIN List(w)
        PROVE  Saved[List(w)[i]] = task[w].began[i]
    <2> DEFINE f == List(w)[i]
    <2>1. f \in ToSet(frames[task[w].book]) /\ hex[f] = task[w].began[i] /\ meant[f] = task[w].began[i]
      BY <1>4 DEF Follows
    <2>2. task[w].began[i] # Bad
      BY <1>4 DEF Follows, ToSet
    <2>3. f \in FrameIds
      BY <1>4, <2>1, BookFacts
    <2> HIDE DEF f
    <2>4. CASE f \in Selected
      <3>1. f \in ToSet(frames[Book]) /\ Book \in ToSet(books)
        BY <2>4, SelectedFacts, BookFacts
      <3>2. meant[f] = Saved[f]
        BY <1>3, <2>1, <2>2, <3>1
      <3> QED
        BY <2>1, <3>2 DEF f
    <2>5. CASE f \notin Selected
      BY <1>1, <2>1, <2>3, <2>5 DEF f
    <2> QED
      BY <2>4, <2>5
  <1> QED
    BY <1>1, <1>2, <1>3, <1>4

---------------------------------------------------------------------------
(* The workers while the operator works on the tab: they do not move, and  *)
(* those of an edited playbook are marked.                                 *)
SameWork(w) ==
    /\ DOMAIN task'[w] = WorkFields
    /\ \A x \in {"pc", "kind", "book", "only", "at", "sent", "began"} : task'[w][x] = task[w][x]
    /\ ~task'[w].touched => ~task[w].touched
    /\ task[w].pc = "done" /\ ~task[w].cancelled => ~task'[w].cancelled

LEMMA SameFields ==
  ASSUME NEW w, SameWork(w)
  PROVE  /\ task'[w].pc = task[w].pc /\ task'[w].kind = task[w].kind /\ task'[w].book = task[w].book
         /\ task'[w].only = task[w].only /\ task'[w].at = task[w].at /\ task'[w].sent = task[w].sent
         /\ task'[w].began = task[w].began
  BY DEF SameWork

(* The frames a worker that nobody disturbed goes through are as before;   *)
(* that the editor is saved does not disturb it.                           *)
Quiet(b) ==
    /\ frames'[b] = frames[b]
    /\ \A f \in ToSet(frames[b]) : meant'[f] = meant[f] /\ hex'[f] \in {hex[f], Saved[f]}

LEMMA WorkStays ==
  ASSUME BooksIInv, NEW w \in Tasks, SameWork(w), Ever \subseteq Ever',
         Ongoing(w) /\ ~task'[w].touched => Quiet(task[w].book)
  PROVE  Work(w)'
  <1>1. Work(w)
    BY DEF BooksIInv, WorkersInv
  <1>2. /\ task'[w].pc = task[w].pc /\ task'[w].kind = task[w].kind /\ task'[w].book = task[w].book
        /\ task'[w].only = task[w].only /\ task'[w].at = task[w].at /\ task'[w].sent = task[w].sent
        /\ task'[w].began = task[w].began
    BY SameFields
  <1>3. ASSUME Ongoing(w)', ~task'[w].touched, Bad \notin ToSet(task[w].began) PROVE Follows(w)'
    <2>1. Ongoing(w) /\ ~task[w].touched
      BY <1>2, <1>3 DEF Ongoing, SameWork
    <2>2. Follows(w) /\ Quiet(task[w].book)
      BY <1>1, <1>3, <2>1 DEF Work
    <2>3. List(w)' = List(w)
      BY <1>2, <2>2 DEF List, Quiet
    <2>4. task[w].book \in Books
      BY <1>1, <2>1, BookFacts DEF Work, Ongoing
    <2>5. \A i \in DOMAIN List(w) :
              /\ List(w)[i] \in ToSet(frames[task[w].book])
              /\ hex[List(w)[i]] = task[w].began[i] /\ meant[List(w)[i]] = task[w].began[i]
              /\ Saved[List(w)[i]] = task[w].began[i]
      BY <1>3, <2>2, <2>4, SavedFacts DEF Follows
    <2>6. \A i \in DOMAIN List(w) :
              /\ List(w)[i] \in ToSet(frames'[task[w].book])
              /\ hex'[List(w)[i]] = task[w].began[i] /\ meant'[List(w)[i]] = task[w].began[i]
      BY <2>2, <2>5 DEF Quiet
    <2> QED
      BY <1>2, <2>2, <2>3, <2>6 DEF Follows
  <1>4. DOMAIN task'[w] = WorkFields
    BY DEF SameWork
  <1> QED
    BY <1>1, <1>2, <1>3, <1>4 DEF Work, Ongoing

LEMMA RunFacts ==
  ASSUME BooksIInv, NEW b \in Books, NEW k \in DOMAIN runs[b]
  PROVE  runs[b][k].task \in Tasks /\ task[runs[b][k].task].pc = "done"
  <1>1. runs[b] \in Seq(Histories)
    BY DEF BooksIInv, RunsTypes
  <1>2. runs[b][k] \in Histories
    BY <1>1, ElementOfSeq, LenProperties
  <1>3. task[runs[b][k].task].pc = "done"
    BY DEF BooksIInv, RunsAreFaithful, RunsAreWhole
  <1> QED
    BY <1>2, <1>3 DEF Histories

LEMMA RunsStay ==
  ASSUME BooksIInv, \A w \in Tasks : task[w].pc = "done" => SameWork(w), UNCHANGED runs
  PROVE  RunsTypes' /\ RunsAreFaithful'
  <1>1. RunsTypes'
    BY DEF BooksIInv, RunsTypes
  <1>2. \A b \in Books : \A k \in DOMAIN runs[b] : runs[b][k].task \in Tasks /\ SameWork(runs[b][k].task)
    BY RunFacts
  <1>3. RunSendsWhatIsShown'
    <2> SUFFICES ASSUME NEW b \in Books, NEW k \in DOMAIN runs'[b],
                        ~task'[runs'[b][k].task].touched, Bad \notin ToSet(task'[runs'[b][k].task].began)
                 PROVE  task'[runs'[b][k].task].began =
                          [i \in DOMAIN task'[runs'[b][k].task].sent |-> task'[runs'[b][k].task].sent[i].text]
      BY DEF RunSendsWhatIsShown
    <2>1. PICK w : w = runs[b][k].task
      OBVIOUS
    <2>2. k \in DOMAIN runs[b] /\ runs'[b][k].task = w
      BY <2>1
    <2>3. w \in Tasks /\ SameWork(w)
      BY <1>2, <2>1, <2>2
    <2>4. ~task[w].touched /\ task'[w].began = task[w].began /\ task'[w].sent = task[w].sent
      BY <2>2, <2>3, SameFields DEF SameWork
    <2>5. Bad \notin ToSet(task[w].began)
      <3>1. Bad \notin ToSet(task'[w].began)
        BY <2>2, ZenonT(40)
      <3> QED
        BY <2>4, <3>1, ZenonT(40)
    <2>6. task[w].began = [i \in DOMAIN task[w].sent |-> task[w].sent[i].text]
      <3>1. RunSendsWhatIsShown
        BY DEF BooksIInv, RunsAreFaithful
      <3>2. ~task[runs[b][k].task].touched /\ Bad \notin ToSet(task[runs[b][k].task].began)
            => task[runs[b][k].task].began =
                 [i \in DOMAIN task[runs[b][k].task].sent |-> task[runs[b][k].task].sent[i].text]
        BY <2>2, <3>1 DEF RunSendsWhatIsShown
      <3> QED
        BY <2>1, <2>2, <2>4, <2>5, <3>2
    <2> QED
      BY <2>2, <2>4, <2>6
  <1>4. RunsAreWhole'
    <2> SUFFICES ASSUME NEW b \in Books, NEW k \in DOMAIN runs[b]
                 PROVE  LET w == runs[b][k].task IN
                        /\ task'[w].pc = "done" /\ task'[w].book = b /\ ~task'[w].cancelled
                        /\ runs[b][k].sent = task'[w].sent
                        /\ \A j \in DOMAIN runs[b] \ {k} : runs[b][j].task # w
      BY DEF RunsAreWhole
    <2> DEFINE w == runs[b][k].task
    <2>1. w \in Tasks /\ SameWork(w)
      BY <1>2
    <2>2. /\ task[w].pc = "done" /\ task[w].book = b /\ ~task[w].cancelled /\ runs[b][k].sent = task[w].sent
          /\ \A j \in DOMAIN runs[b] \ {k} : runs[b][j].task # w
      BY DEF BooksIInv, RunsAreFaithful, RunsAreWhole
    <2>3. /\ task'[w].pc = "done" /\ task'[w].book = b /\ ~task'[w].cancelled
          /\ runs[b][k].sent = task'[w].sent
      BY <2>1, <2>2, SameFields DEF SameWork
    <2> QED
      BY <2>2, <2>3
  <1> QED
    BY <1>1, <1>3, <1>4 DEF RunsAreFaithful

LEMMA EditKeeps ==
  ASSUME BooksIInv, DOMAIN task' = Tasks, \A w \in Tasks : SameWork(w), UNCHANGED runs,
         BookTypes', TabTypes', EditsStay', Ever \subseteq Ever',
         \A w \in Tasks : Ongoing(w) /\ ~task'[w].touched => Quiet(task[w].book)
  PROVE  BooksIInv'
  <1>1. \A w \in Tasks : Work(w)'
    BY WorkStays
  <1>2. RunsTypes' /\ RunsAreFaithful'
    BY RunsStay
  <1> QED
    BY <1>1, <1>2 DEF BooksIInv, WorkersInv

LEMMA TasksSame ==
  ASSUME BooksIInv, UNCHANGED task
  PROVE  DOMAIN task' = Tasks /\ \A w \in Tasks : SameWork(w)
  BY DEF BooksIInv, WorkersInv, Work, SameWork

LEMMA TouchedSame ==
  ASSUME BooksIInv, NEW b, task' = Touched(b)
  PROVE  /\ DOMAIN task' = Tasks /\ \A w \in Tasks : SameWork(w)
         /\ \A w \in Tasks : Ongoing(w) /\ task[w].book = b => task'[w].touched
  <1>1. DOMAIN task' = Tasks
    BY DEF Touched
  <1>2. ASSUME NEW w \in Tasks
        PROVE  SameWork(w) /\ (Ongoing(w) /\ task[w].book = b => task'[w].touched)
    <2>1. DOMAIN task[w] = WorkFields
      BY DEF BooksIInv, WorkersInv, Work
    <2>2. CASE Ongoing(w) /\ task[w].book = b
      <3>1. task'[w] = [task[w] EXCEPT !.touched = TRUE, !.kept = @ \cap ToSet(frames'[b])]
        BY <2>2 DEF Touched
      <3>2. task[w].pc # "done"
        BY <2>2 DEF Ongoing
      <3> QED
        BY <2>1, <3>1, <3>2 DEF SameWork, WorkFields
    <2>3. CASE ~(Ongoing(w) /\ task[w].book = b)
      <3>1. task'[w] = task[w]
        BY <2>3 DEF Touched
      <3> QED
        BY <2>1, <2>3, <3>1 DEF SameWork
    <2> QED
      BY <2>2, <2>3
  <1> QED
    BY <1>1, <1>2

(* A playbook gets another list: frames of its own and new ones.           *)
LEMMA ListReplaced ==
  ASSUME NEW fr \in [Books -> Seq(FrameIds)], Apart(fr), NEW b \in Books,
         NEW items \in Seq(FrameIds), \A i, j \in DOMAIN items : items[i] = items[j] => i = j,
         NEW new, \A f \in new : f \notin Placed(fr),
         ToSet(items) \subseteq ToSet(fr[b]) \cup new,
         NEW fr2, fr2 = [fr EXCEPT ![b] = items]
  PROVE  /\ fr2 \in [Books -> Seq(FrameIds)] /\ Apart(fr2)
         /\ fr2[b] = items /\ \A c \in Books \ {b} : fr2[c] = fr[c]
         /\ Placed(fr2) \subseteq Placed(fr) \cup new
  <1>1. /\ fr2 \in [Books -> Seq(FrameIds)]
        /\ fr2[b] = items /\ \A c \in Books \ {b} : fr2[c] = fr[c]
    OBVIOUS
  <1>2. ASSUME NEW c \in Books \ {b}, NEW i \in DOMAIN items, NEW j \in DOMAIN fr[c] PROVE items[i] # fr[c][j]
    <2>1. fr[c][j] \in Placed(fr)
      BY DEF Placed, ToSet
    <2>2. CASE items[i] \in new
      BY <2>1, <2>2
    <2>3. CASE items[i] \in ToSet(fr[b])
      <3>1. PICK k \in DOMAIN fr[b] : fr[b][k] = items[i]
        BY <2>3 DEF ToSet
      <3> QED
        BY <3>1 DEF Apart
    <2>4. items[i] \in ToSet(items)
      BY DEF ToSet
    <2> QED
      BY <2>2, <2>3, <2>4
  <1>3. Apart(fr2)
    <2> SUFFICES ASSUME NEW c \in Books, NEW d \in Books, NEW i \in DOMAIN fr2[c], NEW j \in DOMAIN fr2[d],
                        fr2[c][i] = fr2[d][j]
                 PROVE  c = d /\ i = j
      BY DEF Apart
    <2>1. CASE c = b /\ d = b
      BY <1>1, <2>1
    <2>2. CASE c # b /\ d # b
      BY <1>1, <2>2 DEF Apart
    <2>3. CASE c = b /\ d # b
      BY <1>1, <1>2, <2>3
    <2>4. CASE c # b /\ d = b
      BY <1>1, <1>2, <2>4
    <2> QED
      BY <2>1, <2>2, <2>3, <2>4
  <1>4. Placed(fr2) \subseteq Placed(fr) \cup new
    <2> SUFFICES ASSUME NEW c \in Books, NEW f \in ToSet(fr2[c]) PROVE f \in Placed(fr) \cup new
      BY DEF Placed
    <2>1. f \in ToSet(fr[c]) \cup new
      BY <1>1
    <2> QED
      BY <2>1 DEF Placed
  <1> QED
    BY <1>1, <1>3, <1>4

---------------------------------------------------------------------------
(* Steps that change neither the playbooks nor what the operator means.    *)
LEMMA EverGrows ==
  ASSUME BooksIInv, UNCHANGED <<past, books>> \/ Op, NEW new \in SUBSET Books,
         ToSet(books') \subseteq ToSet(books) \cup new
  PROVE  Ever \subseteq Ever' /\ Ever' \subseteq Books
  <1>1. Ever \subseteq Books
    BY BookFacts
  <1>2. CASE UNCHANGED <<past, books>>
    BY <1>1, <1>2 DEF Ever
  <1>3. CASE Op
    <2>1. past'.books = Ever
      BY <1>3 DEF Op, Ever
    <2> QED
      BY <1>1, <2>1 DEF Ever
  <1> QED
    BY <1>2, <1>3

LEMMA ViewTypes ==
  ASSUME BooksIInv, UNCHANGED <<books, frames, meant>>, hex' = hex \/ hex' = Saved, UNCHANGED past \/ Op
  PROVE  BookTypes' /\ Ever \subseteq Ever'
  <1>1. Ever \subseteq Ever' /\ Ever' \subseteq Books
    <2>1. ToSet(books') \subseteq ToSet(books) \cup {} /\ {} \in SUBSET Books
      OBVIOUS
    <2> QED
      BY <2>1, EverGrows
  <1>2. hex' \in [FrameIds -> Texts] /\ \A f \in Placed(frames) : hex'[f] # Unborn
    BY SavedFacts DEF BooksIInv, BookTypes
  <1> QED
    BY <1>1, <1>2 DEF BooksIInv, BookTypes

LEMMA ViewKeeps ==
  ASSUME BooksIInv, UNCHANGED <<books, frames, meant, runs>>, hex' = hex \/ hex' = Saved,
         UNCHANGED past \/ Op, DOMAIN task' = Tasks, \A w \in Tasks : SameWork(w),
         TabTypes', EditsStay'
  PROVE  BooksIInv'
  <1>1. \A w \in Tasks : Quiet(task[w].book)
    BY DEF Quiet
  <1> QED
    BY <1>1, ViewTypes, EditKeeps

LEMMA TabSame ==
  ASSUME BooksIInv, UNCHANGED <<books, frames, meant>>, hex' = hex \/ hex' = Saved,
         DOMAIN tab' = TabFields, tab'.current = tab.current, tab'.selected = tab.selected,
         tab'.rows = tab.rows, tab'.editor = tab.editor
  PROVE  TabTypes' /\ EditsStay'
  <1>1. TabTypes'
    BY DEF BooksIInv, TabTypes
  <1>2. Selected' = Selected /\ Book' = Book
    BY DEF Selected, Book
  <1>3. tab'.current # 0 => tab'.rows = frames'[Book'] /\ tab'.selected <= Len(frames'[Book'])
    BY <1>2, BookFacts
  <1>4. ASSUME NEW b \in ToSet(books), NEW f \in ToSet(frames[b]), meant[f] # Bad
        PROVE  meant[f] = IF f \in Selected THEN tab.editor ELSE hex'[f]
    <2>1. meant[f] = (IF f \in Selected THEN tab.editor ELSE hex[f])
      BY <1>4 DEF BooksIInv, EditsStay
    <2>2. f \notin Selected => hex'[f] = hex[f]
      BY BookFacts, SavedFacts
    <2> QED
      BY <2>1, <2>2
  <1> QED
    BY <1>1, <1>2, <1>3, <1>4 DEF EditsStay

(* The frame at place k of playbook c is loaded into the editor; with      *)
(* k = 0 the editor is empty.                                              *)
LEMMA TabLoads ==
  ASSUME BookTypes', DOMAIN tab' = TabFields, NEW c \in 1 .. Len(books'), NEW k \in Nat,
         k <= Len(frames'[books'[c]]), tab'.current = c, tab'.selected = k,
         tab'.rows = frames'[books'[c]], tab'.editor = Shown(k, frames'[books'[c]], hex'),
         \A b \in ToSet(books') : \A f \in ToSet(frames'[b]) : meant'[f] # Bad => meant'[f] = hex'[f]
  PROVE  TabTypes' /\ EditsStay'
  <1> DEFINE items == frames'[books'[c]]
  <1>1. books'[c] \in Books
    <2>1. books' \in Seq(Books)
      BY DEF BookTypes
    <2> QED
      BY <2>1, ElementOfSeq
  <1>2. items \in Seq(FrameIds) /\ items = frames'[books'[c]]
    BY <1>1 DEF BookTypes
  <1>3. \A f \in ToSet(items) : f \in Placed(frames')
    BY <1>1 DEF Placed
  <1>4. hex' \in [FrameIds -> Texts] /\ \A f \in Placed(frames') : hex'[f] # Unborn
    BY DEF BookTypes
  <1>5. tab'.editor = Shown(k, items, hex') /\ k <= Len(items) /\ tab'.rows = items
    OBVIOUS
  <1> HIDE DEF items
  <1>6. k # 0 => items[k] \in ToSet(items) /\ items[k] \in FrameIds /\ tab'.editor = hex'[items[k]]
    <2> SUFFICES ASSUME k # 0 PROVE items[k] \in ToSet(items) /\ items[k] \in FrameIds /\ tab'.editor = hex'[items[k]]
      OBVIOUS
    <2>1. k \in 1 .. Len(items) /\ DOMAIN items = 1 .. Len(items)
      BY <1>2, <1>5, LenProperties
    <2>2. items[k] \in ToSet(items) /\ items[k] \in FrameIds
      BY <1>2, <2>1, ElementOfSeq DEF ToSet
    <2>3. tab'.editor = hex'[items[k]]
      BY <1>5 DEF Shown
    <2> QED
      BY <2>2, <2>3
  <1>7. tab'.editor \in Texts \ {Unborn}
    <2>1. CASE k = 0
      BY <1>5, <2>1, PlaybooksAssumption DEF Shown
    <2>2. CASE k # 0
      BY <1>3, <1>4, <1>6, <2>2
    <2> QED
      BY <2>1, <2>2
  <1>8. TabTypes'
    <2>1. books' \in Seq(Books)
      BY DEF BookTypes
    <2>2. Len(books') \in Nat
      BY <2>1, LenProperties
    <2> QED
      BY <1>7, <2>2 DEF TabTypes
  <1>9. Book' = books'[c]
    BY DEF Book
  <1>10. \A f \in Selected' : k # 0 /\ f = items[k]
    BY <1>2, <1>9 DEF Selected
  <1>11. tab'.current # 0 => tab'.rows = frames'[Book'] /\ tab'.selected <= Len(frames'[Book'])
    BY <1>2, <1>5, <1>9
  <1>12. ASSUME NEW b \in ToSet(books'), NEW f \in ToSet(frames'[b]), meant'[f] # Bad
        PROVE  meant'[f] = IF f \in Selected' THEN tab'.editor ELSE hex'[f]
    <2>1. meant'[f] = hex'[f]
      BY <1>12
    <2>2. CASE f \in Selected'
      BY <1>6, <1>10, <2>1, <2>2
    <2>3. CASE f \notin Selected'
      BY <2>1, <2>3
    <2> QED
      BY <2>2, <2>3
  <1> QED
    BY <1>8, <1>11, <1>12 DEF EditsStay

(* What the helpers of the tab leave.                                      *)
LEMMA IsRefreshed ==
  ASSUME NEW t, DOMAIN t = TabFields, NEW items, NEW row, NEW r, r = Refresh(t, items, row)
  PROVE  /\ DOMAIN r = TabFields /\ r.rows = items
         /\ r.current = t.current /\ r.selected = t.selected /\ r.editor = t.editor
  <1>1. DOMAIN r = TabFields
    BY DEF Refresh
  <1>2. r.rows = items
    BY DEF TabFields, Refresh
  <1>3. r.current = t.current /\ r.selected = t.selected /\ r.editor = t.editor
    BY DEF TabFields, Refresh
  <1> QED
    BY <1>1, <1>2, <1>3

LEMMA IsLoaded ==
  ASSUME NEW t, DOMAIN t = TabFields, NEW items, NEW i, tab' = Loaded(t, items, i)
  PROVE  /\ DOMAIN tab' = TabFields /\ tab'.current = t.current /\ tab'.rows = t.rows
         /\ tab'.selected = i /\ tab'.editor = Shown(i, items, hex')
  <1> DEFINE text == Shown(i, items, hex')
  <1>1. tab' = [t EXCEPT !.selected = i, !.editor = text]
    BY DEF Loaded, Shown
  <1> HIDE DEF text
  <1>2. /\ DOMAIN tab' = TabFields /\ tab'.current = t.current /\ tab'.rows = t.rows
        /\ tab'.selected = i /\ tab'.editor = text
    BY <1>1 DEF TabFields
  <1> QED
    BY <1>2 DEF text

LEMMA Switched ==
  ASSUME DOMAIN tab = TabFields, NEW i, Switch(tab, i)
  PROVE  /\ DOMAIN tab' = TabFields /\ tab'.current = i /\ tab'.rows = frames'[books'[i]]
         /\ tab'.selected = 0 /\ tab'.editor = Shown(0, frames'[books'[i]], hex')
  <1> DEFINE none == 0
             items == frames'[books'[i]]
             text == ""
  <1>1. PICK r : r = Refresh(tab, items, none)
    OBVIOUS
  <1>2. tab' = [r EXCEPT !.current = i, !.selected = none, !.editor = text]
    BY <1>1 DEF Switch
  <1>3. Shown(none, items, hex') = text
    BY DEF Shown
  <1> HIDE DEF none, items, text
  <1>4. DOMAIN r = TabFields /\ r.rows = items
    BY <1>1, IsRefreshed
  <1>5. DOMAIN tab' = TabFields /\ tab'.rows = items
    BY <1>2, <1>4 DEF TabFields
  <1>6. tab'.current = i /\ tab'.selected = none /\ tab'.editor = text
    BY <1>2, <1>4 DEF TabFields
  <1> QED
    BY <1>3, <1>5, <1>6 DEF none, items

LEMMA OnlyView ==
  ASSUME BooksIInv, UNCHANGED <<books, frames, meant, runs, task>>, hex' = hex \/ hex' = Saved,
         UNCHANGED past \/ Op,
         DOMAIN tab' = TabFields, tab'.current = tab.current, tab'.selected = tab.selected,
         tab'.rows = tab.rows, tab'.editor = tab.editor
  PROVE  BooksIInv'
  BY TabSame, TasksSame, ViewKeeps

LEMMA SetModeKeeps == BooksIInv /\ SetMode => BooksIInv'
  <1> SUFFICES ASSUME BooksIInv, SetMode PROVE BooksIInv'
    OBVIOUS
  <1>1. /\ Op /\ tab' = [tab EXCEPT !.mode = IF @ = "hex" THEN "str" ELSE "hex"]
        /\ UNCHANGED <<books, frames, hex, runs, task, meant>>
    BY DEF SetMode
  <1>2. /\ DOMAIN tab' = TabFields /\ tab'.current = tab.current /\ tab'.selected = tab.selected
        /\ tab'.rows = tab.rows /\ tab'.editor = tab.editor
    BY <1>1 DEF BooksIInv, TabTypes, TabFields
  <1> QED
    BY <1>1, <1>2, OnlyView

LEMMA CursorToKeeps ==
  ASSUME BooksIInv, NEW row, NEW shift, CursorTo(row, shift) PROVE BooksIInv'
  <1>1. /\ Op
        /\ tab' = [tab EXCEPT !.extending = @ \/ shift, !.cursor = IF row \in DOMAIN tab.rows THEN row ELSE @]
        /\ UNCHANGED <<books, frames, hex, runs, task, meant>>
    BY DEF CursorTo
  <1>2. /\ DOMAIN tab' = TabFields /\ tab'.current = tab.current /\ tab'.selected = tab.selected
        /\ tab'.rows = tab.rows /\ tab'.editor = tab.editor
    BY <1>1 DEF BooksIInv, TabTypes, TabFields
  <1> QED
    BY <1>1, <1>2, OnlyView

LEMMA CancelSelectionKeeps == BooksIInv /\ CancelSelection => BooksIInv'
  <1> SUFFICES ASSUME BooksIInv, CancelSelection PROVE BooksIInv'
    OBVIOUS
  <1> DEFINE chosen == <<IF tab.anchor \in DOMAIN tab.rows THEN tab.rows[tab.anchor]
                         ELSE frames[Book][tab.selected]>>
  <1>1. Op /\ tab' = [tab EXCEPT !.chosen = chosen] /\ UNCHANGED <<books, frames, hex, runs, task, meant>>
    BY DEF CancelSelection
  <1> HIDE DEF chosen
  <1>2. /\ DOMAIN tab' = TabFields /\ tab'.current = tab.current /\ tab'.selected = tab.selected
        /\ tab'.rows = tab.rows /\ tab'.editor = tab.editor
    BY <1>1 DEF BooksIInv, TabTypes, TabFields
  <1> QED
    BY <1>1, <1>2, OnlyView

LEMMA TabUntouched ==
  ASSUME BooksIInv, UNCHANGED <<books, frames, meant, runs, task, tab>>, hex' = hex \/ hex' = Saved,
         UNCHANGED past \/ Op
  PROVE  BooksIInv'
  <1>1. DOMAIN tab' = TabFields
    BY DEF BooksIInv, TabTypes
  <1> QED
    BY <1>1, OnlyView

LEMMA BookHighlightedKeeps == BooksIInv /\ BookHighlighted => BooksIInv'
  <1> SUFFICES ASSUME BooksIInv, BookHighlighted PROVE BooksIInv'
    OBVIOUS
  <1>1. UNCHANGED <<books, frames, runs, task, meant, past>>
    BY DEF BookHighlighted
  <1>2. CASE UNCHANGED <<hex, tab>>
    BY <1>1, <1>2, TabUntouched
  <1>3. CASE \E k \in DOMAIN books : hex' = Saved /\ Switch(tab, k)
    <2>1. PICK k \in DOMAIN books : hex' = Saved /\ Switch(tab, k)
      BY <1>3
    <2>2. /\ DOMAIN tab' = TabFields /\ tab'.current = k /\ tab'.rows = frames'[books'[k]]
          /\ tab'.selected = 0 /\ tab'.editor = Shown(0, frames'[books'[k]], hex')
      BY <2>1, Switched DEF BooksIInv, TabTypes
    <2>3. k \in 1 .. Len(books') /\ 0 \in Nat /\ 0 <= Len(frames'[books'[k]])
      BY <1>1, BookFacts, ElementOfSeq
    <2>4. \A b \in ToSet(books') : \A f \in ToSet(frames'[b]) : meant'[f] # Bad => meant'[f] = hex'[f]
      BY <1>1, <2>1, SavedFacts
    <2>5. TabTypes' /\ EditsStay'
      BY <1>1, <2>1, <2>2, <2>3, <2>4, ViewTypes, TabLoads
    <2> QED
      BY <1>1, <2>1, <2>5, TasksSame, ViewKeeps
  <1> QED
    BY <1>2, <1>3 DEF BookHighlighted

(* A frame is loaded after the editor was saved.                           *)
LEMMA LoadKeeps ==
  ASSUME BooksIInv, UNCHANGED <<books, frames, meant, runs, task>>, hex' = Saved, UNCHANGED past \/ Op,
         tab.current # 0, NEW k \in DOMAIN tab.rows,
         NEW t, DOMAIN t = TabFields, t.current = tab.current, t.rows = tab.rows,
         tab' = Loaded(t, frames[Book], k)
  PROVE  BooksIInv'
  <1>1. /\ tab.current \in 1 .. Len(books) /\ Book = books[tab.current] /\ Book \in Books
        /\ tab.rows = frames[Book] /\ k \in 1 .. Len(frames[Book])
    BY BookFacts DEF Book
  <1>2. k \in Nat /\ k <= Len(frames[Book])
    BY <1>1, BookFacts
  <1>3. /\ DOMAIN tab' = TabFields /\ tab'.current = tab.current /\ tab'.rows = frames[Book]
        /\ tab'.selected = k /\ tab'.editor = Shown(k, frames[Book], hex')
    BY <1>1, IsLoaded
  <1>4. \A b \in ToSet(books') : \A f \in ToSet(frames'[b]) : meant'[f] # Bad => meant'[f] = hex'[f]
    BY SavedFacts
  <1>5. TabTypes' /\ EditsStay'
    BY <1>1, <1>2, <1>3, <1>4, ViewTypes, TabLoads
  <1> QED
    BY <1>5, TasksSame, ViewKeeps

LEMMA FrameSelectedKeeps == BooksIInv /\ FrameSelected => BooksIInv'
  <1> SUFFICES ASSUME BooksIInv, FrameSelected PROVE BooksIInv'
    OBVIOUS
  <1>1. /\ Op /\ tab.current # 0 /\ tab.cursor \in DOMAIN tab.rows /\ hex' = Saved
        /\ tab' = Loaded(tab, frames[Book], tab.cursor)
        /\ UNCHANGED <<books, frames, runs, task, meant>>
    BY DEF FrameSelected
  <1>2. DOMAIN tab = TabFields
    BY DEF BooksIInv, TabTypes
  <1> QED
    BY <1>1, <1>2, LoadKeeps

LEMMA FrameHighlightedKeeps == BooksIInv /\ FrameHighlighted => BooksIInv'
  <1> SUFFICES ASSUME BooksIInv, FrameHighlighted PROVE BooksIInv'
    OBVIOUS
  <1> DEFINE i == {k \in DOMAIN tab.rows : tab.rows[k] = Head(moved["frames"])}
             k == CHOOSE x \in i : TRUE
             lo == IF k < tab.anchor THEN k ELSE tab.anchor
             hi == IF k < tab.anchor THEN tab.anchor ELSE k
             range == SubSeq(tab.rows, lo, hi)
             one == <<tab.rows[k]>>
             t == [tab EXCEPT !.extending = FALSE, !.anchor = k, !.chosen = one]
  <1>1. UNCHANGED <<books, frames, runs, task, meant, past>>
    BY DEF FrameHighlighted
  <1>2. \/ tab' = [tab EXCEPT !.extending = FALSE] /\ hex' = hex
        \/ tab' = [tab EXCEPT !.extending = FALSE, !.chosen = range] /\ hex' = hex
        \/ tab' = t /\ hex' = hex
        \/ i # {} /\ tab.current # 0 /\ hex' = Saved /\ tab' = Loaded(t, frames[Book], k)
    BY DEF FrameHighlighted
  <1>3. i # {} => k \in DOMAIN tab.rows
    OBVIOUS
  <1> HIDE DEF i, k, range, one
  <1>4. /\ DOMAIN t = TabFields /\ t.current = tab.current /\ t.selected = tab.selected
        /\ t.rows = tab.rows /\ t.editor = tab.editor
    BY DEF BooksIInv, TabTypes, TabFields
  <1> HIDE DEF t
  <1>5. CASE tab' = [tab EXCEPT !.extending = FALSE] /\ hex' = hex
    <2>1. /\ DOMAIN tab' = TabFields /\ tab'.current = tab.current /\ tab'.selected = tab.selected
          /\ tab'.rows = tab.rows /\ tab'.editor = tab.editor
      BY <1>5 DEF BooksIInv, TabTypes, TabFields
    <2> QED
      BY <1>1, <1>5, <2>1, OnlyView
  <1>6. CASE tab' = [tab EXCEPT !.extending = FALSE, !.chosen = range] /\ hex' = hex
    <2>1. /\ DOMAIN tab' = TabFields /\ tab'.current = tab.current /\ tab'.selected = tab.selected
          /\ tab'.rows = tab.rows /\ tab'.editor = tab.editor
      BY <1>6 DEF BooksIInv, TabTypes, TabFields
    <2> QED
      BY <1>1, <1>6, <2>1, OnlyView
  <1>7. CASE tab' = t /\ hex' = hex
    BY <1>1, <1>4, <1>7, OnlyView
  <1>8. CASE i # {} /\ tab.current # 0 /\ hex' = Saved /\ tab' = Loaded(t, frames[Book], k)
    BY <1>1, <1>3, <1>4, <1>8, LoadKeeps
  <1> QED
    BY <1>2, <1>5, <1>6, <1>7, <1>8

LEMMA BookCursorToKeeps == BooksIInv /\ BookCursorTo => BooksIInv'
  BY TabUntouched DEF BookCursorTo

LEMMA RunHighlightedKeeps == BooksIInv /\ RunHighlighted => BooksIInv'
  BY TabUntouched DEF RunHighlighted

LEMMA StopKeeps == BooksIInv /\ Stop => BooksIInv'
  BY TabUntouched DEF Stop

---------------------------------------------------------------------------
(* Steps that edit the list of a playbook.                                 *)
ListBecomes(b, items, new) ==
    /\ items \in Seq(FrameIds) /\ \A i, j \in DOMAIN items : items[i] = items[j] => i = j
    /\ new \in SUBSET FrameIds /\ \A f \in new : f \notin Placed(frames)
    /\ ToSet(items) \subseteq ToSet(frames[b]) \cup new /\ frames' = [frames EXCEPT ![b] = items]
    /\ hex' \in [FrameIds -> Texts] /\ meant' \in [FrameIds -> Texts]
    /\ \A f \in FrameIds \ new : meant'[f] = meant[f] /\ hex'[f] \in {hex[f], Saved[f]}
    /\ \A f \in new : hex'[f] # Unborn /\ meant'[f] = hex'[f]
    /\ Ever' \subseteq Books /\ books' \in Seq(Books)
    /\ \A i, j \in DOMAIN books' : books'[i] = books'[j] => i = j

LEMMA ListEdited ==
  ASSUME BooksIInv, NEW b \in Books, NEW items, NEW new, ListBecomes(b, items, new)
  PROVE  /\ BookTypes' /\ frames'[b] = items /\ \A c \in Books \ {b} : frames'[c] = frames[c]
         /\ \A w \in Tasks : Ongoing(w) /\ task[w].book # b => Quiet(task[w].book)
  <1>1. frames \in [Books -> Seq(FrameIds)] /\ Apart(frames)
    BY DEF BooksIInv, BookTypes
  <1>2. /\ frames' \in [Books -> Seq(FrameIds)] /\ Apart(frames')
        /\ frames'[b] = items /\ \A c \in Books \ {b} : frames'[c] = frames[c]
        /\ Placed(frames') \subseteq Placed(frames) \cup new
    BY <1>1, ListReplaced, ZenonT(40) DEF ListBecomes
  <1>3. ASSUME NEW f \in Placed(frames') PROVE hex'[f] # Unborn /\ meant'[f] # Unborn
    <2>1. CASE f \in new
      BY <2>1 DEF ListBecomes
    <2>2. CASE f \in Placed(frames) /\ f \notin new
      <3>1. f \in FrameIds
        BY <2>2, BookFacts DEF Placed
      <3>2. hex[f] # Unborn /\ meant[f] # Unborn /\ Saved[f] # Unborn
        BY <2>2, SavedFacts DEF BooksIInv, BookTypes
      <3> QED
        BY <2>2, <3>1, <3>2 DEF ListBecomes
    <2> QED
      BY <1>2, <2>1, <2>2
  <1>4. BookTypes'
    BY <1>2, <1>3 DEF BookTypes, ListBecomes
  <1>5. ASSUME NEW w \in Tasks, Ongoing(w), task[w].book # b PROVE Quiet(task[w].book)
    <2>1. task[w].book \in Books
      BY <1>5, BookFacts DEF BooksIInv, WorkersInv, Work, Ongoing
    <2>2. ASSUME NEW f \in ToSet(frames[task[w].book])
          PROVE  meant'[f] = meant[f] /\ hex'[f] \in {hex[f], Saved[f]}
      <3>1. f \in FrameIds /\ f \in Placed(frames)
        BY <2>1, BookFacts
      <3> QED
        BY <3>1 DEF ListBecomes
    <2> QED
      BY <1>2, <1>5, <2>1, <2>2 DEF Quiet
  <1> QED
    BY <1>2, <1>4, <1>5

(* The texts are saved when the editor was.                                *)
LEMMA TextsSaved ==
  ASSUME BooksIInv, NEW b \in Books, NEW items, NEW new,
         ToSet(items) \subseteq ToSet(frames[b]) \cup new,
         frames'[b] = items, \A c \in Books \ {b} : frames'[c] = frames[c],
         \A f \in FrameIds \ new : meant'[f] = meant[f] /\ hex'[f] = Saved[f],
         \A f \in new : meant'[f] = hex'[f],
         ToSet(books') \subseteq ToSet(books) \cup {b}, b \in ToSet(books) \/ ToSet(items) \subseteq new
  PROVE  \A c \in ToSet(books') : \A f \in ToSet(frames'[c]) : meant'[f] # Bad => meant'[f] = hex'[f]
  <1> SUFFICES ASSUME NEW c \in ToSet(books'), NEW f \in ToSet(frames'[c]), meant'[f] # Bad, f \notin new
               PROVE  meant'[f] = hex'[f]
    OBVIOUS
  <1>1. c \in ToSet(books) /\ f \in ToSet(frames[c])
    <2>1. CASE c = b
      BY <2>1
    <2>2. CASE c # b
      BY <2>2, BookFacts
    <2> QED
      BY <2>1, <2>2
  <1>2. f \in FrameIds
    BY <1>1, BookFacts
  <1>3. meant[f] # Bad => meant[f] = Saved[f]
    BY <1>1, SavedFacts
  <1> QED
    BY <1>2, <1>3

LEMMA AddBookKeeps == BooksIInv /\ AddBook => BooksIInv'
  <1> SUFFICES ASSUME BooksIInv, AddBook PROVE BooksIInv'
    OBVIOUS
  <1>1. Op /\ UNCHANGED <<runs, task>> /\ Switch(tab, Len(books) + 1)
    BY DEF AddBook
  <1>2. PICK b \in Books \ Ever, new \in {<<>>} \cup {<<f>> : f \in Fresh}, text \in Typed :
             /\ books' = Append(books, b) /\ frames' = [frames EXCEPT ![b] = new]
             /\ hex' = [f \in FrameIds |-> IF f \in ToSet(new) THEN text ELSE Saved[f]]
             /\ meant' = [f \in FrameIds |-> IF f \in ToSet(new) THEN text ELSE meant[f]]
    BY ZenonT(40) DEF AddBook, Ever
  <1>3. /\ new \in Seq(FrameIds) /\ \A i, j \in DOMAIN new : new[i] = new[j] => i = j
        /\ ToSet(new) \subseteq FrameIds /\ \A f \in ToSet(new) : f \notin Placed(frames)
    <2>1. CASE new = <<>>
      BY <2>1 DEF ToSet
    <2>2. CASE \E f \in Fresh : new = <<f>>
      <3>1. PICK f \in Fresh : new = <<f>>
        BY <2>2
      <3>2. f \in FrameIds /\ f \notin Placed(frames)
        BY FreshFacts
      <3> QED
        BY <3>1, <3>2 DEF ToSet
    <2> QED
      BY <2>1, <2>2
  <1>4. text \in Texts /\ text # Unborn
    BY PlaybooksAssumption
  <1>5. /\ hex' \in [FrameIds -> Texts] /\ meant' \in [FrameIds -> Texts]
        /\ \A f \in FrameIds \ ToSet(new) : meant'[f] = meant[f] /\ hex'[f] = Saved[f]
        /\ \A f \in ToSet(new) : hex'[f] = text /\ meant'[f] = text
    BY <1>2, <1>3, <1>4, SavedFacts DEF BooksIInv, BookTypes
  <1>6. /\ books' \in Seq(Books) /\ Len(books') = Len(books) + 1 /\ Len(books) \in Nat
        /\ books'[Len(books) + 1] = b /\ \A i \in DOMAIN books : books'[i] = books[i]
        /\ DOMAIN books = 1 .. Len(books) /\ DOMAIN books' = 1 .. Len(books) + 1
    BY <1>2, BookFacts, AppendProperties, LenProperties
  <1>7. \A i \in DOMAIN books : books[i] # b
    BY DEF Ever, ToSet
  <1>8. \A i, j \in DOMAIN books' : books'[i] = books'[j] => i = j
    BY <1>6, <1>7, SMTT(30) DEF BooksIInv, BookTypes
  <1>9. ToSet(books') \subseteq ToSet(books) \cup {b}
    BY <1>6 DEF ToSet
  <1>10. Ever \subseteq Ever' /\ Ever' \subseteq Books
    <2>1. {b} \in SUBSET Books
      OBVIOUS
    <2> QED
      BY <1>1, <1>9, <2>1, EverGrows
  <1>11. /\ BookTypes' /\ frames'[b] = new /\ \A c \in Books \ {b} : frames'[c] = frames[c]
         /\ \A w \in Tasks : Ongoing(w) /\ task[w].book # b => Quiet(task[w].book)
    <2>1. ListBecomes(b, new, ToSet(new))
      BY <1>2, <1>3, <1>4, <1>5, <1>6, <1>8, <1>10 DEF ListBecomes
    <2> QED
      BY <2>1, ListEdited
  <1>12. \A c \in ToSet(books') : \A f \in ToSet(frames'[c]) : meant'[f] # Bad => meant'[f] = hex'[f]
    BY <1>5, <1>9, <1>11, TextsSaved
  <1>13. TabTypes' /\ EditsStay'
    <2> DEFINE c == Len(books) + 1
    <2>1. /\ DOMAIN tab' = TabFields /\ tab'.current = c /\ tab'.rows = frames'[books'[c]]
          /\ tab'.selected = 0 /\ tab'.editor = Shown(0, frames'[books'[c]], hex')
      BY <1>1, Switched DEF BooksIInv, TabTypes
    <2>2. c \in 1 .. Len(books') /\ 0 \in Nat /\ 0 <= Len(frames'[books'[c]])
      BY <1>3, <1>6, <1>11, LenProperties
    <2> HIDE DEF c
    <2> QED
      BY <1>11, <1>12, <2>1, <2>2, TabLoads
  <1>14. \A w \in Tasks : Ongoing(w) => Quiet(task[w].book)
    BY <1>11 DEF BooksIInv, WorkersInv, Work, Ongoing
  <1> QED
    BY <1>1, <1>10, <1>11, <1>13, <1>14, TasksSame, EditKeeps

(* Lists in which nothing is twice, when one is taken out or put in.       *)
LEMMA TakenOut ==
  ASSUME NEW s, NEW r, NEW n, Thinned(s, r, n), \A i, j \in DOMAIN s : s[i] = s[j] => i = j
  PROVE  /\ \A i, j \in DOMAIN r : r[i] = r[j] => i = j
         /\ ToSet(r) \subseteq ToSet(s) /\ s[n] \notin ToSet(r)
  <1> DEFINE old(i) == IF i < n THEN i ELSE i + 1
  <1>1. \A i \in DOMAIN r : old(i) \in DOMAIN s /\ old(i) # n /\ r[i] = s[old(i)]
    BY DEF Thinned
  <1>2. \A i, j \in DOMAIN r : old(i) = old(j) => i = j
    BY DEF Thinned
  <1>3. n \in DOMAIN s
    BY DEF Thinned
  <1> HIDE DEF old
  <1> QED
    BY <1>1, <1>2, <1>3 DEF ToSet

LEMMA PutIn ==
  ASSUME NEW s, NEW r, NEW n, Thinned(s, r, n), \A i, j \in DOMAIN r : r[i] = r[j] => i = j,
         s[n] \notin ToSet(r)
  PROVE  /\ \A i, j \in DOMAIN s : s[i] = s[j] => i = j
         /\ ToSet(s) \subseteq ToSet(r) \cup {s[n]}
  <1> DEFINE new(k) == IF k < n THEN k ELSE k - 1
  <1>1. \A k \in DOMAIN s \ {n} : new(k) \in DOMAIN r /\ s[k] = r[new(k)]
    BY DEF Thinned
  <1>2. \A k, l \in DOMAIN s \ {n} : new(k) = new(l) => k = l
    BY DEF Thinned
  <1> HIDE DEF new
  <1>3. \A k \in DOMAIN s \ {n} : s[k] \in ToSet(r)
    BY <1>1 DEF ToSet
  <1>4. ToSet(s) \subseteq ToSet(r) \cup {s[n]}
    BY <1>3 DEF ToSet
  <1>5. ASSUME NEW i \in DOMAIN s, NEW j \in DOMAIN s, s[i] = s[j] PROVE i = j
    <2>1. CASE i = n \/ j = n
      BY <1>3, <1>5, <2>1
    <2>2. CASE i # n /\ j # n
      BY <1>1, <1>2, <1>5, <2>2
    <2> QED
      BY <2>1, <2>2
  <1> QED
    BY <1>4, <1>5

LEMMA DeleteBookKeeps == BooksIInv /\ DeleteBook => BooksIInv'
  <1> SUFFICES ASSUME BooksIInv, DeleteBook PROVE BooksIInv'
    OBVIOUS
  <1>1. /\ Op /\ tab.current # 0 /\ books' = RemoveAt(books, tab.current)
        /\ UNCHANGED <<frames, hex, runs, task, meant>>
    BY DEF DeleteBook
  <1>2. /\ tab.current \in 1 .. Len(books) /\ books \in Seq(Books) /\ Book \in ToSet(books)
        /\ \A i, j \in DOMAIN books : books[i] = books[j] => i = j
    BY <1>1, BookFacts DEF BooksIInv, BookTypes
  <1>3. books' \in Seq(Books) /\ Thinned(books, books', tab.current)
    BY <1>1, <1>2, RemovedPlace
  <1>4. /\ \A i, j \in DOMAIN books' : books'[i] = books'[j] => i = j
        /\ ToSet(books') \subseteq ToSet(books) /\ Book \notin ToSet(books')
    BY <1>2, <1>3, TakenOut DEF Book
  <1>5. Ever \subseteq Ever' /\ Ever' \subseteq Books
    <2>1. {} \in SUBSET Books /\ ToSet(books') \subseteq ToSet(books) \cup {}
      BY <1>4
    <2> QED
      BY <1>1, <2>1, EverGrows
  <1>6. BookTypes'
    BY <1>1, <1>3, <1>4, <1>5 DEF BooksIInv, BookTypes
  <1>7. ASSUME NEW b \in ToSet(books'), NEW f \in ToSet(frames'[b]), meant'[f] # Bad
        PROVE  meant'[f] = hex'[f]
    <2>1. b \in ToSet(books) /\ b # Book /\ b \in Books /\ f \in ToSet(frames[b])
      BY <1>1, <1>4, BookFacts
    <2>2. f \notin Selected
      BY <2>1, SelectedFacts
    <2> QED
      BY <1>1, <1>7, <2>1, <2>2 DEF BooksIInv, EditsStay
  <1>8. TabTypes' /\ EditsStay'
    <2>1. CASE books' = <<>>
      <3> DEFINE none == 0
                 text == ""
                 items == <<>>
      <3>1. PICK r : r = Refresh(tab, items, none)
        OBVIOUS
      <3>2. tab' = [r EXCEPT !.current = none, !.selected = none, !.editor = text]
        BY <2>1, <3>1 DEF DeleteBook
      <3>3. none \in 0 .. Len(books') /\ none \in Nat
        BY <2>1
      <3>4. text \in Texts \ {Unborn}
        BY PlaybooksAssumption
      <3> HIDE DEF none, items, text
      <3>5. DOMAIN r = TabFields
        BY <3>1, IsRefreshed DEF BooksIInv, TabTypes
      <3>6. DOMAIN tab' = TabFields
        BY <3>2, <3>5 DEF TabFields
      <3>7. tab'.current = none /\ tab'.selected = none /\ tab'.editor = text
        BY <3>2, <3>5 DEF TabFields
      <3>8. TabTypes'
        BY <3>3, <3>4, <3>6, <3>7 DEF TabTypes
      <3>9. ToSet(books') = {} /\ tab'.current = 0
        BY <2>1, <3>7 DEF ToSet, none
      <3> QED
        BY <3>8, <3>9 DEF EditsStay
    <2>2. CASE books' # <<>>
      <3> DEFINE i == IF tab.current < Len(books) THEN tab.current ELSE Len(books) - 1
      <3>1. Switch(tab, i)
        BY <2>2 DEF DeleteBook
      <3>2. Len(books') = Len(books) - 1 /\ Len(books) \in Nat /\ DOMAIN books' = 1 .. Len(books) - 1
        BY <1>3 DEF Thinned
      <3>3. Len(books') # 0
        BY <1>3, <2>2, EmptySeq
      <3>4. i \in 1 .. Len(books')
        BY <1>2, <3>2, <3>3
      <3> HIDE DEF i
      <3>5. /\ DOMAIN tab' = TabFields /\ tab'.current = i /\ tab'.rows = frames'[books'[i]]
            /\ tab'.selected = 0 /\ tab'.editor = Shown(0, frames'[books'[i]], hex')
        BY <3>1, Switched DEF BooksIInv, TabTypes
      <3>6. 0 \in Nat /\ 0 <= Len(frames'[books'[i]])
        BY <1>1, <1>3, <3>4, BookFacts, ElementOfSeq
      <3> QED
        BY <1>6, <1>7, <3>4, <3>5, <3>6, TabLoads
    <2> QED
      BY <2>1, <2>2
  <1>9. \A w \in Tasks : Quiet(task[w].book)
    BY <1>1 DEF Quiet
  <1> QED
    BY <1>1, <1>5, <1>6, <1>8, <1>9, TasksSame, EditKeeps

(* What an edit of a list leaves to the workers: those of the playbook are *)
(* marked, and the others are not disturbed.                               *)
LEMMA TouchedKeeps ==
  ASSUME BooksIInv, NEW b, task' = Touched(b), UNCHANGED <<books, runs>>, Op,
         BookTypes', TabTypes', EditsStay',
         \A w \in Tasks : Ongoing(w) /\ task[w].book # b => Quiet(task[w].book)
  PROVE  BooksIInv'
  <1>1. /\ DOMAIN task' = Tasks /\ \A w \in Tasks : SameWork(w)
        /\ \A w \in Tasks : Ongoing(w) /\ task[w].book = b => task'[w].touched
    BY TouchedSame
  <1>2. Ever \subseteq Ever'
    <2>1. {} \in SUBSET Books /\ ToSet(books') \subseteq ToSet(books) \cup {}
      OBVIOUS
    <2> QED
      BY <2>1, EverGrows
  <1>3. \A w \in Tasks : Ongoing(w) /\ ~task'[w].touched => Quiet(task[w].book)
    BY <1>1
  <1> QED
    BY <1>1, <1>2, <1>3, EditKeeps

LEMMA EverSame ==
  ASSUME BooksIInv, UNCHANGED books, Op
  PROVE  /\ Ever' \subseteq Books /\ books' \in Seq(Books)
         /\ \A i, j \in DOMAIN books' : books'[i] = books'[j] => i = j
  <1>1. {} \in SUBSET Books /\ ToSet(books') \subseteq ToSet(books) \cup {}
    OBVIOUS
  <1>2. Ever' \subseteq Books
    BY <1>1, EverGrows
  <1> QED
    BY <1>2 DEF BooksIInv, BookTypes

(* The current playbook gets the list, and its frame k is loaded.          *)
LEMMA ListLoaded ==
  ASSUME BooksIInv, tab.current # 0, UNCHANGED books, BookTypes',
         NEW items, frames'[Book] = items, NEW k \in Nat, k <= Len(items), NEW row,
         tab' = Loaded(Refresh(tab, items, row), items, k),
         \A c \in ToSet(books') : \A f \in ToSet(frames'[c]) : meant'[f] # Bad => meant'[f] = hex'[f]
  PROVE  TabTypes' /\ EditsStay'
  <1>1. PICK t : t = Refresh(tab, items, row)
    OBVIOUS
  <1>2. DOMAIN t = TabFields /\ t.rows = items /\ t.current = tab.current
    BY <1>1, IsRefreshed DEF BooksIInv, TabTypes
  <1>3. /\ DOMAIN tab' = TabFields /\ tab'.current = tab.current /\ tab'.rows = items
        /\ tab'.selected = k /\ tab'.editor = Shown(k, items, hex')
    BY <1>1, <1>2, IsLoaded
  <1>4. tab.current \in 1 .. Len(books') /\ frames'[books'[tab.current]] = items
    BY BookFacts DEF Book
  <1> QED
    BY <1>3, <1>4, TabLoads

LEMMA AddBlankKeeps == BooksIInv /\ AddBlank => BooksIInv'
  <1> SUFFICES ASSUME BooksIInv, AddBlank PROVE BooksIInv'
    OBVIOUS
  <1> DEFINE i == IF tab.selected = 0 THEN Len(frames[Book]) + 1 ELSE tab.selected + 1
  <1>1. Op /\ tab.current # 0 /\ task' = Touched(Book) /\ UNCHANGED <<books, runs>>
    BY DEF AddBlank
  <1>2. PICK f \in Fresh :
             /\ frames' = [frames EXCEPT ![Book] = InsertAt(frames[Book], i, f)]
             /\ hex' = [Saved EXCEPT ![f] = ""] /\ meant' = [meant EXCEPT ![f] = ""]
             /\ tab' = Loaded(Refresh(tab, InsertAt(frames[Book], i, f), i), InsertAt(frames[Book], i, f), i)
    BY DEF AddBlank
  <1>3. /\ Book \in Books /\ Book \in ToSet(books) /\ frames[Book] \in Seq(FrameIds)
        /\ Len(frames[Book]) \in Nat /\ tab.selected \in Nat /\ tab.selected <= Len(frames[Book])
    BY <1>1, BookFacts DEF BooksIInv, TabTypes
  <1>4. i \in 1 .. Len(frames[Book]) + 1
    BY <1>3
  <1>5. f \in FrameIds /\ f \notin Placed(frames) /\ f \notin ToSet(frames[Book])
    BY <1>3, FreshFacts DEF Placed
  <1> HIDE DEF i
  <1> DEFINE items == InsertAt(frames[Book], i, f)
  <1>6. items \in Seq(FrameIds) /\ Thinned(items, frames[Book], i) /\ items[i] = f
    BY <1>3, <1>4, <1>5, InsertedPlace
  <1>7. /\ frames' = [frames EXCEPT ![Book] = items]
        /\ tab' = Loaded(Refresh(tab, items, i), items, i)
    BY <1>2
  <1> HIDE DEF items
  <1>8. \A j, k \in DOMAIN frames[Book] : frames[Book][j] = frames[Book][k] => j = k
    BY <1>3 DEF BooksIInv, BookTypes, Apart
  <1>9. /\ \A j, k \in DOMAIN items : items[j] = items[k] => j = k
        /\ ToSet(items) \subseteq ToSet(frames[Book]) \cup {f}
    BY <1>5, <1>6, <1>8, PutIn
  <1>10. PICK blank : blank = ""
    OBVIOUS
  <1>11. blank \in Texts /\ blank # Unborn
    BY <1>10, PlaybooksAssumption
  <1>12. /\ hex' \in [FrameIds -> Texts] /\ meant' \in [FrameIds -> Texts]
         /\ \A g \in FrameIds \ {f} : meant'[g] = meant[g] /\ hex'[g] = Saved[g]
         /\ hex'[f] = blank /\ meant'[f] = blank
    <2>1. hex' = [Saved EXCEPT ![f] = blank] /\ meant' = [meant EXCEPT ![f] = blank]
      BY <1>2, <1>10
    <2>2. Saved \in [FrameIds -> Texts] /\ meant \in [FrameIds -> Texts]
      BY SavedFacts DEF BooksIInv, BookTypes
    <2> QED
      BY <1>5, <1>11, <2>1, <2>2
  <1> DEFINE new == {f}
  <1>13. /\ \A g \in FrameIds \ new : meant'[g] = meant[g] /\ hex'[g] = Saved[g]
         /\ \A g \in FrameIds \ new : meant'[g] = meant[g] /\ hex'[g] \in {hex[g], Saved[g]}
         /\ \A g \in new : hex'[g] # Unborn /\ meant'[g] = hex'[g]
         /\ new \in SUBSET FrameIds /\ \A g \in new : g \notin Placed(frames)
         /\ ToSet(items) \subseteq ToSet(frames[Book]) \cup new
    BY <1>5, <1>9, <1>11, <1>12
  <1> HIDE DEF new
  <1>14. /\ Ever' \subseteq Books /\ books' \in Seq(Books)
         /\ \A j, k \in DOMAIN books' : books'[j] = books'[k] => j = k
    BY <1>1, EverSame
  <1>15. /\ BookTypes' /\ frames'[Book] = items /\ \A c \in Books \ {Book} : frames'[c] = frames[c]
         /\ \A w \in Tasks : Ongoing(w) /\ task[w].book # Book => Quiet(task[w].book)
    <2>1. ListBecomes(Book, items, new)
      BY <1>6, <1>7, <1>9, <1>12, <1>13, <1>14 DEF ListBecomes
    <2> QED
      BY <1>3, <2>1, ListEdited
  <1>16. \A c \in ToSet(books') : \A g \in ToSet(frames'[c]) : meant'[g] # Bad => meant'[g] = hex'[g]
    BY <1>1, <1>3, <1>13, <1>15, TextsSaved, ZenonT(40)
  <1>17. i \in Nat /\ i <= Len(items)
    <2>1. i \in 1 .. Len(items) /\ Len(items) \in Nat
      BY <1>6 DEF Thinned
    <2> QED
      BY <2>1
  <1>18. TabTypes' /\ EditsStay'
    BY <1>1, <1>7, <1>15, <1>16, <1>17, ListLoaded
  <1> QED
    BY <1>1, <1>15, <1>18, TouchedKeeps

LEMMA RemoveFrameKeeps == BooksIInv /\ RemoveFrame => BooksIInv'
  <1> SUFFICES ASSUME BooksIInv, RemoveFrame PROVE BooksIInv'
    OBVIOUS
  <1> DEFINE items == RemoveAt(frames[Book], tab.selected)
             i == IF tab.selected <= Len(items) THEN tab.selected ELSE Len(items)
  <1>1. /\ Op /\ task' = Touched(Book) /\ UNCHANGED <<books, runs, hex, meant>>
        /\ frames' = [frames EXCEPT ![Book] = items]
        /\ tab' = Loaded(Refresh(tab, items, i), items, i)
    BY DEF RemoveFrame
  <1>2. PICK f \in Selected : TRUE
    BY DEF RemoveFrame
  <1>3. /\ tab.current # 0 /\ tab.selected \in 1 .. Len(frames[Book]) /\ Selected = {f}
        /\ f = frames[Book][tab.selected] /\ \A b \in Books : f \in ToSet(frames[b]) => b = Book
    BY SelectedFacts
  <1>4. Book \in Books /\ Book \in ToSet(books) /\ frames[Book] \in Seq(FrameIds)
    BY <1>3, BookFacts
  <1>5. items \in Seq(FrameIds) /\ Thinned(frames[Book], items, tab.selected)
    BY <1>3, <1>4, RemovedPlace
  <1>6. i \in Nat /\ i <= Len(items)
    BY <1>3, <1>5 DEF Thinned
  <1> HIDE DEF items, i
  <1>7. \A j, k \in DOMAIN frames[Book] : frames[Book][j] = frames[Book][k] => j = k
    BY <1>4 DEF BooksIInv, BookTypes, Apart
  <1>8. /\ \A j, k \in DOMAIN items : items[j] = items[k] => j = k
        /\ ToSet(items) \subseteq ToSet(frames[Book]) /\ f \notin ToSet(items)
    BY <1>3, <1>5, <1>7, TakenOut
  <1> DEFINE new == {}
  <1>9. /\ hex' \in [FrameIds -> Texts] /\ meant' \in [FrameIds -> Texts]
        /\ \A g \in FrameIds \ new : meant'[g] = meant[g] /\ hex'[g] \in {hex[g], Saved[g]}
        /\ new \in SUBSET FrameIds /\ \A g \in new : g \notin Placed(frames)
        /\ \A g \in new : hex'[g] # Unborn /\ meant'[g] = hex'[g]
        /\ ToSet(items) \subseteq ToSet(frames[Book]) \cup new
    BY <1>1, <1>8 DEF BooksIInv, BookTypes
  <1> HIDE DEF new
  <1>10. /\ Ever' \subseteq Books /\ books' \in Seq(Books)
         /\ \A j, k \in DOMAIN books' : books'[j] = books'[k] => j = k
    BY <1>1, EverSame
  <1>11. /\ BookTypes' /\ frames'[Book] = items /\ \A c \in Books \ {Book} : frames'[c] = frames[c]
         /\ \A w \in Tasks : Ongoing(w) /\ task[w].book # Book => Quiet(task[w].book)
    <2>1. ListBecomes(Book, items, new)
      BY <1>1, <1>5, <1>8, <1>9, <1>10 DEF ListBecomes
    <2> QED
      BY <1>4, <2>1, ListEdited
  <1>12. ASSUME NEW c \in ToSet(books'), NEW g \in ToSet(frames'[c]), meant'[g] # Bad
         PROVE  meant'[g] = hex'[g]
    <2>1. c \in Books /\ c \in ToSet(books)
      BY <1>1, BookFacts
    <2>2. g \in ToSet(frames[c]) /\ g # f
      BY <1>3, <1>8, <1>11, <2>1
    <2> QED
      BY <1>1, <1>3, <1>12, <2>1, <2>2 DEF BooksIInv, EditsStay
  <1>13. TabTypes' /\ EditsStay'
    BY <1>1, <1>3, <1>6, <1>11, <1>12, ListLoaded
  <1> QED
    BY <1>1, <1>11, <1>13, TouchedKeeps

(* The editor stays on its frame.                                          *)
LEMMA EditorKept ==
  ASSUME BooksIInv, UNCHANGED books, Selected' = Selected, tab'.editor = tab.editor,
         tab'.current # 0 => tab'.rows = frames'[Book'] /\ tab'.selected <= Len(frames'[Book']),
         NEW new, \A f \in new : f \notin Selected /\ meant'[f] = hex'[f],
         \A f \in FrameIds \ new : meant'[f] = meant[f] /\ hex'[f] = Saved[f],
         \A c \in Books : ToSet(frames'[c]) \subseteq ToSet(frames[c]) \cup new
  PROVE  EditsStay'
  <1>1. ASSUME NEW c \in ToSet(books), NEW f \in ToSet(frames'[c]), meant'[f] # Bad
        PROVE  meant'[f] = IF f \in Selected THEN tab.editor ELSE hex'[f]
    <2>1. CASE f \in new
      BY <2>1
    <2>2. CASE f \notin new
      <3>1. c \in Books /\ f \in ToSet(frames[c])
        BY <2>2, BookFacts
      <3>2. f \in FrameIds
        BY <3>1, BookFacts
      <3>3. meant[f] # Bad
        BY <1>1, <2>2, <3>2
      <3>4. meant[f] = IF f \in Selected THEN tab.editor ELSE hex[f]
        BY <3>1, <3>3 DEF BooksIInv, EditsStay
      <3>5. f \notin Selected => Saved[f] = hex[f]
        BY <3>2, SavedFacts
      <3> QED
        BY <2>2, <3>2, <3>4, <3>5
    <2> QED
      BY <2>1, <2>2
  <1> QED
    BY <1>1 DEF EditsStay

LEMMA MoveFrameKeeps ==
  ASSUME BooksIInv, NEW j, MoveFrame(j) PROVE BooksIInv'
  <1> DEFINE i == tab.selected
             items == [frames[Book] EXCEPT ![i] = frames[Book][j], ![j] = frames[Book][i]]
  <1>1. /\ Op /\ task' = Touched(Book) /\ UNCHANGED <<books, runs, meant>> /\ hex' = Saved
        /\ frames' = [frames EXCEPT ![Book] = items]
        /\ tab' = [Refresh(tab, items, j) EXCEPT !.selected = j]
        /\ j \in DOMAIN frames[Book]
    BY DEF MoveFrame
  <1>2. PICK f \in Selected : TRUE
    BY DEF MoveFrame
  <1>3. tab.current # 0 /\ i \in 1 .. Len(frames[Book]) /\ Selected = {f} /\ f = frames[Book][i]
    BY SelectedFacts
  <1>4. /\ Book \in Books /\ Book \in ToSet(books) /\ frames[Book] \in Seq(FrameIds)
        /\ DOMAIN frames[Book] = 1 .. Len(frames[Book]) /\ Len(frames[Book]) \in Nat
    BY <1>3, BookFacts
  <1>5. \A k, l \in DOMAIN frames[Book] : frames[Book][k] = frames[Book][l] => k = l
    BY <1>4 DEF BooksIInv, BookTypes, Apart
  <1>6. /\ items \in Seq(FrameIds) /\ Len(items) = Len(frames[Book])
        /\ \A k, l \in DOMAIN items : items[k] = items[l] => k = l
        /\ ToSet(items) \subseteq ToSet(frames[Book]) /\ items[j] = f
    <2>1. PICK s : s = frames[Book]
      OBVIOUS
    <2> DEFINE swapped == [s EXCEPT ![i] = s[j], ![j] = s[i]]
    <2> HIDE DEF i
    <2>2. s \in Seq(FrameIds) /\ i \in 1 .. Len(s) /\ j \in 1 .. Len(s) /\ DOMAIN s = 1 .. Len(s)
      BY <1>1, <1>3, <1>4, <2>1
    <2>3. \A k \in 1 .. Len(s) : s[k] \in FrameIds
      BY <2>2, ElementOfSeq
    <2>4. /\ DOMAIN swapped = 1 .. Len(s)
          /\ \A k \in 1 .. Len(s) : swapped[k] = IF k = j THEN s[i] ELSE IF k = i THEN s[j] ELSE s[k]
      BY <2>2
    <2>5. swapped \in Seq(FrameIds)
      BY <2>2, ExceptSeq
    <2> HIDE DEF swapped
    <2>6. Len(swapped) = Len(s)
      BY <2>2, <2>4, <2>5, LenProperties
    <2>7. \A k, l \in DOMAIN swapped : swapped[k] = swapped[l] => k = l
      BY <1>5, <2>1, <2>2, <2>4
    <2>8. ToSet(swapped) \subseteq ToSet(s) /\ swapped[j] = s[i]
      BY <2>2, <2>4 DEF ToSet
    <2>9. items = swapped
      BY <2>1 DEF swapped
    <2> QED
      BY <1>3, <2>1, <2>5, <2>6, <2>7, <2>8, <2>9
  <1> HIDE DEF items
  <1> DEFINE new == {}
  <1>7. /\ hex' \in [FrameIds -> Texts] /\ meant' \in [FrameIds -> Texts]
        /\ \A g \in FrameIds \ new : meant'[g] = meant[g] /\ hex'[g] = Saved[g]
        /\ \A g \in FrameIds \ new : meant'[g] = meant[g] /\ hex'[g] \in {hex[g], Saved[g]}
        /\ new \in SUBSET FrameIds /\ \A g \in new : g \notin Placed(frames)
        /\ \A g \in new : hex'[g] # Unborn /\ meant'[g] = hex'[g]
        /\ \A g \in new : g \notin Selected /\ meant'[g] = hex'[g]
        /\ ToSet(items) \subseteq ToSet(frames[Book]) \cup new
    BY <1>1, <1>6, SavedFacts DEF BooksIInv, BookTypes
  <1> HIDE DEF new
  <1>8. /\ Ever' \subseteq Books /\ books' \in Seq(Books)
        /\ \A k, l \in DOMAIN books' : books'[k] = books'[l] => k = l
    BY <1>1, EverSame
  <1>9. /\ BookTypes' /\ frames'[Book] = items /\ \A c \in Books \ {Book} : frames'[c] = frames[c]
        /\ \A w \in Tasks : Ongoing(w) /\ task[w].book # Book => Quiet(task[w].book)
    <2>1. ListBecomes(Book, items, new)
      BY <1>1, <1>6, <1>7, <1>8 DEF ListBecomes
    <2> QED
      BY <1>4, <2>1, ListEdited
  <1>10. /\ DOMAIN tab' = TabFields /\ tab'.current = tab.current /\ tab'.rows = items
         /\ tab'.selected = j /\ tab'.editor = tab.editor
    <2>1. PICK t : t = Refresh(tab, items, j)
      OBVIOUS
    <2>2. DOMAIN t = TabFields /\ t.rows = items /\ t.current = tab.current /\ t.editor = tab.editor
      BY <2>1, IsRefreshed DEF BooksIInv, TabTypes
    <2> QED
      BY <1>1, <2>1, <2>2 DEF TabFields
  <1>11. j # 0 /\ j \in Nat /\ j <= Len(items)
    BY <1>1, <1>4, <1>6
  <1>12. TabTypes'
    BY <1>1, <1>10, <1>11 DEF BooksIInv, TabTypes
  <1>13. Book' = Book /\ Selected' = Selected
    <2>1. Book' = Book
      BY <1>1, <1>10 DEF Book
    <2>2. tab'.current # 0 /\ tab'.selected # 0 /\ frames'[Book'][tab'.selected] = f
      BY <1>3, <1>6, <1>9, <1>10, <1>11, <2>1
    <2>3. Selected' = {f}
      BY <2>2 DEF Selected
    <2> QED
      BY <1>3, <2>1, <2>3
  <1>14. EditsStay'
    <2>1. tab'.current # 0 => tab'.rows = frames'[Book'] /\ tab'.selected <= Len(frames'[Book'])
      BY <1>9, <1>10, <1>11, <1>13
    <2>2. \A c \in Books : ToSet(frames'[c]) \subseteq ToSet(frames[c]) \cup new
      BY <1>7, <1>9
    <2> QED
      BY <1>1, <1>7, <1>10, <1>13, <2>1, <2>2, EditorKept
  <1> QED
    BY <1>1, <1>9, <1>12, <1>14, TouchedKeeps

LEMMA CopyFramesKeeps == BooksIInv /\ CopyFrames => BooksIInv'
  <1> SUFFICES ASSUME BooksIInv, CopyFrames PROVE BooksIInv'
    OBVIOUS
  <1>1. Op /\ tab.current # 0 /\ UNCHANGED <<books, tab, runs>>
    BY DEF CopyFrames
  <1>2. PICK target \in ToSet(books) \ {Book}, copy \in Fresh, f \in ToSet(frames[Book]) :
          /\ frames' = [frames EXCEPT ![target] = Append(@, copy)]
          /\ hex' = [Saved EXCEPT ![copy] = Saved[f]] /\ meant' = [meant EXCEPT ![copy] = Saved[f]]
          /\ task' = Touched(target)
    BY DEF CopyFrames
  <1>3. target \in Books /\ frames[target] \in Seq(FrameIds) /\ Book \in Books /\ DOMAIN frames = Books
    BY <1>1, BookFacts DEF BooksIInv, BookTypes
  <1>4. /\ copy \in FrameIds /\ copy \notin Placed(frames) /\ copy \notin Selected
        /\ copy \notin ToSet(frames[target])
    BY <1>3, FreshFacts DEF Placed
  <1>5. PICK text : text = Saved[f]
    OBVIOUS
  <1>6. text \in Texts /\ text # Unborn
    <2>1. f \in FrameIds /\ f \in Placed(frames)
      BY <1>3, BookFacts
    <2> QED
      BY <1>5, <2>1, SavedFacts
  <1>7. PICK items : items = Append(frames[target], copy)
    OBVIOUS
  <1>8. frames' = [frames EXCEPT ![target] = items]
    BY <1>2, <1>3, <1>7
  <1>9. /\ items \in Seq(FrameIds) /\ \A k, l \in DOMAIN items : items[k] = items[l] => k = l
        /\ ToSet(items) \subseteq ToSet(frames[target]) \cup {copy}
    <2>1. PICK s : s = frames[target]
      OBVIOUS
    <2>2. s \in Seq(FrameIds) /\ copy \notin ToSet(s) /\ items = Append(s, copy)
      BY <1>3, <1>4, <1>7, <2>1
    <2>3. \A k, l \in DOMAIN s : s[k] = s[l] => k = l
      BY <1>3, <2>1 DEF BooksIInv, BookTypes, Apart
    <2>4. /\ items \in Seq(FrameIds) /\ Len(s) \in Nat /\ DOMAIN s = 1 .. Len(s)
          /\ DOMAIN items = 1 .. Len(s) + 1 /\ items[Len(s) + 1] = copy
          /\ \A k \in 1 .. Len(s) : items[k] = s[k]
      BY <1>4, <2>2, AppendProperties, LenProperties
    <2>5. \A k \in 1 .. Len(s) : s[k] # copy
      BY <2>2, <2>4 DEF ToSet
    <2>6. \A k, l \in DOMAIN items : items[k] = items[l] => k = l
      BY <2>3, <2>4, <2>5
    <2>7. ToSet(items) \subseteq ToSet(s) \cup {copy}
      BY <2>4 DEF ToSet
    <2> QED
      BY <2>1, <2>4, <2>6, <2>7
  <1>10. /\ hex' \in [FrameIds -> Texts] /\ meant' \in [FrameIds -> Texts]
         /\ \A g \in FrameIds \ {copy} : meant'[g] = meant[g] /\ hex'[g] = Saved[g]
         /\ hex'[copy] = text /\ meant'[copy] = text
    <2>1. hex' = [Saved EXCEPT ![copy] = text] /\ meant' = [meant EXCEPT ![copy] = text]
      BY <1>2, <1>5
    <2>2. Saved \in [FrameIds -> Texts] /\ meant \in [FrameIds -> Texts]
      BY SavedFacts DEF BooksIInv, BookTypes
    <2> QED
      BY <1>4, <1>6, <2>1, <2>2
  <1> DEFINE new == {copy}
  <1>11. /\ \A g \in FrameIds \ new : meant'[g] = meant[g] /\ hex'[g] = Saved[g]
         /\ \A g \in FrameIds \ new : meant'[g] = meant[g] /\ hex'[g] \in {hex[g], Saved[g]}
         /\ \A g \in new : hex'[g] # Unborn /\ meant'[g] = hex'[g]
         /\ \A g \in new : g \notin Selected /\ meant'[g] = hex'[g]
         /\ new \in SUBSET FrameIds /\ \A g \in new : g \notin Placed(frames)
         /\ ToSet(items) \subseteq ToSet(frames[target]) \cup new
    BY <1>4, <1>6, <1>9, <1>10
  <1> HIDE DEF new
  <1>12. /\ Ever' \subseteq Books /\ books' \in Seq(Books)
         /\ \A k, l \in DOMAIN books' : books'[k] = books'[l] => k = l
    BY <1>1, EverSame
  <1>13. /\ BookTypes' /\ frames'[target] = items /\ \A c \in Books \ {target} : frames'[c] = frames[c]
         /\ \A w \in Tasks : Ongoing(w) /\ task[w].book # target => Quiet(task[w].book)
    <2>1. ListBecomes(target, items, new)
      BY <1>8, <1>9, <1>10, <1>11, <1>12 DEF ListBecomes
    <2> QED
      BY <1>3, <2>1, ListEdited
  <1>14. TabTypes'
    BY <1>1 DEF BooksIInv, TabTypes
  <1>15. Book' = Book /\ frames'[Book] = frames[Book] /\ Selected' = Selected
    <2>1. Book' = Book /\ frames'[Book] = frames[Book]
      BY <1>1, <1>3, <1>13 DEF Book
    <2> QED
      BY <1>1, <2>1 DEF Selected
  <1>16. EditsStay'
    <2>1. tab'.current # 0 => tab'.rows = frames'[Book'] /\ tab'.selected <= Len(frames'[Book'])
      BY <1>1, <1>15, BookFacts
    <2>2. \A c \in Books : ToSet(frames'[c]) \subseteq ToSet(frames[c]) \cup new
      BY <1>11, <1>13
    <2>3. tab'.editor = tab.editor
      BY <1>1
    <2> QED
      BY <1>1, <1>11, <1>15, <2>1, <2>2, <2>3, EditorKept
  <1> QED
    BY <1>1, <1>2, <1>13, <1>14, <1>16, TouchedKeeps

(* What is typed goes into the editor; the runs of the playbook are marked. *)
LEMMA TypeKeeps == BooksIInv /\ Type => BooksIInv'
  <1> SUFFICES ASSUME BooksIInv, Type PROVE BooksIInv'
    OBVIOUS
  <1>1. /\ Op /\ UNCHANGED <<books, frames, hex, runs>>
        /\ task' = [w \in Tasks |-> [task[w] EXCEPT !.touched = @ \/ (Ongoing(w) /\ task[w].book = Book)]]
    BY DEF Type
  <1>2. PICK text \in Typed :
          /\ tab' = [tab EXCEPT !.editor = text]
          /\ meant' = [f \in FrameIds |-> IF f \in Selected THEN text ELSE meant[f]]
    BY DEF Type
  <1>3. text \in Texts \ {Unborn}
    BY PlaybooksAssumption
  <1>4. Ever \subseteq Ever' /\ Ever' \subseteq Books
    <2>1. {} \in SUBSET Books /\ ToSet(books') \subseteq ToSet(books) \cup {}
      BY <1>1
    <2> QED
      BY <1>1, <2>1, EverGrows
  <1>5. /\ meant' \in [FrameIds -> Texts]
        /\ \A f \in FrameIds : meant'[f] = IF f \in Selected THEN text ELSE meant[f]
    BY <1>2, <1>3 DEF BooksIInv, BookTypes
  <1>6. ASSUME NEW f \in Placed(frames) PROVE meant'[f] # Unborn
    <2>1. f \in FrameIds
      BY BookFacts DEF Placed
    <2> QED
      BY <1>3, <1>5, <2>1 DEF BooksIInv, BookTypes
  <1>7. BookTypes'
    BY <1>1, <1>4, <1>5, <1>6 DEF BooksIInv, BookTypes
  <1>8. /\ DOMAIN tab' = TabFields /\ tab'.current = tab.current /\ tab'.selected = tab.selected
        /\ tab'.rows = tab.rows /\ tab'.editor = text
    BY <1>2 DEF BooksIInv, TabTypes, TabFields
  <1>9. TabTypes'
    BY <1>1, <1>3, <1>8 DEF BooksIInv, TabTypes
  <1>10. EditsStay'
    <2>1. Selected' = Selected /\ Book' = Book
      BY <1>1, <1>8 DEF Selected, Book
    <2>2. tab'.current # 0 => tab'.rows = frames'[Book'] /\ tab'.selected <= Len(frames'[Book'])
      BY <1>1, <1>8, <2>1, BookFacts
    <2>3. ASSUME NEW b \in ToSet(books), NEW f \in ToSet(frames[b]), meant'[f] # Bad
          PROVE  meant'[f] = IF f \in Selected THEN text ELSE hex[f]
      <3>1. f \in FrameIds
        BY BookFacts
      <3>2. meant[f] # Bad => meant[f] = IF f \in Selected THEN tab.editor ELSE hex[f]
        BY DEF BooksIInv, EditsStay
      <3> QED
        BY <1>5, <2>3, <3>1, <3>2
    <2> QED
      BY <1>1, <1>8, <2>1, <2>2, <2>3 DEF EditsStay
  <1>11. DOMAIN task' = Tasks
    BY <1>1
  <1>12. ASSUME NEW w \in Tasks
         PROVE  SameWork(w) /\ (Ongoing(w) /\ task[w].book = Book => task'[w].touched)
    <2>1. DOMAIN task[w] = WorkFields
      BY DEF BooksIInv, WorkersInv, Work
    <2>2. task'[w] = [task[w] EXCEPT !.touched = @ \/ (Ongoing(w) /\ task[w].book = Book)]
      BY <1>1
    <2>3. PICK mark : mark = (task[w].touched \/ (Ongoing(w) /\ task[w].book = Book))
      OBVIOUS
    <2>4. task'[w] = [task[w] EXCEPT !.touched = mark]
      BY <2>2, <2>3
    <2>5. /\ DOMAIN task'[w] = WorkFields /\ task'[w].touched = mark /\ task'[w].cancelled = task[w].cancelled
          /\ \A x \in {"pc", "kind", "book", "only", "at", "sent", "began"} : task'[w][x] = task[w][x]
      BY <2>1, <2>4 DEF WorkFields
    <2> QED
      BY <2>3, <2>5 DEF SameWork
  <1>13. ASSUME NEW w \in Tasks, Ongoing(w), ~task'[w].touched PROVE Quiet(task[w].book)
    <2>1. task[w].book # Book /\ task[w].book \in Books
      BY <1>12, <1>13, BookFacts DEF BooksIInv, WorkersInv, Work, Ongoing
    <2>2. \A f \in ToSet(frames[task[w].book]) : f \in FrameIds /\ f \notin Selected
      BY <2>1, BookFacts, SelectedFacts
    <2> QED
      BY <1>1, <1>5, <2>2 DEF Quiet
  <1> QED
    BY <1>1, <1>4, <1>7, <1>9, <1>10, <1>11, <1>12, <1>13, EditKeeps

---------------------------------------------------------------------------
(* Steps of a worker.                                                      *)
LEMMA WorkerKeeps ==
  ASSUME BooksIInv, UNCHANGED <<books, frames, meant, tab>>, hex' = hex \/ hex' = Saved,
         UNCHANGED past \/ Op, NEW w \in Tasks, DOMAIN task' = Tasks,
         \A v \in Tasks \ {w} : SameWork(v), Work(w)', RunsTypes', RunsAreFaithful'
  PROVE  BooksIInv'
  <1>1. BookTypes' /\ Ever \subseteq Ever'
    BY ViewTypes
  <1>2. DOMAIN tab' = TabFields
    BY DEF BooksIInv, TabTypes
  <1>3. TabTypes' /\ EditsStay'
    BY <1>2, TabSame
  <1>4. \A v \in Tasks \ {w} : Quiet(task[v].book)
    BY DEF Quiet
  <1>5. \A v \in Tasks \ {w} : Work(v)'
    BY <1>1, <1>4, WorkStays
  <1> QED
    BY <1>1, <1>3, <1>5 DEF BooksIInv, WorkersInv

LEMMA OthersSame ==
  ASSUME BooksIInv, NEW w \in Tasks, NEW x, task' = [task EXCEPT ![w] = x]
  PROVE  DOMAIN task' = Tasks /\ task'[w] = x /\ \A v \in Tasks \ {w} : SameWork(v)
  BY DEF BooksIInv, WorkersInv, Work, SameWork

(* A worker is done.                                                       *)
LEMMA EndsWell ==
  ASSUME BooksIInv, NEW w \in Tasks, Ongoing(w), Ends(w), UNCHANGED <<books, past>>
  PROVE  /\ DOMAIN task' = Tasks /\ \A v \in Tasks \ {w} : SameWork(v)
         /\ Work(w)' /\ task'[w].pc = "done" /\ task[w].book \in Books
         /\ task'[w].touched = task[w].touched /\ task'[w].cancelled = task[w].cancelled
         /\ task'[w].book = task[w].book /\ task'[w].sent = task[w].sent /\ task'[w].began = task[w].began
  <1>1. PICK x : x = [task[w] EXCEPT !.pc = "done"]
    OBVIOUS
  <1>2. task' = [task EXCEPT ![w] = x]
    BY <1>1 DEF Ends
  <1>3. DOMAIN task' = Tasks /\ task'[w] = x /\ \A v \in Tasks \ {w} : SameWork(v)
    BY <1>2, OthersSame
  <1>4. Work(w)
    BY DEF BooksIInv, WorkersInv
  <1>5. DOMAIN x = WorkFields /\ x.pc = "done"
    BY <1>1, <1>4 DEF Work, WorkFields
  <1>6. /\ x.touched = task[w].touched /\ x.cancelled = task[w].cancelled /\ x.book = task[w].book
        /\ x.sent = task[w].sent /\ x.began = task[w].began /\ x.only = task[w].only /\ x.at = task[w].at
    BY <1>1, <1>4 DEF Work, WorkFields
  <1>7. task[w].book \in Ever /\ Ever' = Ever
    BY <1>4 DEF Work, Ongoing, Ever
  <1>8. ~Ongoing(w)'
    BY <1>3, <1>5 DEF Ongoing
  <1>9. Work(w)'
    BY <1>3, <1>4, <1>5, <1>6, <1>7, <1>8 DEF Work
  <1> QED
    BY <1>3, <1>5, <1>6, <1>7, <1>9, BookFacts

LEMMA EndsKeeps ==
  ASSUME BooksIInv, NEW w \in Tasks, Ongoing(w), Ends(w),
         UNCHANGED <<books, frames, hex, tab, runs, meant, past>>
  PROVE  BooksIInv'
  <1>1. /\ DOMAIN task' = Tasks /\ \A v \in Tasks \ {w} : SameWork(v)
        /\ Work(w)'
    BY EndsWell
  <1>2. task[w].pc # "done"
    BY DEF Ongoing
  <1>3. RunsTypes' /\ RunsAreFaithful'
    BY <1>1, <1>2, RunsStay
  <1> QED
    BY <1>1, <1>3, WorkerKeeps

LEMMA SendFailsKeeps ==
  ASSUME BooksIInv, NEW w \in Tasks, SendFails(w) PROVE BooksIInv'
  <1>1. Ongoing(w) /\ Ends(w) /\ UNCHANGED <<books, frames, hex, tab, runs, meant, past>>
    BY DEF SendFails, Ongoing
  <1> QED
    BY <1>1, EndsKeeps

LEMMA CancelledKeeps ==
  ASSUME BooksIInv, NEW w \in Tasks, Cancelled(w) PROVE BooksIInv'
  <1>1. Ongoing(w) /\ Ends(w) /\ UNCHANGED <<books, frames, hex, tab, runs, meant, past>>
    BY DEF Cancelled
  <1> QED
    BY <1>1, EndsKeeps

(* The list a worker goes through.                                         *)
LEMMA ListFacts ==
  ASSUME BooksIInv, NEW w \in Tasks, Ongoing(w)
  PROVE  /\ List(w) \in Seq(FrameIds) /\ Len(List(w)) \in Nat /\ DOMAIN List(w) = 1 .. Len(List(w))
         /\ task[w].book \in Books
  <1>1. task[w].book \in Books /\ task[w].only \in Seq(FrameIds)
    BY BookFacts DEF BooksIInv, WorkersInv, Work, Ongoing
  <1>2. List(w) \in Seq(FrameIds)
    BY <1>1, BookFacts DEF List
  <1> QED
    BY <1>1, <1>2, LenProperties

LEMMA SendNextKeeps ==
  ASSUME BooksIInv, NEW w \in Tasks, SendNext(w) PROVE BooksIInv'
  <1> DEFINE f == List(w)[task[w].at]
  <1>1. /\ Ongoing(w) /\ task[w].at <= Len(List(w))
        /\ UNCHANGED <<books, frames, hex, tab, runs, meant, past>>
    BY DEF SendNext
  <1>2. CASE hex[f] = Bad
    <2>1. Ends(w)
      BY <1>2 DEF SendNext
    <2> QED
      BY <1>1, <2>1, EndsKeeps
  <1>3. CASE hex[f] # Bad
    <2>1. task' = [task EXCEPT ![w].pc = "wait", ![w].at = @ + 1,
                               ![w].sent = Append(@, [frame |-> f, text |-> hex[f]])]
      BY <1>3 DEF SendNext
    <2>2. Work(w) /\ DOMAIN task = Tasks
      BY DEF BooksIInv, WorkersInv
    <2>3. /\ List(w) \in Seq(FrameIds) /\ DOMAIN List(w) = 1 .. Len(List(w)) /\ Len(List(w)) \in Nat
          /\ task[w].at \in Nat \ {0} /\ task[w].at \in DOMAIN List(w)
      BY <1>1, <2>2, ListFacts DEF Work
    <2>4. f \in FrameIds /\ hex[f] \in Texts
      BY <2>3, ElementOfSeq DEF BooksIInv, BookTypes
    <2>5. PICK s : s = [frame |-> f, text |-> hex[f]]
      OBVIOUS
    <2>6. s \in Sendings /\ s.text = hex[f]
      BY <2>4, <2>5 DEF Sendings
    <2>7. PICK sent : sent = Append(task[w].sent, s)
      OBVIOUS
    <2>8. /\ sent \in Seq(Sendings) /\ Len(sent) = Len(task[w].sent) + 1 /\ Len(task[w].sent) \in Nat
          /\ DOMAIN sent = 1 .. Len(task[w].sent) + 1 /\ sent[Len(task[w].sent) + 1] = s
          /\ \A i \in 1 .. Len(task[w].sent) : sent[i] = task[w].sent[i]
          /\ DOMAIN task[w].sent = 1 .. Len(task[w].sent)
      BY <2>2, <2>6, <2>7, AppendProperties, LenProperties DEF Work
    <2>9. PICK at : at = task[w].at + 1
      OBVIOUS
    <2>10. at \in Nat \ {0}
      BY <2>3, <2>9
    <2>11. PICK x : x = [task[w] EXCEPT !.pc = "wait", !.at = at, !.sent = sent]
      OBVIOUS
    <2>12. task' = [task EXCEPT ![w] = x]
      BY <2>1, <2>2, <2>5, <2>7, <2>9, <2>11 DEF Work, WorkFields
    <2>13. DOMAIN task' = Tasks /\ task'[w] = x /\ \A v \in Tasks \ {w} : SameWork(v)
      BY <2>12, OthersSame
    <2>14. DOMAIN x = WorkFields /\ x.pc = "wait" /\ x.at = at /\ x.sent = sent
      BY <2>2, <2>11 DEF Work, WorkFields
    <2>15. /\ x.touched = task[w].touched /\ x.book = task[w].book /\ x.only = task[w].only
           /\ x.began = task[w].began /\ x.kind = task[w].kind
      BY <2>2, <2>11 DEF Work, WorkFields
    <2>16. task[w].book \in Ever /\ Ever' = Ever
      BY <1>1, <2>2 DEF Work, Ongoing, Ever
    <2>17. ASSUME ~task[w].touched, Bad \notin ToSet(task[w].began) PROVE Follows(w)'
      <3>1. Follows(w)
        BY <1>1, <2>2, <2>17 DEF Work
      <3>2. List(w)' = List(w)
        BY <1>1, <2>13, <2>15 DEF List
      <3>3. at = Len(sent) + 1 /\ Len(sent) <= Len(List(w))
        BY <2>3, <2>8, <2>9, <3>1 DEF Follows
      <3>4. \A i \in DOMAIN sent : sent[i].text = task[w].began[i]
        <4>1. Len(task[w].sent) + 1 = task[w].at
          BY <3>1 DEF Follows
        <4>2. s.text = task[w].began[task[w].at]
          BY <2>3, <2>6, <3>1 DEF Follows
        <4>3. \A i \in 1 .. Len(task[w].sent) : sent[i].text = task[w].began[i]
          BY <2>8, <3>1 DEF Follows
        <4>4. ASSUME NEW i \in DOMAIN sent PROVE i \in 1 .. Len(task[w].sent) \/ i = task[w].at
          BY <2>8, <4>1
        <4>5. sent[task[w].at].text = task[w].began[task[w].at]
          BY <2>8, <4>1, <4>2
        <4> QED
          BY <4>3, <4>4, <4>5
      <3> HIDE DEF f
      <3> QED
        BY <1>1, <2>13, <2>14, <2>15, <3>1, <3>2, <3>3, <3>4, ZenonT(40) DEF Follows
    <2>18. Work(w)'
      BY <2>2, <2>8, <2>10, <2>13, <2>14, <2>15, <2>16, <2>17 DEF Work
    <2>19. RunsTypes' /\ RunsAreFaithful'
      <3>1. task[w].pc # "done"
        BY <1>1 DEF Ongoing
      <3> QED
        BY <1>1, <2>13, <3>1, RunsStay
    <2> QED
      BY <1>1, <2>13, <2>18, <2>19, WorkerKeeps
  <1> QED
    BY <1>2, <1>3

LEMMA FinishesKeeps ==
  ASSUME BooksIInv, NEW w \in Tasks, Finishes(w) PROVE BooksIInv'
  <1>1. /\ Ongoing(w) /\ ~task[w].cancelled /\ task[w].at > Len(List(w))
        /\ runs' = [runs EXCEPT ![task[w].book] = Append(@, [task |-> w, sent |-> task[w].sent])]
        /\ Ends(w) /\ UNCHANGED <<books, frames, hex, tab, meant, past>>
    BY DEF Finishes
  <1>2. /\ DOMAIN task' = Tasks /\ \A v \in Tasks \ {w} : SameWork(v)
        /\ Work(w)' /\ task'[w].pc = "done" /\ task[w].book \in Books
        /\ task'[w].touched = task[w].touched /\ task'[w].cancelled = task[w].cancelled
        /\ task'[w].book = task[w].book /\ task'[w].sent = task[w].sent /\ task'[w].began = task[w].began
    BY <1>1, EndsWell
  <1>3. PICK b : b = task[w].book
    OBVIOUS
  <1>4. PICK run : run = [task |-> w, sent |-> task[w].sent]
    OBVIOUS
  <1>5. run \in Histories /\ run.task = w /\ run.sent = task[w].sent
    BY <1>4 DEF BooksIInv, WorkersInv, Work, Histories
  <1>6. runs \in [Books -> Seq(Histories)] /\ b \in Books /\ runs' = [runs EXCEPT ![b] = Append(runs[b], run)]
    BY <1>1, <1>2, <1>3, <1>4 DEF BooksIInv, RunsTypes
  <1>7. PICK old : old = runs[b]
    OBVIOUS
  <1>8. PICK log : log = Append(old, run)
    OBVIOUS
  <1>9. /\ log \in Seq(Histories) /\ Len(old) \in Nat /\ DOMAIN log = 1 .. Len(old) + 1
        /\ log[Len(old) + 1] = run /\ DOMAIN old = 1 .. Len(old)
        /\ \A k \in DOMAIN old : log[k] = old[k]
    BY <1>5, <1>6, <1>7, <1>8, AppendProperties, LenProperties
  <1>10. RunsTypes' /\ runs'[b] = log /\ \A c \in Books \ {b} : runs'[c] = runs[c]
    BY <1>6, <1>7, <1>8, <1>9 DEF RunsTypes
  <1>11. \A c \in Books : \A k \in DOMAIN runs'[c] :
            \/ k \in DOMAIN runs[c] /\ runs'[c][k] = runs[c][k]
            \/ c = b /\ k = Len(old) + 1 /\ runs'[c][k] = run
    <2> SUFFICES ASSUME NEW c \in Books, NEW k \in DOMAIN runs'[c]
                 PROVE  \/ k \in DOMAIN runs[c] /\ runs'[c][k] = runs[c][k]
                        \/ c = b /\ k = Len(old) + 1 /\ runs'[c][k] = run
      OBVIOUS
    <2>1. CASE c # b
      BY <1>10, <2>1
    <2>2. CASE c = b
      <3>1. k \in DOMAIN log /\ runs'[c][k] = log[k]
        BY <1>10, <2>2
      <3>2. k \in DOMAIN old \/ k = Len(old) + 1
        BY <1>9, <3>1
      <3> QED
        BY <1>7, <1>9, <2>2, <3>1, <3>2
    <2> QED
      BY <2>1, <2>2
  <1>12. \A c \in Books : \A k \in DOMAIN runs[c] :
            runs[c][k].task \in Tasks \ {w} /\ SameWork(runs[c][k].task)
    <2> SUFFICES ASSUME NEW c \in Books, NEW k \in DOMAIN runs[c]
                 PROVE  runs[c][k].task \in Tasks \ {w} /\ SameWork(runs[c][k].task)
      OBVIOUS
    <2>1. runs[c][k].task \in Tasks /\ task[runs[c][k].task].pc = "done"
      BY RunFacts
    <2>2. task[w].pc # "done"
      BY <1>1 DEF Ongoing
    <2> QED
      BY <1>2, <2>1, <2>2
  <1>13. RunSendsWhatIsShown'
    <2> SUFFICES ASSUME NEW c \in Books, NEW k \in DOMAIN runs'[c],
                        ~task'[runs'[c][k].task].touched, Bad \notin ToSet(task'[runs'[c][k].task].began)
                 PROVE  task'[runs'[c][k].task].began =
                          [i \in DOMAIN task'[runs'[c][k].task].sent |-> task'[runs'[c][k].task].sent[i].text]
      BY DEF RunSendsWhatIsShown
    <2>1. CASE k \in DOMAIN runs[c] /\ runs'[c][k] = runs[c][k]
      <3> DEFINE v == runs[c][k].task
      <3>1. v \in Tasks /\ SameWork(v)
        BY <1>12, <2>1
      <3>2. ~task[v].touched /\ task'[v].began = task[v].began /\ task'[v].sent = task[v].sent
        BY <2>1, <3>1, SameFields DEF SameWork
      <3>3. task[v].began = [i \in DOMAIN task[v].sent |-> task[v].sent[i].text]
        BY <2>1, <3>2 DEF BooksIInv, RunsAreFaithful, RunSendsWhatIsShown
      <3> QED
        BY <2>1, <3>2, <3>3
    <2>2. CASE runs'[c][k] = run
      <3>1. ~task[w].touched /\ Bad \notin ToSet(task[w].began)
        BY <1>2, <1>5, <2>2
      <3>2. Follows(w)
        BY <1>1, <3>1 DEF BooksIInv, WorkersInv, Work
      <3>3. Len(List(w)) \in Nat /\ DOMAIN List(w) = 1 .. Len(List(w)) /\ task[w].sent \in Seq(Sendings)
        BY <1>1, ListFacts DEF BooksIInv, WorkersInv, Work
      <3>4. Len(task[w].sent) \in Nat /\ DOMAIN task[w].sent = 1 .. Len(task[w].sent)
        BY <3>3, LenProperties
      <3>5. Len(task[w].sent) = Len(List(w))
        <4>1. task[w].at = Len(task[w].sent) + 1 /\ Len(task[w].sent) <= Len(List(w))
          BY <3>2 DEF Follows
        <4>2. task[w].at > Len(List(w))
          BY <1>1
        <4> QED
          BY <3>3, <3>4, <4>1, <4>2
      <3>6. task[w].began = [i \in DOMAIN task[w].sent |-> task[w].began[i]]
        BY <3>2, <3>3, <3>4, <3>5 DEF Follows
      <3>7. \A i \in DOMAIN task[w].sent : task[w].sent[i].text = task[w].began[i]
        BY <3>2 DEF Follows
      <3>8. task[w].began = [i \in DOMAIN task[w].sent |-> task[w].sent[i].text]
        BY <3>6, <3>7
      <3> QED
        BY <1>2, <1>5, <2>2, <3>8
    <2> QED
      BY <1>11, <2>1, <2>2
  <1>14. RunsAreWhole'
    <2> SUFFICES ASSUME NEW c \in Books, NEW k \in DOMAIN runs'[c]
                 PROVE  LET v == runs'[c][k].task IN
                        /\ task'[v].pc = "done" /\ task'[v].book = c /\ ~task'[v].cancelled
                        /\ runs'[c][k].sent = task'[v].sent
                        /\ \A j \in DOMAIN runs'[c] \ {k} : runs'[c][j].task # v
      BY DEF RunsAreWhole
    <2>1. CASE k \in DOMAIN runs[c] /\ runs'[c][k] = runs[c][k]
      <3> DEFINE v == runs[c][k].task
      <3>1. v \in Tasks \ {w} /\ SameWork(v)
        BY <1>12, <2>1
      <3>2. /\ task[v].pc = "done" /\ task[v].book = c /\ ~task[v].cancelled /\ runs[c][k].sent = task[v].sent
            /\ \A j \in DOMAIN runs[c] \ {k} : runs[c][j].task # v
        BY <2>1 DEF BooksIInv, RunsAreFaithful, RunsAreWhole
      <3>3. task'[v].pc = "done" /\ task'[v].book = c /\ ~task'[v].cancelled /\ runs[c][k].sent = task'[v].sent
        BY <3>1, <3>2, SameFields DEF SameWork
      <3>4. \A j \in DOMAIN runs'[c] \ {k} : runs'[c][j].task # v
        BY <1>5, <1>11, <3>1, <3>2
      <3> QED
        BY <2>1, <3>3, <3>4
    <2>2. CASE c = b /\ k = Len(old) + 1 /\ runs'[c][k] = run
      <3>1. /\ task'[w].pc = "done" /\ task'[w].book = c /\ ~task'[w].cancelled
            /\ run.sent = task'[w].sent
        BY <1>1, <1>2, <1>3, <1>5, <2>2
      <3>2. \A j \in DOMAIN runs'[c] \ {k} : runs'[c][j].task # w
        BY <1>11, <1>12, <2>2
      <3> QED
        BY <1>5, <2>2, <3>1, <3>2
    <2> QED
      BY <1>11, <2>1, <2>2
  <1> QED
    BY <1>1, <1>2, <1>10, <1>13, <1>14, WorkerKeeps DEF RunsAreFaithful

(* A click on Run or Send: the editor is saved, the worker gets the list,  *)
(* and what was shown for its frames is what they hold.                    *)
LEMMA BegunKeeps ==
  ASSUME BooksIInv, tab.current # 0, Op, hex' = Saved, UNCHANGED <<books, frames, tab, runs, meant>>,
         NEW kind, NEW only \in Seq(FrameIds), NEW items \in Seq(FrameIds),
         ToSet(items) \subseteq ToSet(frames[Book]),
         kind = "send" => items = only, kind # "send" => items = frames[Book],
         Begun(kind, only, items, meant)
  PROVE  BooksIInv'
  <1> DEFINE texts == [i \in DOMAIN items |-> meant[items[i]]]
             kept == ToSet(items)
             b == Book
             y == [NoTask EXCEPT !.pc = "start", !.kind = kind, !.book = b, !.only = only,
                                 !.began = texts, !.kept = kept]
  <1>1. PICK w \in Tasks :
          /\ task[w].pc = "none"
          /\ task' = [v \in Tasks |-> IF v = w THEN y
                                      ELSE [task[v] EXCEPT !.cancelled = @ \/ Ongoing(v)]]
    BY Zenon DEF Begun
  <1>2. texts = [i \in DOMAIN items |-> meant[items[i]]]
    OBVIOUS
  <1>3. b = Book
    OBVIOUS
  <1> HIDE DEF texts, kept, b
  <1>4. y = [NoTask EXCEPT !.pc = "start", !.kind = kind, !.book = b, !.only = only,
                           !.began = texts, !.kept = kept]
    OBVIOUS
  <1> HIDE DEF y
  <1>5. PICK none, first : none = <<>> /\ first = 1
    OBVIOUS
  <1>6. DOMAIN y = WorkFields
    BY <1>4 DEF NoTask, WorkFields
  <1>7. y.book = b /\ y.only = only /\ y.began = texts /\ y.kind = kind
    BY <1>4 DEF NoTask
  <1>8. y.pc = "start" /\ y.sent = none /\ y.at = first
    BY <1>4, <1>5 DEF NoTask
  <1>9. DOMAIN task' = Tasks /\ task'[w] = y
    BY <1>1
  <1>10. ASSUME NEW v \in Tasks \ {w} PROVE SameWork(v)
    <2>1. PICK mark : mark = (task[v].cancelled \/ Ongoing(v))
      OBVIOUS
    <2>2. task'[v] = [task[v] EXCEPT !.cancelled = mark]
      BY <1>1, <2>1
    <2>3. DOMAIN task[v] = WorkFields
      BY DEF BooksIInv, WorkersInv, Work
    <2>4. /\ DOMAIN task'[v] = WorkFields /\ task'[v].cancelled = mark /\ task'[v].touched = task[v].touched
          /\ \A x \in {"pc", "kind", "book", "only", "at", "sent", "began"} : task'[v][x] = task[v][x]
      BY <2>2, <2>3 DEF WorkFields
    <2> QED
      BY <2>1, <2>4 DEF SameWork, Ongoing
  <1>11. b \in Ever' /\ b \in ToSet(books) /\ b \in Books
    BY <1>3, BookFacts DEF Ever
  <1>12. none \in Seq(Sendings) /\ Len(none) = 0 /\ DOMAIN none = {}
    BY <1>5
  <1>13. first \in Nat \ {0} /\ first = 0 + 1
    BY <1>5
  <1>14. List(w)' = items
    <2>1. CASE kind = "send"
      BY <1>7, <1>9, <2>1 DEF List
    <2>2. CASE kind # "send"
      BY <1>3, <1>7, <1>9, <2>2 DEF List
    <2> QED
      BY <2>1, <2>2
  <1>15. Len(items) \in Nat
    BY LenProperties
  <1>16. ASSUME Bad \notin ToSet(texts) PROVE Follows(w)'
    <2>1. \A i \in DOMAIN items :
             /\ items[i] \in ToSet(frames'[b])
             /\ hex'[items[i]] = texts[i] /\ meant'[items[i]] = texts[i]
      <3> SUFFICES ASSUME NEW i \in DOMAIN items
                   PROVE  /\ items[i] \in ToSet(frames'[b])
                          /\ hex'[items[i]] = texts[i] /\ meant'[items[i]] = texts[i]
        OBVIOUS
      <3>1. items[i] \in ToSet(items)
        BY DEF ToSet
      <3>2. texts[i] = meant[items[i]] /\ texts[i] # Bad
        BY <1>2, <1>16 DEF ToSet
      <3>3. items[i] \in ToSet(frames[b])
        BY <1>3, <3>1
      <3>4. meant[items[i]] = Saved[items[i]]
        BY <1>11, <3>2, <3>3, SavedFacts
      <3> QED
        BY <3>2, <3>3, <3>4
    <2>2. texts = [i \in DOMAIN items |-> texts[i]]
      BY <1>2
    <2> QED
      BY <1>7, <1>8, <1>9, <1>12, <1>13, <1>14, <1>15, <2>1, <2>2 DEF Follows
  <1>17. Work(w)'
    BY <1>6, <1>7, <1>8, <1>9, <1>11, <1>12, <1>13, <1>16 DEF Work
  <1>18. RunsTypes' /\ RunsAreFaithful'
    BY <1>1, <1>10, RunsStay
  <1> QED
    BY <1>9, <1>10, <1>17, <1>18, WorkerKeeps

LEMMA DoRunKeeps == BooksIInv /\ DoRun => BooksIInv'
  <1> SUFFICES ASSUME BooksIInv, DoRun PROVE BooksIInv'
    OBVIOUS
  <1>1. PICK kind, only : kind = "run" /\ only = <<>> /\ Begun(kind, only, frames[Book], meant)
    BY DEF DoRun
  <1>2. /\ Op /\ tab.current # 0 /\ hex' = Saved
        /\ UNCHANGED <<books, frames, tab, runs, meant>>
    BY DEF DoRun
  <1>3. only \in Seq(FrameIds) /\ kind # "send" /\ frames[Book] \in Seq(FrameIds)
    BY <1>1, <1>2, BookFacts
  <1> QED
    BY <1>1, <1>2, <1>3, BegunKeeps

LEMMA SendSelectedKeeps == BooksIInv /\ SendSelected => BooksIInv'
  <1> SUFFICES ASSUME BooksIInv, SendSelected PROVE BooksIInv'
    OBVIOUS
  <1>1. PICK f \in Selected : Begun("send", <<f>>, <<f>>, meant)
    BY DEF SendSelected
  <1>2. PICK kind, only : kind = "send" /\ only = <<f>> /\ Begun(kind, only, only, meant)
    BY <1>1
  <1>3. Op /\ hex' = Saved /\ UNCHANGED <<books, frames, tab, runs, meant>>
    BY DEF SendSelected
  <1>4. tab.current # 0 /\ f \in FrameIds /\ f \in ToSet(frames[Book])
    BY SelectedFacts
  <1>5. only \in Seq(FrameIds) /\ ToSet(only) \subseteq ToSet(frames[Book])
    BY <1>2, <1>4 DEF ToSet
  <1> QED
    BY <1>2, <1>3, <1>4, <1>5, BegunKeeps

---------------------------------------------------------------------------
LEMMA BooksInitInv == BooksInit => BooksIInv
  <1> SUFFICES ASSUME BooksInit PROVE BooksIInv
    OBVIOUS
  <1>1. PICK p \in Opened :
          /\ books = p.books /\ frames = p.frames /\ hex = p.texts /\ meant = p.texts
          /\ tab = [current |-> 1, selected |-> 1, anchor |-> 1, cursor |-> 1, extending |-> FALSE,
                    chosen |-> <<p.frames[p.books[1]][1]>>, rows |-> p.frames[p.books[1]],
                    editor |-> p.texts[p.frames[p.books[1]][1]], mode |-> "hex"]
    BY DEF BooksInit
  <1>2. /\ books \in Seq(Books) /\ frames \in [Books -> Seq(FrameIds)]
        /\ hex \in [FrameIds -> Texts] /\ meant \in [FrameIds -> Texts] /\ meant = hex
        /\ books # <<>> /\ frames[books[1]] # <<>>
    BY <1>1, PlaybooksAssumption
  <1>3. \A i, j \in DOMAIN books : books[i] = books[j] => i = j
    BY <1>1, PlaybooksAssumption
  <1>4. Apart(frames)
    <2>1. Apart(p.frames)
      BY PlaybooksAssumption DEF Apart
    <2> QED
      BY <1>1, <2>1
  <1>5. \A b \in Books : \A i \in DOMAIN frames[b] : hex[frames[b][i]] # Unborn
    <2>1. \A b \in Books : \A i \in DOMAIN p.frames[b] : p.texts[p.frames[b][i]] # Unborn
      BY PlaybooksAssumption
    <2> QED
      BY <1>1, <2>1
  <1>6. ToSet(books) \subseteq Books /\ Ever = ToSet(books)
    <2>1. ToSet(books) \subseteq Books
      BY <1>2, LenProperties, ElementOfSeq DEF ToSet
    <2>2. past.books = ToSet(books)
      BY DEF BooksInit
    <2> QED
      BY <2>1, <2>2 DEF Ever
  <1>7. BookTypes
    <2>1. \A f \in Placed(frames) : hex[f] # Unborn /\ meant[f] # Unborn
      BY <1>2, <1>5 DEF Placed, ToSet
    <2> QED
      BY <1>2, <1>3, <1>4, <1>6, <2>1 DEF BookTypes
  <1>8. PICK rows, text, one :
          rows = frames[books[1]] /\ text = hex[rows[1]] /\ one = <<rows[1]>>
    OBVIOUS
  <1>9. tab = [current |-> 1, selected |-> 1, anchor |-> 1, cursor |-> 1, extending |-> FALSE,
               chosen |-> one, rows |-> rows, editor |-> text, mode |-> "hex"]
    BY <1>1, <1>8
  <1>10. /\ DOMAIN tab = TabFields /\ tab.current = 1 /\ tab.selected = 1
         /\ tab.rows = rows /\ tab.editor = text
    BY <1>9 DEF TabFields
  <1>11. /\ Len(books) \in Nat /\ 1 \in 1 .. Len(books) /\ 1 \in DOMAIN books /\ books[1] \in Books
    BY <1>2, EmptySeq, LenProperties, ElementOfSeq
  <1>12. /\ rows \in Seq(FrameIds) /\ Len(rows) \in Nat /\ 1 \in 1 .. Len(rows) /\ 1 \in DOMAIN rows
         /\ rows[1] \in FrameIds
    BY <1>2, <1>8, <1>11, EmptySeq, LenProperties, ElementOfSeq
  <1>13. text \in Texts \ {Unborn}
    BY <1>2, <1>5, <1>8, <1>11, <1>12
  <1>14. TabTypes
    BY <1>10, <1>11, <1>13 DEF TabTypes
  <1>15. EditsStay
    <2>1. Book = books[1] /\ Selected = {rows[1]}
      BY <1>8, <1>10 DEF Book, Selected
    <2> QED
      BY <1>2, <1>8, <1>10, <1>11, <1>12, <2>1 DEF EditsStay
  <1>16. WorkersInv
    <2>1. task = [w \in Tasks |-> NoTask]
      BY DEF BooksInit
    <2>2. ASSUME NEW w \in Tasks PROVE Work(w)
      <3>1. /\ DOMAIN task[w] = WorkFields /\ task[w].pc = "none"
            /\ task[w].sent = <<>> /\ task[w].only = <<>> /\ task[w].at = 1
        BY <2>1 DEF NoTask, WorkFields
      <3> QED
        BY <3>1 DEF Work, Ongoing
    <2> QED
      BY <2>1, <2>2 DEF WorkersInv
  <1>17. RunsTypes /\ RunsAreFaithful
    <2>1. runs = [b \in Books |-> <<>>]
      BY DEF BooksInit
    <2> QED
      BY <2>1 DEF RunsTypes, RunsAreFaithful, RunSendsWhatIsShown, RunsAreWhole
  <1> QED
    BY <1>7, <1>14, <1>15, <1>16, <1>17 DEF BooksIInv

LEMMA BooksStepInv == BooksIInv /\ [BooksNext]_bvars => BooksIInv'
  <1> SUFFICES ASSUME BooksIInv, [BooksNext]_bvars PROVE BooksIInv'
    OBVIOUS
  <1>1. CASE AddBook \/ DeleteBook \/ AddBlank \/ RemoveFrame \/ CopyFrames
    BY <1>1, AddBookKeeps, DeleteBookKeeps, AddBlankKeeps, RemoveFrameKeeps, CopyFramesKeeps
  <1>2. CASE \E j \in 1 .. Cardinality(FrameIds) : MoveFrame(j)
    BY <1>2, MoveFrameKeeps
  <1>3. CASE Type \/ SetMode \/ BookCursorTo \/ CancelSelection
    BY <1>3, TypeKeeps, SetModeKeeps, BookCursorToKeeps, CancelSelectionKeeps
  <1>4. CASE \E row \in 0 .. Cardinality(FrameIds), shift \in BOOLEAN : CursorTo(row, shift)
    BY <1>4, CursorToKeeps
  <1>5. CASE BookHighlighted \/ FrameHighlighted \/ FrameSelected \/ RunHighlighted
    BY <1>5, BookHighlightedKeeps, FrameHighlightedKeeps, FrameSelectedKeeps, RunHighlightedKeeps
  <1>6. CASE DoRun \/ SendSelected \/ Stop
    BY <1>6, DoRunKeeps, SendSelectedKeeps, StopKeeps
  <1>7. CASE \E w \in Tasks : SendNext(w) \/ Finishes(w) \/ SendFails(w) \/ Cancelled(w)
    BY <1>7, SendNextKeeps, FinishesKeeps, SendFailsKeeps, CancelledKeeps
  <1>8. CASE UNCHANGED bvars
    <2>1. UNCHANGED <<books, frames, hex, tab, runs, task, meant, past>>
      BY <1>8 DEF bvars
    <2> QED
      BY <2>1, TabUntouched
  <1> QED
    BY <1>1, <1>2, <1>3, <1>4, <1>5, <1>6, <1>7, <1>8 DEF BooksNext

(* BooksIInv holds in every state the Forge tab reaches.                   *)
THEOREM BooksInvHolds == BooksSpec => []BooksIInv
  BY BooksInitInv, BooksStepInv, PTL DEF BooksSpec

(* Whatever is selected, moved, copied, removed or switched to, and        *)
(* however late the tables report their cursors, what the operator typed   *)
(* for a frame stays with that frame (_save_frame_editor and its callers). *)
THEOREM EditsAlwaysStay == BooksSpec => []EditsStay
  <1>1. BooksIInv => EditsStay
    BY DEF BooksIInv
  <1> QED
    BY <1>1, BooksInvHolds, PTL

(* A run that nobody edits under sends every frame of its playbook with    *)
(* the texts that were shown when it was started, and every run of a       *)
(* history went through all frames of that playbook (_do_run, _async_run). *)
THEOREM RunsAreAlwaysFaithful == BooksSpec => []RunsAreFaithful
  <1>1. BooksIInv => RunsAreFaithful
    BY DEF BooksIInv
  <1> QED
    BY <1>1, BooksInvHolds, PTL

---------------------------------------------------------------------------
(* The two tabs share no state, so that what holds of each holds of both.  *)
LEMMA TabsAreIndependent == TabsSpec => RulesSpec /\ BooksSpec
  <1>1. TabsInit => RulesInit /\ BooksInit
    BY DEF TabsInit
  <1>2. [TabsNext]_<<rvars, bvars, open>> => [RulesNext]_rvars /\ [BooksNext]_bvars
    BY DEF TabsNext
  <1> QED
    BY <1>1, <1>2, PTL DEF TabsSpec, RulesSpec, BooksSpec

(* In the interface with both tabs, restoring the rules changes nothing,   *)
(* what was typed for a frame stays with it, and runs are faithful.        *)
THEOREM TabsAreSafe == TabsSpec => [](RestartChangesNothing /\ EditsStay /\ RunsAreFaithful)
  BY TabsAreIndependent, RestartNeverChangesAnything, EditsAlwaysStay, RunsAreAlwaysFaithful, PTL
==============================================================================
