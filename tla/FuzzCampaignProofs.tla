------------------------- MODULE FuzzCampaignProofs -------------------------
(***************************************************************************)
(* Theorems about a fuzzing campaign, for any number of iterations and of  *)
(* mutators and any recorded session, whatever order its frames were       *)
(* logged in.  IInv is the inductive invariant they rest on.               *)
(***************************************************************************)
EXTENDS FuzzCampaign, FiniteSetTheorems, SequenceTheorems, TLAPS

Frame == [id : Nat, mutated : BOOLEAN]
Working == {"connect", "write", "read", "closing", "closed"}
Outcome == [iteration : Nat, reset : BOOLEAN, timedout : BOOLEAN, interesting : BOOLEAN]

Camps == [pc : {"idle", "baseline", "loop", "send", "done"}, status : Statuses, iteration : Replays,
          source : Seq(Nat), baseline : Nat, stop_on_crash : BOOLEAN, results : Seq(Outcome)]
Calls == [pc : {"none", "begin", "done"} \cup Working, n : Replays, mutated : SUBSET Nat,
          todo : Seq(Frame), got : Nat, success : BOOLEAN, error : {"none", "connection", "other"},
          timedout : BOOLEAN]

TypesInv ==
    /\ frames \in Seq(Nat)
    /\ deleted \in BOOLEAN
    /\ state \in [Replays \cup {Shot} -> {"none", "CONNECTING", "ACTIVE", "CLOSED"}]
    /\ camp \in Camps
    /\ replay \in Calls
    /\ sent \in [Replays -> Seq(Frame)]
    /\ turns \in [1 .. Mutators -> Nat]
    /\ shot \in {"none", "publish", "send", "log", "done", "raised"}

\* The campaign and the replay it waits for go hand in hand.
StepInv ==
    /\ camp.pc \in {"idle", "baseline"} => camp.iteration = 0
    /\ camp.pc = "send" => camp.iteration > 0
    /\ camp.pc \in {"idle", "loop", "done"} <=> replay.pc = "none"
    /\ replay.pc # "none" => replay.n = camp.iteration
    /\ camp.pc \in {"baseline", "loop", "send"} => Mutators > 0 /\ camp.source # <<>>

\* Only the replay that works has a session that is not closed.
LiveInv ==
    \A r \in Replays : state[r] \in {"CONNECTING", "ACTIVE"} => replay.n = r /\ replay.pc \in Working

\* What is sent, and what will be: in order, one frame mutated at the most.
InOrder(numbers, s) ==
    \A i, j \in DOMAIN s : i < j => Before(numbers, s[i].id, s[j].id)
Precedes(numbers, s, t) ==
    \A i \in DOMAIN s, j \in DOMAIN t : Before(numbers, s[i].id, t[j].id) /\ ~(s[i].mutated /\ t[j].mutated)
Marked(s, n) ==
    \A i, j \in DOMAIN s : s[i].mutated /\ s[j].mutated => i = j /\ n # 0
Known(numbers, s) == \A i \in DOMAIN s : s[i].id \in DOMAIN numbers
Sound(numbers, s, n) == Known(numbers, s) /\ InOrder(numbers, s) /\ Marked(s, n)

SentInv ==
    /\ \A r \in Replays : Sound(frames, sent[r], r)
    /\ \A r \in Replays : r > camp.iteration => sent[r] = <<>>
    /\ camp.pc = "idle" => sent[0] = <<>>
    /\ replay.pc \in {"begin", "connect"} => sent[replay.n] = <<>>
    /\ \A i, j \in replay.mutated : i = j /\ replay.n # 0
    /\ replay.pc \in {"connect", "write"} =>
          Sound(frames, replay.todo, replay.n) /\ Precedes(frames, sent[replay.n], replay.todo)

\* The rounds that are over, and the turns of the round that is not.
TurnsAfter(k, q) == \A m \in 1 .. Mutators : turns[m] = q + (IF m <= k % Mutators THEN 1 ELSE 0)
TurnsInv == Mutators > 0 => \E q \in Nat : TurnsAfter(camp.iteration, q)

IInv == TypesInv /\ StepInv /\ LiveInv /\ SentInv /\ TurnsInv /\ CrashStops

---------------------------------------------------------------------------
(* Sequences.                                                              *)

(* A sequence and its head.                                                *)
LEMMA HeadFacts ==
  ASSUME NEW S, NEW s \in Seq(S), s # <<>>
  PROVE  /\ Len(s) \in Nat /\ Len(s) >= 1 /\ DOMAIN s = 1 .. Len(s)
         /\ Head(s) \in S /\ Head(s) = s[1] /\ Tail(s) \in Seq(S)
         /\ Len(Tail(s)) = Len(s) - 1 /\ DOMAIN Tail(s) = 1 .. Len(s) - 1
         /\ \A i \in DOMAIN Tail(s) : i + 1 \in DOMAIN s /\ Tail(s)[i] = s[i + 1]
  <1>1. Len(s) \in Nat /\ Len(s) # 0 /\ DOMAIN s = 1 .. Len(s) /\ Head(s) = s[1]
    BY EmptySeq, LenProperties
  <1>2. /\ Head(s) \in S /\ Tail(s) \in Seq(S) /\ Len(Tail(s)) = Len(s) - 1
        /\ \A i \in 1 .. Len(Tail(s)) : Tail(s)[i] = s[i + 1]
    BY HeadTailProperties
  <1>3. DOMAIN Tail(s) = 1 .. Len(s) - 1
    BY <1>2, LenProperties
  <1> QED
    BY <1>1, <1>2, <1>3

(* A sequence and what is appended to it.                                  *)
LEMMA AppendFacts ==
  ASSUME NEW S, NEW s \in Seq(S), NEW e \in S
  PROVE  /\ Len(s) \in Nat /\ DOMAIN s = 1 .. Len(s)
         /\ Append(s, e) \in Seq(S) /\ Append(s, e) # <<>>
         /\ Len(Append(s, e)) = Len(s) + 1 /\ DOMAIN Append(s, e) = 1 .. Len(s) + 1
         /\ \A i \in DOMAIN s : Append(s, e)[i] = s[i]
         /\ Append(s, e)[Len(s) + 1] = e
  <1>1. /\ Append(s, e) \in Seq(S) /\ Append(s, e) # <<>> /\ Len(Append(s, e)) = Len(s) + 1
        /\ \A i \in 1 .. Len(s) : Append(s, e)[i] = s[i]
        /\ Append(s, e)[Len(s) + 1] = e
    BY AppendProperties
  <1>2. Len(s) \in Nat /\ DOMAIN s = 1 .. Len(s) /\ DOMAIN Append(s, e) = 1 .. Len(s) + 1
    BY <1>1, LenProperties
  <1> QED
    BY <1>1, <1>2

---------------------------------------------------------------------------
(* Arithmetic.                                                             *)

(* The remainder after the next iteration.                                 *)
LEMMA NextRemainder ==
  ASSUME NEW k \in Nat, NEW M \in Nat \ {0}
  PROVE  /\ k % M \in 0 .. M - 1
         /\ (k + 1) % M = IF (k % M) + 1 = M THEN 0 ELSE (k % M) + 1
  <1> DEFINE q == k \div M
             r == k % M
             p == (k + 1) \div M
             s == (k + 1) % M
  <1>1. q \in Int /\ r \in 0 .. M - 1 /\ k = M * q + r
    OBVIOUS
  <1>2. p \in Int /\ s \in 0 .. M - 1 /\ k + 1 = M * p + s
    OBVIOUS
  <1> HIDE DEF q, r, p, s
  <1>3. CASE p = q
    <2>1. M * p = M * q
      BY <1>3
    <2>2. M * q \in Int
      BY <1>1
    <2>3. s = r + 1
      BY <2>1, <2>2, <1>1, <1>2
    <2> QED
      BY <2>3, <1>1, <1>2 DEF r, s
  <1>4. CASE p > q
    <2>1. M * p >= M * q + M
      <3>1. PICK d \in Nat : p = q + 1 + d
        <4>1. p - q - 1 \in Nat /\ p = q + 1 + (p - q - 1)
          BY <1>1, <1>2, <1>4
        <4> QED
          BY <4>1
      <3>2. M * (q + 1 + d) = M * q + M + M * d /\ M * d >= 0
        BY <1>1, <3>1
      <3>3. M * p = M * (q + 1 + d)
        BY <3>1
      <3>4. M * q \in Int /\ M * d \in Int
        BY <1>1, <3>1
      <3> QED
        BY <3>2, <3>3, <3>4
    <2> QED
      BY <2>1, <1>1, <1>2 DEF r, s
  <1>5. CASE p < q
    <2>1. M * q >= M * p + M
      <3>1. PICK d \in Nat : q = p + 1 + d
        <4>1. q - p - 1 \in Nat /\ q = p + 1 + (q - p - 1)
          BY <1>1, <1>2, <1>5
        <4> QED
          BY <4>1
      <3>2. M * (p + 1 + d) = M * p + M + M * d /\ M * d >= 0
        BY <1>2, <3>1
      <3>3. M * q = M * (p + 1 + d)
        BY <3>1
      <3>4. M * p \in Int /\ M * d \in Int
        BY <1>2, <3>1
      <3> QED
        BY <3>2, <3>3, <3>4
    <2> QED
      BY <2>1, <1>1, <1>2 DEF r, s
  <1> QED
    BY <1>1, <1>2, <1>3, <1>4, <1>5

---------------------------------------------------------------------------
(* The sort.                                                               *)

(* A log can be sorted: the frame that comes at a place is the one with as *)
(* many frames before it.                                                  *)
LEMMA OrderExists ==
  ASSUME NEW numbers \in Seq(Nat)
  PROVE  \E order \in [DOMAIN numbers -> DOMAIN numbers] :
            \A i, j \in DOMAIN numbers : i < j => Before(numbers, order[i], order[j])
  <1> DEFINE N == Len(numbers)
             S == 1 .. N
             Upto(j) == {i \in S : i = j \/ Before(numbers, i, j)}
             rank == [j \in S |-> Cardinality(Upto(j))]
             order == [i \in S |-> CHOOSE j \in S : rank[j] = i]
  <1>1. /\ N \in Nat /\ DOMAIN numbers = S /\ \A i \in S : numbers[i] \in Nat
        /\ IsFiniteSet(S) /\ Cardinality(S) = N /\ S \subseteq Nat
    <2>1. N \in Nat /\ DOMAIN numbers = S /\ \A i \in S : numbers[i] \in Nat
      OBVIOUS
    <2>2. IsFiniteSet(S) /\ Cardinality(S) = IF 1 > N THEN 0 ELSE N - 1 + 1
      BY <2>1, FS_Interval
    <2> QED
      BY <2>1, <2>2
  <1>2. \A i, j \in S : i = j \/ Before(numbers, i, j) \/ Before(numbers, j, i)
    BY <1>1 DEF Before
  <1>3. \A i, j \in S : Before(numbers, i, j) => i # j /\ ~Before(numbers, j, i)
    BY <1>1 DEF Before
  <1>4. \A i, j, k \in S : Before(numbers, i, j) /\ Before(numbers, j, k) => Before(numbers, i, k)
    BY <1>1 DEF Before
  <1>5. \A j \in S : IsFiniteSet(Upto(j)) /\ Cardinality(Upto(j)) \in S
    <2> SUFFICES ASSUME NEW j \in S PROVE IsFiniteSet(Upto(j)) /\ Cardinality(Upto(j)) \in S
      OBVIOUS
    <2>1. Upto(j) \subseteq S /\ j \in Upto(j)
      OBVIOUS
    <2>2. IsFiniteSet(Upto(j)) /\ Cardinality(Upto(j)) <= N /\ Cardinality(Upto(j)) \in Nat
      BY <2>1, <1>1, FS_Subset, FS_CardinalityType
    <2>3. Cardinality(Upto(j)) # 0
      BY <2>1, <2>2, FS_EmptySet
    <2> QED
      BY <2>2, <2>3, <1>1
  <1>6. \A i, j \in S : Before(numbers, i, j) => rank[i] < rank[j]
    <2> SUFFICES ASSUME NEW i \in S, NEW j \in S, Before(numbers, i, j) PROVE rank[i] < rank[j]
      OBVIOUS
    <2>1. Upto(i) \subseteq Upto(j) /\ j \in Upto(j) /\ j \notin Upto(i)
      BY <1>3, <1>4
    <2>2. Cardinality(Upto(i)) <= Cardinality(Upto(j))
          /\ (Cardinality(Upto(i)) = Cardinality(Upto(j)) => Upto(i) = Upto(j))
      BY <2>1, <1>5, FS_Subset
    <2>3. Cardinality(Upto(i)) \in Nat /\ Cardinality(Upto(j)) \in Nat
      BY <1>1, <1>5, FS_CardinalityType
    <2> QED
      BY <2>1, <2>2, <2>3
  <1> HIDE DEF Upto
  <1>7. rank \in [S -> S] /\ \A i \in S : rank[i] \in Nat
    BY <1>1, <1>5
  <1>8. rank \in Injection(S, S)
    <2>1. \A i, j \in S : rank[i] = rank[j] => i = j
      BY <1>2, <1>6, <1>7
    <2> QED
      BY <2>1, <1>7 DEF Injection, IsInjective
  <1>9. rank \in Surjection(S, S)
    BY <1>1, <1>8, FS_Injection
  <1>10. \A i \in S : \E j \in S : rank[j] = i
    BY <1>9 DEF Surjection
  <1>11. \A i \in S : order[i] \in S /\ rank[order[i]] = i
    BY <1>10
  <1> HIDE DEF rank, order
  <1>12. order \in [S -> S]
    BY <1>11 DEF order
  <1>13. \A i, j \in S : i < j => Before(numbers, order[i], order[j])
    <2> SUFFICES ASSUME NEW i \in S, NEW j \in S, i < j PROVE Before(numbers, order[i], order[j])
      OBVIOUS
    <2>1. CASE order[i] = order[j]
      BY <2>1, <1>11, <1>1
    <2>2. CASE Before(numbers, order[j], order[i])
      <3>1. rank[order[j]] < rank[order[i]]
        BY <2>2, <1>6, <1>11
      <3>2. j < i
        BY <3>1, <1>11
      <3> QED
        BY <3>2, <1>1
    <2> QED
      BY <2>1, <2>2, <1>2, <1>11
  <1> QED
    BY <1>1, <1>12, <1>13

(* sorted() gives every frame its place in the order of its numbers.       *)
LEMMA BySequenceSorts ==
  ASSUME NEW numbers \in Seq(Nat)
  PROVE  /\ BySequence(numbers) \in [DOMAIN numbers -> DOMAIN numbers]
         /\ \A i, j \in DOMAIN numbers :
               i < j => Before(numbers, BySequence(numbers)[i], BySequence(numbers)[j])
  BY OrderExists DEF BySequence

---------------------------------------------------------------------------
(* Types.                                                                  *)

(* What a replay is going to write is a sequence of frames.                *)
LEMMA PlanTyped ==
  ASSUME NEW numbers \in Seq(Nat), NEW order \in [DOMAIN numbers -> DOMAIN numbers], NEW chosen
  PROVE  /\ [i \in DOMAIN numbers |-> [id |-> order[i], mutated |-> order[i] \in chosen]] \in Seq(Frame)
         /\ order \in Seq(Nat)
  <1>1. DOMAIN numbers = 1 .. Len(numbers) /\ Len(numbers) \in Nat
    OBVIOUS
  <1>2. \A i \in 1 .. Len(numbers) : order[i] \in Nat
    BY <1>1
  <1>3. \A i \in 1 .. Len(numbers) : [id |-> order[i], mutated |-> order[i] \in chosen] \in Frame
    BY <1>2 DEF Frame
  <1>4. order \in Seq(Nat)
    <2>1. order \in [1 .. Len(numbers) -> Nat]
      BY <1>1, <1>2
    <2> QED
      BY <2>1, <1>1, SeqDef
  <1> DEFINE todo == [i \in DOMAIN numbers |-> [id |-> order[i], mutated |-> order[i] \in chosen]]
  <1>5. todo \in Seq(Frame)
    <2>1. todo \in [1 .. Len(numbers) -> Frame]
      BY <1>1, <1>3
    <2> QED
      BY <2>1, <1>1, SeqDef
  <1> QED
    BY <1>4, <1>5

(* A result of a replay.                                                   *)
LEMMA ResultTyped ==
  ASSUME replay \in Calls, camp \in Camps, NEW n \in Nat, NEW size \in Nat
  PROVE  Result(n, size) \in Outcome
  <1>1. replay.timedout \in BOOLEAN
    BY DEF Calls
  <1>2. \A reset, timedout \in BOOLEAN, a, b \in Nat : Interesting(reset, timedout, a, b) \in BOOLEAN
    BY DEF Interesting
  <1>3. (IF replay.success THEN size ELSE 0) \in Nat /\ (IF replay.success THEN camp.baseline ELSE 0) \in Nat
    BY DEF Camps
  <1>4. (~replay.timedout /\ replay.error = "connection") \in BOOLEAN
    OBVIOUS
  <1>5. Interesting(~replay.timedout /\ replay.error = "connection", replay.timedout,
                    IF replay.success THEN size ELSE 0, IF replay.success THEN camp.baseline ELSE 0) \in BOOLEAN
    BY <1>1, <1>2, <1>3, <1>4
  <1> QED
    BY <1>1, <1>4, <1>5 DEF Result, Outcome

(* Every step keeps the types.                                             *)
LEMMA TypesStep ==
  ASSUME TypesInv, StepInv, [Next]_vars
  PROVE  TypesInv'
  <1> USE CampaignAssumption DEF TypesInv
  <1>r. /\ Replays \subseteq Nat /\ 0 \in Replays /\ Shot \notin Replays
    BY DEF Replays, Shot
  <1>n. NoReplay \in Calls
    BY <1>r DEF NoReplay, Calls
  <1>b. ASSUME NEW n \in Replays, NEW chosen \in SUBSET Nat, Begin(n, chosen) PROVE replay' \in Calls
    BY <1>n, <1>b DEF Begin, Calls
  <1>1. ASSUME ForgeSession PROVE TypesInv'
    <2>1. CASE deleted
      <3>1. replay' \in Calls
        BY <1>1, <2>1 DEF ForgeSession, Fail, Calls
      <3> QED
        BY <1>1, <2>1, <3>1 DEF ForgeSession
    <2>2. CASE ~deleted
      <3> DEFINE todo == [i \in DOMAIN frames |->
                            [id |-> BySequence(frames)[i], mutated |-> BySequence(frames)[i] \in replay.mutated]]
      <3>1. todo \in Seq(Frame)
        BY BySequenceSorts, PlanTyped
      <3>2. replay' = [replay EXCEPT !.pc = "connect", !.todo = todo]
        BY <1>1, <2>2 DEF ForgeSession
      <3> HIDE DEF todo
      <3>3. replay' \in Calls
        BY <3>1, <3>2 DEF Calls, Working
      <3>4. state' = [state EXCEPT ![replay.n] = "CONNECTING"]
            /\ UNCHANGED <<frames, deleted, camp, sent, turns, shot>>
        BY <1>1, <2>2 DEF ForgeSession
      <3> QED
        BY <3>3, <3>4
    <2> QED
      BY <2>1, <2>2
  <1>2. ASSUME ConnectFails PROVE TypesInv'
    BY <1>2, ZenonT(30) DEF ConnectFails, Fail, Calls
  <1>3. ASSUME Connect PROVE TypesInv'
    <2>1. replay' \in Calls
      BY <1>3, ZenonT(30) DEF Connect, Calls, Working
    <2> QED
      BY <1>3, <2>1 DEF Connect
  <1>4. ASSUME Write PROVE TypesInv'
    <2>1. replay.todo \in Seq(Frame) /\ replay.n \in Replays
      BY DEF Calls
    <2>2. replay' \in Calls /\ sent' \in [Replays -> Seq(Frame)]
      <3>1. CASE replay.todo = <<>>
        <4>1. replay' = [replay EXCEPT !.pc = "read"] /\ sent' = sent
          BY <1>4, <3>1 DEF Write
        <4> QED
          BY <4>1 DEF Calls, Working
      <3>2. CASE replay.todo # <<>>
        <4>1. Head(replay.todo) \in Frame /\ Tail(replay.todo) \in Seq(Frame)
          BY <2>1, <3>2
        <4>2. sent' = [sent EXCEPT ![replay.n] = Append(@, Head(replay.todo))]
          BY <1>4, <3>2 DEF Write
        <4>3. Append(sent[replay.n], Head(replay.todo)) \in Seq(Frame)
          BY <2>1, <4>1
        <4>4. replay' \in Calls
          <5>1. replay' = [replay EXCEPT !.todo = Tail(@)]
                \/ \E why \in {"connection", "other"} : replay' = [replay EXCEPT !.pc = "closing", !.error = why]
            BY <1>4, <3>2 DEF Write
          <5> QED
            BY <5>1, <4>1, ZenonT(30) DEF Calls, Working
        <4> QED
          BY <4>2, <4>3, <4>4
      <3> QED
        BY <3>1, <3>2
    <2> QED
      BY <1>4, <2>2 DEF Write
  <1>5. ASSUME Returns PROVE TypesInv'
    BY <1>5 DEF Returns, Calls
  <1>6. ASSUME TimesOut PROVE TypesInv'
    <2>1. replay' \in Calls
      BY <1>6 DEF TimesOut, Calls, Working
    <2> QED
      BY <1>6, <2>1 DEF TimesOut
  <1>7. ASSUME RunCampaign PROVE TypesInv'
    <2>1. camp' \in Camps
      <3>1. BySequence(frames) \in Seq(Nat)
        BY BySequenceSorts, PlanTyped
      <3>2. camp' = [camp EXCEPT !.pc = "done", !.status = "done"]
            \/ camp' = [camp EXCEPT !.pc = "baseline", !.status = "running", !.source = BySequence(frames)]
        BY <1>7 DEF RunCampaign
      <3> QED
        BY <3>1, <3>2 DEF Camps, Statuses
    <2>2. replay' \in Calls
      <3>1. replay' = replay \/ Begin(0, {})
        BY <1>7 DEF RunCampaign
      <3>2. Begin(0, {}) => replay' \in Calls
        <4>1. {} \in SUBSET Nat
          OBVIOUS
        <4> QED
          BY <4>1, <1>b, <1>r
      <3> QED
        BY <3>1, <3>2
    <2> QED
      BY <1>7, <2>1, <2>2 DEF RunCampaign
  <1>8. ASSUME MeasureBaseline PROVE TypesInv'
    <2>1. replay.got \in Nat
      BY DEF Calls
    <2>2. camp' \in Camps
      BY <1>8, <2>1 DEF MeasureBaseline, Camps
    <2> QED
      BY <1>8, <1>n, <2>2 DEF MeasureBaseline
  <1>9. ASSUME Iterate PROVE TypesInv'
    <2>1. /\ camp.iteration \in Nat /\ camp.iteration + 1 \in Replays /\ camp.pc = "loop"
          /\ Mutators > 0 /\ camp.source # <<>> /\ camp.source \in Seq(Nat)
      BY <1>9 DEF Iterate, Camps, Replays, StepInv
    <2>2. Picked(camp.iteration + 1) \in 1 .. Mutators
      <3>1. (camp.iteration + 1) - 1 = camp.iteration /\ Mutators \in Nat \ {0}
        BY <2>1
      <3>2. camp.iteration % Mutators \in 0 .. Mutators - 1
        BY <2>1, <3>1, NextRemainder
      <3> QED
        BY <3>1, <3>2 DEF Picked
    <2>3. turns' \in [1 .. Mutators -> Nat]
      BY <1>9, <2>2 DEF Iterate
    <2>4. camp' \in Camps
      BY <1>9, <2>1 DEF Iterate, Camps
    <2>5. camp.source[(camp.iteration % Len(camp.source)) + 1] \in Nat
      <3>1. Len(camp.source) \in Nat \ {0}
        BY <2>1
      <3>2. camp.iteration % Len(camp.source) \in 0 .. Len(camp.source) - 1
        BY <3>1, <2>1, NextRemainder
      <3>3. (camp.iteration % Len(camp.source)) + 1 \in 1 .. Len(camp.source)
        BY <3>1, <3>2
      <3> QED
        BY <3>3, <2>1, ElementOfSeq
    <2>6. replay' \in Calls
      <3>1. (camp.iteration + 1) - 1 = camp.iteration
        BY <2>1
      <3>2. replay' = replay \/ Begin(camp.iteration + 1, {camp.source[(camp.iteration % Len(camp.source)) + 1]})
        BY <1>9, <3>1 DEF Iterate
      <3> QED
        <4> DEFINE chosen == {camp.source[(camp.iteration % Len(camp.source)) + 1]}
        <4>1. chosen \in SUBSET Nat
          BY <2>5
        <4>2. replay' = replay \/ Begin(camp.iteration + 1, chosen)
          BY <3>2
        <4> HIDE DEF chosen
        <4> QED
          BY <4>1, <4>2, <2>1, <1>b
    <2> QED
      BY <1>9, <2>3, <2>4, <2>6 DEF Iterate
  <1>10. ASSUME SendMutated PROVE TypesInv'
    <2>1. replay.got \in Nat /\ camp.iteration \in Nat /\ camp.results \in Seq(Outcome)
      BY <1>r DEF Calls, Camps
    <2>2. Append(camp.results, Result(camp.iteration, replay.got)) \in Seq(Outcome)
      BY <2>1, ResultTyped
    <2>3. camp' = [camp EXCEPT !.results = Append(@, Result(camp.iteration, replay.got)), !.pc = "loop",
                     !.status = IF camp.stop_on_crash /\ Result(camp.iteration, replay.got).reset
                                THEN "stopped" ELSE @]
          /\ replay' = NoReplay /\ UNCHANGED <<frames, deleted, state, sent, turns, shot>>
      BY <1>10 DEF SendMutated
    <2>4. camp' \in Camps
      BY <2>2, <2>3 DEF Camps, Statuses
    <2> QED
      BY <2>3, <2>4, <1>n
  <1>11. ASSUME Finish PROVE TypesInv'
    BY <1>11 DEF Finish, Camps, Statuses
  <1>12. ASSUME OneShotStep PROVE TypesInv'
    BY <1>12 DEF OneShotStep, OneShot, OneShotSends, OneShotReturns, OneShotLogged, OneShotRaises
  <1>13. ASSUME ReadChunk PROVE TypesInv'
    <2>1. replay.got + 1 \in Nat
      BY DEF Calls
    <2>2. replay' \in Calls
      BY <1>13, <2>1 DEF ReadChunk, Calls
    <2> QED
      BY <1>13, <2>2 DEF ReadChunk
  <1>14. ASSUME ReadEnds PROVE TypesInv'
    <2>1. replay' \in Calls
      BY <1>14, ZenonT(30) DEF ReadEnds, Calls, Working
    <2> QED
      BY <1>14, <2>1 DEF ReadEnds
  <1>15. ASSUME Stop PROVE TypesInv'
    BY <1>15 DEF Stop, Camps, Statuses
  <1>16. ASSUME Capture PROVE TypesInv'
    BY <1>16 DEF Capture
  <1>17. ASSUME Delete PROVE TypesInv'
    BY <1>17 DEF Delete
  <1>18. ASSUME UNCHANGED vars PROVE TypesInv'
    BY <1>18 DEF vars
  <1> QED
    BY <1>1, <1>2, <1>3, <1>4, <1>5, <1>6, <1>7, <1>8, <1>9, <1>10, <1>11, <1>12, <1>13, <1>14, <1>15,
       <1>16, <1>17, <1>18 DEF Next, ReplayStep, ReplayProceeds, AfterClosing, WithoutClosing, CampaignStep, Environment

---------------------------------------------------------------------------
(* The campaign and its replay.                                            *)

(* Every step keeps campaign and replay together.                          *)
LEMMA StepStep ==
  ASSUME TypesInv, StepInv, [Next]_vars
  PROVE  StepInv'
  <1> USE CampaignAssumption DEF StepInv
  <1>t. camp \in Camps /\ replay \in Calls /\ camp.iteration \in Nat /\ frames \in Seq(Nat)
    BY DEF TypesInv, Camps, Replays
  <1>1. ASSUME ForgeSession PROVE StepInv'
    BY <1>t, <1>1 DEF ForgeSession, Fail, Calls
  <1>2. ASSUME ConnectFails PROVE StepInv'
    BY <1>t, <1>2 DEF ConnectFails, Fail, Calls
  <1>3. ASSUME Connect PROVE StepInv'
    BY <1>t, <1>3 DEF Connect, Calls
  <1>4. ASSUME Write PROVE StepInv'
    BY <1>t, <1>4 DEF Write, Calls
  <1>5. ASSUME Returns PROVE StepInv'
    BY <1>t, <1>5 DEF Returns, Calls
  <1>6. ASSUME TimesOut PROVE StepInv'
    BY <1>t, <1>6 DEF TimesOut, Calls
  <1>7. ASSUME RunCampaign PROVE StepInv'
    <2>1. CASE Mutators = 0 \/ deleted \/ frames = <<>>
      BY <1>t, <1>7, <2>1 DEF RunCampaign, Camps
    <2>2. CASE ~(Mutators = 0 \/ deleted \/ frames = <<>>)
      <3>1. camp' = [camp EXCEPT !.pc = "baseline", !.status = "running", !.source = BySequence(frames)]
            /\ replay' = [NoReplay EXCEPT !.pc = "begin", !.n = 0, !.mutated = {}]
        BY <1>7, <2>2 DEF RunCampaign, Begin
      <3>2. BySequence(frames) # <<>>
        <4>1. DOMAIN BySequence(frames) = DOMAIN frames /\ DOMAIN frames = 1 .. Len(frames)
          BY <1>t, BySequenceSorts
        <4>2. Len(frames) \in Nat \ {0}
          BY <1>t, <2>2
        <4> QED
          BY <4>1, <4>2
      <3> QED
        BY <1>t, <1>7, <2>2, <3>1, <3>2 DEF RunCampaign, NoReplay, Camps
    <2> QED
      BY <2>1, <2>2
  <1>8. ASSUME MeasureBaseline PROVE StepInv'
    BY <1>t, <1>8 DEF MeasureBaseline, NoReplay, Camps
  <1>9. ASSUME Iterate PROVE StepInv'
    <2>1. CASE camp' = [camp EXCEPT !.iteration = camp.iteration + 1] /\ UNCHANGED replay
      BY <1>t, <1>9, <2>1 DEF Iterate, Camps
    <2>2. CASE /\ camp' = [camp EXCEPT !.iteration = camp.iteration + 1, !.pc = "send"]
               /\ \E chosen : Begin(camp.iteration + 1, chosen)
      BY <1>t, <1>9, <2>2 DEF Iterate, Begin, NoReplay, Camps
    <2> QED
      BY <1>9, <2>1, <2>2 DEF Iterate
  <1>10. ASSUME SendMutated PROVE StepInv'
    BY <1>t, <1>10 DEF SendMutated, NoReplay, Camps
  <1>11. ASSUME Finish PROVE StepInv'
    BY <1>t, <1>11 DEF Finish, Camps
  <1>12. ASSUME OneShotStep PROVE StepInv'
    BY <1>12 DEF OneShotStep, OneShot, OneShotSends, OneShotReturns, OneShotLogged, OneShotRaises
  <1>13. ASSUME ReadChunk PROVE StepInv'
    BY <1>t, <1>13 DEF ReadChunk, Calls
  <1>14. ASSUME ReadEnds PROVE StepInv'
    BY <1>t, <1>14 DEF ReadEnds, Calls
  <1>15. ASSUME Stop PROVE StepInv'
    BY <1>t, <1>15 DEF Stop, Camps
  <1>16. ASSUME Capture PROVE StepInv'
    BY <1>16 DEF Capture
  <1>17. ASSUME Delete PROVE StepInv'
    BY <1>17 DEF Delete
  <1>18. ASSUME UNCHANGED vars PROVE StepInv'
    BY <1>18 DEF vars
  <1> QED
    BY <1>1, <1>2, <1>3, <1>4, <1>5, <1>6, <1>7, <1>8, <1>9, <1>10, <1>11, <1>12, <1>13, <1>14, <1>15,
       <1>16, <1>17, <1>18 DEF Next, ReplayStep, ReplayProceeds, AfterClosing, WithoutClosing, CampaignStep, Environment

(* Every step leaves at most the session of the replay at work alive.      *)
LEMMA LiveStep ==
  ASSUME TypesInv, StepInv, LiveInv, [Next]_vars
  PROVE  LiveInv'
  <1> USE CampaignAssumption DEF LiveInv
  <1>t. /\ camp \in Camps /\ replay \in Calls /\ replay.n \in Replays
        /\ state \in [Replays \cup {Shot} -> {"none", "CONNECTING", "ACTIVE", "CLOSED"}]
        /\ Shot \notin Replays
    BY DEF TypesInv, Calls, Replays, Shot
  <1>0. ASSUME replay.pc = "none" \/ replay.pc = "done" PROVE \A r \in Replays : state[r] \notin {"CONNECTING", "ACTIVE"}
    BY <1>0 DEF Working
  <1>1. ASSUME ForgeSession PROVE LiveInv'
    <2>1. \A r \in Replays : state[r] \notin {"CONNECTING", "ACTIVE"}
      BY <1>1 DEF ForgeSession, Working
    <2> QED
      <3>1. CASE deleted
        BY <1>1, <2>1, <3>1 DEF ForgeSession
      <3>2. CASE ~deleted
        <4>1. state' = [state EXCEPT ![replay.n] = "CONNECTING"]
          BY <1>1, <3>2 DEF ForgeSession
        <4>2. replay'.n = replay.n /\ replay'.pc = "connect"
          BY <1>t, <1>1, <3>2 DEF ForgeSession, Calls
        <4> QED
          BY <1>t, <2>1, <4>1, <4>2 DEF Working
      <3> QED
        BY <3>1, <3>2
  <1>2. ASSUME ConnectFails PROVE LiveInv'
    BY <1>t, <1>2 DEF ConnectFails, Fail, Calls, Working
  <1>3. ASSUME Connect PROVE LiveInv'
    BY <1>t, <1>3 DEF Connect, Calls, Working
  <1>4. ASSUME Write PROVE LiveInv'
    BY <1>t, <1>4 DEF Write, Calls, Working
  <1>5. ASSUME Returns PROVE LiveInv'
    BY <1>t, <1>5 DEF Returns, Calls, Working
  <1>6. ASSUME TimesOut PROVE LiveInv'
    BY <1>t, <1>6 DEF TimesOut, Calls, Working
  <1>7. ASSUME RunCampaign PROVE LiveInv'
    BY <1>0, <1>7 DEF RunCampaign, StepInv
  <1>8. ASSUME MeasureBaseline PROVE LiveInv'
    BY <1>0, <1>8 DEF MeasureBaseline
  <1>9. ASSUME Iterate PROVE LiveInv'
    BY <1>0, <1>9 DEF Iterate, StepInv
  <1>10. ASSUME SendMutated PROVE LiveInv'
    BY <1>0, <1>10 DEF SendMutated
  <1>11. ASSUME Finish PROVE LiveInv'
    BY <1>11 DEF Finish
  <1>12. ASSUME OneShotStep PROVE LiveInv'
    BY <1>t, <1>12 DEF OneShotStep, OneShot, OneShotSends, OneShotReturns, OneShotLogged, OneShotRaises
  <1>13. ASSUME ReadChunk PROVE LiveInv'
    BY <1>t, <1>13 DEF ReadChunk, Calls
  <1>14. ASSUME ReadEnds PROVE LiveInv'
    BY <1>t, <1>14 DEF ReadEnds, Calls, Working
  <1>15. ASSUME Stop PROVE LiveInv'
    BY <1>15 DEF Stop
  <1>16. ASSUME Capture PROVE LiveInv'
    BY <1>16 DEF Capture
  <1>17. ASSUME Delete PROVE LiveInv'
    BY <1>17 DEF Delete
  <1>18. ASSUME UNCHANGED vars PROVE LiveInv'
    BY <1>18 DEF vars
  <1> QED
    BY <1>1, <1>2, <1>3, <1>4, <1>5, <1>6, <1>7, <1>8, <1>9, <1>10, <1>11, <1>12, <1>13, <1>14, <1>15,
       <1>16, <1>17, <1>18 DEF Next, ReplayStep, ReplayProceeds, AfterClosing, WithoutClosing, CampaignStep, Environment

(* Every step keeps a reset the last result, and the campaign stopped.     *)
LEMMA CrashStep ==
  ASSUME TypesInv, CrashStops, [Next]_vars
  PROVE  CrashStops'
  <1>t. camp \in Camps /\ replay \in Calls
    BY DEF TypesInv
  <1>0. ASSUME UNCHANGED camp PROVE CrashStops'
    BY <1>0 DEF CrashStops
  <1>1. ASSUME RunCampaign PROVE CrashStops'
    BY <1>t, <1>1 DEF RunCampaign, CrashStops, Camps
  <1>2. ASSUME MeasureBaseline PROVE CrashStops'
    BY <1>t, <1>2 DEF MeasureBaseline, CrashStops, Camps
  <1>3. ASSUME Iterate PROVE CrashStops'
    BY <1>t, <1>3 DEF Iterate, CrashStops, Camps
  <1>4. ASSUME SendMutated PROVE CrashStops'
    <2> SUFFICES ASSUME camp'.stop_on_crash, NEW i \in DOMAIN camp'.results, camp'.results[i].reset
                 PROVE  i = Len(camp'.results) /\ camp'.pc = "loop" /\ camp'.status = "stopped"
      BY DEF CrashStops
    <2> DEFINE result == Result(camp.iteration, replay.got)
    <2>1. /\ camp' = [camp EXCEPT !.results = Append(@, result), !.pc = "loop",
                        !.status = IF camp.stop_on_crash /\ result.reset THEN "stopped" ELSE @]
          /\ camp.pc = "send"
      BY <1>4 DEF SendMutated
    <2>2. result \in Outcome /\ camp.results \in Seq(Outcome)
      <3>1. camp.iteration \in Nat /\ replay.got \in Nat
        BY <1>t DEF Camps, Calls, Replays
      <3> QED
        BY <1>t, <3>1, ResultTyped DEF Camps
    <2> HIDE DEF result
    <2>3. /\ camp'.results = Append(camp.results, result) /\ camp'.pc = "loop"
          /\ camp'.stop_on_crash = camp.stop_on_crash
          /\ camp.stop_on_crash /\ result.reset => camp'.status = "stopped"
      BY <1>t, <2>1 DEF Camps
    <2>4. \A k \in DOMAIN camp.results : ~camp.results[k].reset
      BY <2>1, <2>3 DEF CrashStops
    <2>5. /\ DOMAIN camp.results = 1 .. Len(camp.results) /\ Len(camp.results) \in Nat
          /\ Len(Append(camp.results, result)) = Len(camp.results) + 1
          /\ DOMAIN Append(camp.results, result) = 1 .. Len(camp.results) + 1
          /\ \A k \in DOMAIN camp.results : Append(camp.results, result)[k] = camp.results[k]
          /\ Append(camp.results, result)[Len(camp.results) + 1] = result
      BY <2>2, AppendFacts
    <2>6. i \in 1 .. Len(camp.results) + 1 /\ i \notin DOMAIN camp.results
      BY <2>3, <2>4, <2>5
    <2>7. i = Len(camp.results) + 1
      BY <2>5, <2>6
    <2> QED
      BY <2>3, <2>5, <2>7
  <1>5. ASSUME Finish PROVE CrashStops'
    BY <1>t, <1>5 DEF Finish, CrashStops, Camps
  <1>6. ASSUME Stop PROVE CrashStops'
    BY <1>t, <1>6 DEF Stop, CrashStops, Camps
  <1>7. CASE ReplayStep
    BY <1>0, <1>7 DEF ReplayStep, ReplayProceeds, AfterClosing, WithoutClosing, ForgeSession, ConnectFails, Connect, Write, Returns, TimesOut
  <1>8. CASE OneShotStep
    BY <1>0, <1>8 DEF OneShotStep, OneShot, OneShotSends, OneShotReturns, OneShotLogged, OneShotRaises
  <1>9. CASE ReadChunk \/ ReadEnds \/ Capture \/ Delete
    BY <1>0, <1>9 DEF ReadChunk, ReadEnds, Capture, Delete
  <1>10. CASE UNCHANGED vars
    BY <1>0, <1>10 DEF vars
  <1> QED
    BY <1>1, <1>2, <1>3, <1>4, <1>5, <1>6, <1>7, <1>8, <1>9, <1>10 DEF Next, CampaignStep, Environment

---------------------------------------------------------------------------
(* What a replay sends.                                                    *)

(* Nothing is sound.                                                       *)
LEMMA NothingIsSound ==
  ASSUME NEW numbers, NEW n
  PROVE  Sound(numbers, <<>>, n)
  BY DEF Sound, Known, InOrder, Marked

(* The plan of a replay is sound: the sorted log, with its frame mutated.  *)
LEMMA PlanIsSound ==
  ASSUME NEW numbers \in Seq(Nat), NEW chosen, NEW n, \A i, j \in chosen : i = j /\ n # 0
  PROVE  Sound(numbers, [i \in DOMAIN numbers |->
                            [id |-> BySequence(numbers)[i], mutated |-> BySequence(numbers)[i] \in chosen]], n)
  <1> DEFINE order == BySequence(numbers)
             plan == [i \in DOMAIN numbers |-> [id |-> order[i], mutated |-> order[i] \in chosen]]
  <1>1. /\ DOMAIN plan = DOMAIN numbers
        /\ \A i \in DOMAIN numbers : plan[i].id = order[i] /\ (plan[i].mutated <=> order[i] \in chosen)
    OBVIOUS
  <1>2. order \in [DOMAIN numbers -> DOMAIN numbers]
        /\ \A i, j \in DOMAIN numbers : i < j => Before(numbers, order[i], order[j])
    BY BySequenceSorts
  <1>3. /\ DOMAIN numbers \subseteq Nat
        /\ \A i, j \in DOMAIN numbers : Before(numbers, i, j) => i # j
    BY DEF Before
  <1> HIDE DEF order, plan
  <1>4. Known(numbers, plan) /\ InOrder(numbers, plan)
    BY <1>1, <1>2 DEF Known, InOrder
  <1>5. ASSUME NEW i \in DOMAIN plan, NEW j \in DOMAIN plan, plan[i].mutated, plan[j].mutated
        PROVE  i = j /\ n # 0
    <2>1. order[i] = order[j] /\ n # 0
      BY <1>1, <1>5
    <2>2. i < j \/ j < i \/ i = j
      BY <1>1, <1>3
    <2>3. order[i] \in DOMAIN numbers /\ order[j] \in DOMAIN numbers
      BY <1>1, <1>2
    <2>4. ~(i < j) /\ ~(j < i)
      BY <1>1, <1>2, <1>3, <2>1, <2>3
    <2> QED
      BY <2>1, <2>2, <2>4
  <1> QED
    BY <1>4, <1>5 DEF Sound, Marked, plan, order

(* A frame captured later changes nothing about those there are.           *)
LEMMA SoundStays ==
  ASSUME NEW numbers \in Seq(Nat), NEW v \in Nat
  PROVE  /\ \A s, n : Sound(numbers, s, n) => Sound(Append(numbers, v), s, n)
         /\ \A s, t : Known(numbers, s) /\ Known(numbers, t) /\ Precedes(numbers, s, t)
                         => Precedes(Append(numbers, v), s, t)
  <1> DEFINE more == Append(numbers, v)
  <1>1. /\ DOMAIN numbers \subseteq DOMAIN more
        /\ \A i \in DOMAIN numbers : more[i] = numbers[i]
    <2>1. DOMAIN numbers = 1 .. Len(numbers) /\ Len(numbers) \in Nat /\ DOMAIN more = 1 .. Len(numbers) + 1
          /\ \A i \in DOMAIN numbers : more[i] = numbers[i]
      BY AppendFacts
    <2> QED
      BY <2>1
  <1> HIDE DEF more
  <1>2. \A i, j \in DOMAIN numbers : Before(numbers, i, j) => Before(more, i, j)
    BY <1>1 DEF Before
  <1>3. \A s, n : Sound(numbers, s, n) => Sound(more, s, n)
    BY <1>1, <1>2 DEF Sound, Known, InOrder
  <1>4. \A s, t : Known(numbers, s) /\ Known(numbers, t) /\ Precedes(numbers, s, t) => Precedes(more, s, t)
    BY <1>1, <1>2 DEF Known, Precedes
  <1> QED
    BY <1>3, <1>4 DEF more

(* The next frame of the plan is sent.                                     *)
LEMMA NextIsSent ==
  ASSUME NEW numbers, NEW n, NEW s \in Seq(Frame), NEW t \in Seq(Frame), t # <<>>,
         Sound(numbers, s, n), Sound(numbers, t, n), Precedes(numbers, s, t)
  PROVE  /\ Sound(numbers, Append(s, Head(t)), n) /\ Sound(numbers, Tail(t), n)
         /\ Precedes(numbers, Append(s, Head(t)), Tail(t))
  <1> DEFINE u == Append(s, Head(t))
             v == Tail(t)
  <1>1. /\ Len(t) \in Nat /\ Len(t) >= 1 /\ DOMAIN t = 1 .. Len(t) /\ Head(t) \in Frame /\ Head(t) = t[1]
        /\ DOMAIN v = 1 .. Len(t) - 1 /\ \A i \in DOMAIN v : i + 1 \in DOMAIN t /\ v[i] = t[i + 1]
    BY HeadFacts
  <1>2. /\ Len(s) \in Nat /\ DOMAIN s = 1 .. Len(s) /\ DOMAIN u = 1 .. Len(s) + 1
        /\ \A i \in DOMAIN s : u[i] = s[i]
        /\ u[Len(s) + 1] = Head(t)
    BY <1>1, AppendFacts
  <1> HIDE DEF u, v
  <1>3. 1 \in DOMAIN t /\ DOMAIN s \subseteq Nat /\ DOMAIN v \subseteq Nat /\ DOMAIN t \subseteq Nat /\ DOMAIN u \subseteq Nat
    BY <1>1, <1>2
  <1>4. \A i \in DOMAIN u : (i \in DOMAIN s /\ u[i] = s[i]) \/ (i = Len(s) + 1 /\ u[i] = t[1])
    BY <1>1, <1>2
  <1>5. \A i, j \in DOMAIN u : i < j => i \in DOMAIN s
    BY <1>1, <1>2
  <1>6. \A i \in DOMAIN s : i < Len(s) + 1
    BY <1>2
  <1>s. Known(numbers, s) /\ InOrder(numbers, s) /\ Marked(s, n)
    BY DEF Sound
  <1>z. Known(numbers, t) /\ InOrder(numbers, t) /\ Marked(t, n)
    BY DEF Sound
  <1>7. Sound(numbers, u, n)
    <2>1. Known(numbers, u)
      BY <1>3, <1>4, <1>s, <1>z DEF Known
    <2>2. InOrder(numbers, u)
      <3> SUFFICES ASSUME NEW i \in DOMAIN u, NEW j \in DOMAIN u, i < j
                   PROVE  Before(numbers, u[i].id, u[j].id)
        BY DEF InOrder
      <3>1. i \in DOMAIN s /\ u[i] = s[i]
        BY <1>5, <1>2
      <3>2. CASE j \in DOMAIN s /\ u[j] = s[j]
        BY <3>1, <3>2, <1>s DEF InOrder
      <3>3. CASE j = Len(s) + 1 /\ u[j] = t[1]
        BY <3>1, <3>3, <1>3 DEF Precedes
      <3> QED
        BY <3>2, <3>3, <1>4
    <2>3. Marked(u, n)
      <3> SUFFICES ASSUME NEW i \in DOMAIN u, NEW j \in DOMAIN u, u[i].mutated, u[j].mutated
                   PROVE  i = j /\ n # 0
        BY DEF Marked
      <3>1. CASE i \in DOMAIN s /\ u[i] = s[i] /\ j \in DOMAIN s /\ u[j] = s[j]
        BY <3>1, <1>s DEF Marked
      <3>2. CASE i \in DOMAIN s /\ u[i] = s[i] /\ j = Len(s) + 1 /\ u[j] = t[1]
        BY <3>2, <1>3 DEF Precedes
      <3>3. CASE j \in DOMAIN s /\ u[j] = s[j] /\ i = Len(s) + 1 /\ u[i] = t[1]
        BY <3>3, <1>3 DEF Precedes
      <3>4. CASE i = Len(s) + 1 /\ u[i] = t[1] /\ j = Len(s) + 1 /\ u[j] = t[1]
        BY <3>4, <1>3, <1>z DEF Marked
      <3> QED
        BY <1>4, <3>1, <3>2, <3>3, <3>4
    <2> QED
      BY <2>1, <2>2, <2>3 DEF Sound
  <1>8. Sound(numbers, v, n)
    <2>1. \A i, j \in DOMAIN v : (i < j => i + 1 < j + 1) /\ (i + 1 = j + 1 => i = j)
      BY <1>3
    <2>2. Known(numbers, v) /\ InOrder(numbers, v)
      BY <1>1, <2>1, <1>z DEF Known, InOrder
    <2>3. Marked(v, n)
      BY <1>1, <2>1, <1>z DEF Marked
    <2> QED
      BY <2>2, <2>3 DEF Sound
  <1>9. Precedes(numbers, u, v)
    <2> SUFFICES ASSUME NEW i \in DOMAIN u, NEW j \in DOMAIN v
                 PROVE  Before(numbers, u[i].id, v[j].id) /\ ~(u[i].mutated /\ v[j].mutated)
      BY DEF Precedes
    <2>1. j + 1 \in DOMAIN t /\ v[j] = t[j + 1] /\ 1 < j + 1
      BY <1>1
    <2>2. CASE i \in DOMAIN s /\ u[i] = s[i]
      BY <2>1, <2>2 DEF Precedes
    <2>3. CASE i = Len(s) + 1 /\ u[i] = t[1]
      <3>1. Before(numbers, t[1].id, t[j + 1].id)
        BY <2>1, <1>3, <1>z DEF InOrder
      <3>2. ~(t[1].mutated /\ t[j + 1].mutated)
        BY <2>1, <1>3, <1>z DEF Marked
      <3> QED
        BY <2>1, <2>3, <3>1, <3>2
    <2> QED
      BY <1>4, <2>2, <2>3
  <1> QED
    BY <1>7, <1>8, <1>9 DEF u, v

(* Every step keeps what was sent, and what will be, sound.                *)
LEMMA SentStep ==
  ASSUME TypesInv, StepInv, SentInv, [Next]_vars
  PROVE  SentInv'
  <1> USE CampaignAssumption
  <1>t. /\ camp \in Camps /\ replay \in Calls /\ replay.n \in Replays /\ frames \in Seq(Nat)
        /\ sent \in [Replays -> Seq(Frame)] /\ Replays \subseteq Nat /\ camp.iteration \in Nat
    BY DEF TypesInv, Calls, Camps, Replays
  <1>0. ASSUME UNCHANGED <<frames, sent>>, camp'.iteration = camp.iteration,
               camp'.pc = "idle" => camp.pc = "idle",
               replay'.n = replay.n, replay'.mutated = replay.mutated,
               replay'.pc \in {"begin", "connect"} => replay'.pc = replay.pc,
               replay'.pc \in {"connect", "write"} => replay.pc \in {"connect", "write"} /\ replay'.todo = replay.todo
        PROVE  SentInv'
    BY <1>0 DEF SentInv
  <1>e. ASSUME UNCHANGED <<frames, sent>>, camp'.iteration = camp.iteration, camp'.pc # "idle", replay' = NoReplay
        PROVE  SentInv'
    BY <1>e DEF SentInv, NoReplay
  <1>b. ASSUME NEW n \in Replays, NEW chosen, UNCHANGED <<frames, sent>>, camp'.iteration = n,
               n >= camp.iteration, camp'.pc # "idle",
               sent[n] = <<>>, Begin(n, chosen), \A i, j \in chosen : i = j /\ n # 0
        PROVE  SentInv'
    <2>1. replay'.pc = "begin" /\ replay'.n = n /\ replay'.mutated = chosen
      BY <1>b DEF Begin, NoReplay
    <2>2. \A r \in Replays : r > n => r > camp.iteration
      BY <1>b, <1>t
    <2> QED
      BY <1>b, <2>1, <2>2 DEF SentInv
  <1>1. ASSUME ForgeSession PROVE SentInv'
    <2>1. CASE deleted
      <3>1. replay' = [replay EXCEPT !.pc = "done", !.error = "other"] /\ UNCHANGED <<frames, camp, sent>>
        BY <1>1, <2>1 DEF ForgeSession, Fail
      <3>2. replay'.n = replay.n /\ replay'.mutated = replay.mutated /\ replay'.pc = "done"
        BY <3>1, <1>t DEF Calls
      <3> QED
        BY <1>0, <3>1, <3>2
    <2>2. CASE ~deleted
      <3> DEFINE plan == [i \in DOMAIN frames |->
                            [id |-> BySequence(frames)[i], mutated |-> BySequence(frames)[i] \in replay.mutated]]
      <3>1. /\ replay' = [replay EXCEPT !.pc = "connect", !.todo = plan]
            /\ replay.pc = "begin" /\ UNCHANGED <<frames, camp, sent>>
        BY <1>1, <2>2 DEF ForgeSession
      <3>2. Sound(frames, plan, replay.n)
        BY <1>t, PlanIsSound DEF SentInv
      <3> HIDE DEF plan
      <3>3. replay'.n = replay.n /\ replay'.mutated = replay.mutated /\ replay'.pc = "connect" /\ replay'.todo = plan
        BY <3>1, <1>t DEF Calls
      <3>4. sent[replay.n] = <<>>
        BY <3>1 DEF SentInv
      <3>5. Precedes(frames, sent[replay.n], plan)
        BY <3>4 DEF Precedes
      <3> QED
        BY <3>1, <3>2, <3>3, <3>4, <3>5 DEF SentInv
    <2> QED
      BY <2>1, <2>2
  <1>2. ASSUME ConnectFails PROVE SentInv'
    <2>1. replay'.n = replay.n /\ replay'.mutated = replay.mutated /\ replay'.pc = "done"
      BY <1>2, <1>t DEF ConnectFails, Fail, Calls
    <2> QED
      BY <1>0, <1>2, <2>1 DEF ConnectFails
  <1>3. ASSUME Connect PROVE SentInv'
    <2>1. /\ replay'.n = replay.n /\ replay'.mutated = replay.mutated /\ replay'.pc \in {"write", "closed"}
          /\ replay'.todo = replay.todo /\ replay.pc = "connect"
      BY <1>3, <1>t DEF Connect, Calls
    <2> QED
      BY <1>0, <1>3, <2>1 DEF Connect
  <1>4. ASSUME Write PROVE SentInv'
    <2>1. CASE replay.todo = <<>>
      <3>1. replay' = [replay EXCEPT !.pc = "read"] /\ UNCHANGED <<frames, camp, sent>>
        BY <1>4, <2>1 DEF Write
      <3>2. replay'.n = replay.n /\ replay'.mutated = replay.mutated /\ replay'.pc = "read"
        BY <3>1, <1>t DEF Calls
      <3> QED
        BY <1>0, <3>1, <3>2
    <2>2. CASE replay.todo # <<>>
      <3> DEFINE n == replay.n
                 s == Append(sent[n], Head(replay.todo))
      <3>1. /\ sent' = [sent EXCEPT ![n] = s] /\ UNCHANGED <<frames, camp>> /\ replay.pc = "write"
            /\ \/ replay' = [replay EXCEPT !.todo = Tail(@)]
               \/ \E why \in {"connection", "other"} : replay' = [replay EXCEPT !.pc = "closing", !.error = why]
        BY <1>4, <2>2 DEF Write
      <3>2. replay.todo \in Seq(Frame) /\ sent[n] \in Seq(Frame)
        BY <1>t DEF Calls
      <3>3. /\ Sound(frames, s, n) /\ Sound(frames, Tail(replay.todo), n)
            /\ Precedes(frames, s, Tail(replay.todo))
        BY <2>2, <3>1, <3>2, <1>t, NextIsSent DEF SentInv
      <3>4. n = camp.iteration
        BY <3>1 DEF StepInv
      <3>5. camp.pc # "idle"
        BY <3>1 DEF StepInv
      <3>6. /\ replay'.n = n /\ replay'.mutated = replay.mutated /\ replay'.pc \notin {"begin", "connect"}
            /\ replay'.pc = "write" => replay'.todo = Tail(replay.todo)
        BY <3>1, <1>t DEF Calls
      <3>7. sent'[n] = s /\ \A r \in Replays : r # n => sent'[r] = sent[r]
        BY <3>1, <1>t
      <3> HIDE DEF s
      <3>8. \A r \in Replays : Sound(frames', sent'[r], r)
        BY <3>1, <3>3, <3>7 DEF SentInv
      <3>9. \A r \in Replays : r > camp'.iteration => sent'[r] = <<>>
        BY <3>1, <3>4, <3>7, <1>t DEF SentInv
      <3>10. \A i, j \in replay'.mutated : i = j /\ replay'.n # 0
        BY <3>6 DEF SentInv
      <3>11. replay'.pc \in {"connect", "write"} =>
                Sound(frames', replay'.todo, replay'.n) /\ Precedes(frames', sent'[replay'.n], replay'.todo)
        BY <3>1, <3>3, <3>6, <3>7
      <3> QED
        BY <3>1, <3>5, <3>6, <3>8, <3>9, <3>10, <3>11 DEF SentInv
    <2> QED
      BY <2>1, <2>2
  <1>5. ASSUME Returns PROVE SentInv'
    <2>1. replay'.n = replay.n /\ replay'.mutated = replay.mutated /\ replay'.pc = "done"
      BY <1>5, <1>t DEF Returns, Calls
    <2> QED
      BY <1>0, <1>5, <2>1 DEF Returns
  <1>6. ASSUME TimesOut PROVE SentInv'
    <2>1. /\ replay'.n = replay.n /\ replay'.mutated = replay.mutated
          /\ replay'.pc \in {"done", "closed", "closing"}
      BY <1>6, <1>t DEF TimesOut, Calls
    <2> QED
      BY <1>0, <1>6, <2>1 DEF TimesOut
  <1>7. ASSUME RunCampaign PROVE SentInv'
    <2>1. CASE Mutators = 0 \/ deleted \/ frames = <<>>
      <3>1. camp'.pc = "done" /\ camp'.iteration = camp.iteration /\ UNCHANGED <<frames, sent, replay>>
        BY <1>7, <1>t, <2>1 DEF RunCampaign, Camps
      <3>2. replay.pc = "none"
        BY <1>7 DEF RunCampaign, StepInv
      <3> QED
        BY <1>0, <3>1, <3>2
    <2>2. CASE ~(Mutators = 0 \/ deleted \/ frames = <<>>)
      <3>1. /\ camp'.pc = "baseline" /\ camp'.iteration = camp.iteration /\ UNCHANGED <<frames, sent>>
            /\ Begin(0, {})
        BY <1>7, <1>t, <2>2 DEF RunCampaign, Camps
      <3>2. camp.iteration = 0 /\ sent[0] = <<>> /\ 0 \in Replays
        BY <1>7 DEF RunCampaign, StepInv, SentInv, Replays
      <3> QED
        BY <1>b, <3>1, <3>2
    <2> QED
      BY <2>1, <2>2
  <1>8. ASSUME MeasureBaseline PROVE SentInv'
    <2>1. camp'.iteration = camp.iteration /\ camp'.pc = "loop"
      BY <1>8, <1>t DEF MeasureBaseline, Camps
    <2> QED
      BY <1>e, <1>8, <2>1 DEF MeasureBaseline
  <1>9. ASSUME Iterate PROVE SentInv'
    <2> DEFINE next == camp.iteration + 1
    <2>1. next \in Replays /\ next > camp.iteration /\ next # 0 /\ camp.pc = "loop" /\ UNCHANGED <<frames, sent>>
      BY <1>9, <1>t DEF Iterate, Replays
    <2>2. sent[next] = <<>> /\ replay.pc = "none"
      BY <2>1 DEF SentInv, StepInv
    <2>3. CASE camp' = [camp EXCEPT !.iteration = next] /\ UNCHANGED replay
      <3>1. camp'.iteration = next /\ camp'.pc = "loop"
        BY <1>t, <2>1, <2>3 DEF Camps
      <3>2. \A r \in Replays : r > next => r > camp.iteration
        BY <1>t
      <3> QED
        BY <2>1, <2>2, <2>3, <3>1, <3>2 DEF SentInv
    <2>4. CASE /\ camp' = [camp EXCEPT !.iteration = next, !.pc = "send"]
               /\ \E f : Begin(next, {f})
      <3>1. camp'.iteration = next /\ camp'.pc = "send"
        BY <1>t, <2>1, <2>4 DEF Camps
      <3>2. PICK f : Begin(next, {f})
        BY <2>4
      <3>3. \A i, j \in {f} : i = j /\ next # 0
        BY <2>1
      <3>4. next >= camp.iteration
        BY <1>t
      <3> HIDE DEF next
      <3> QED
        BY <1>b, <2>1, <2>2, <3>1, <3>2, <3>3, <3>4
    <2> QED
      BY <1>9, <2>3, <2>4 DEF Iterate
  <1>10. ASSUME SendMutated PROVE SentInv'
    <2>1. camp'.iteration = camp.iteration /\ camp'.pc = "loop"
      BY <1>10, <1>t DEF SendMutated, Camps
    <2> QED
      BY <1>e, <1>10, <2>1 DEF SendMutated
  <1>11. ASSUME Finish PROVE SentInv'
    <2>1. camp'.iteration = camp.iteration /\ camp'.pc = "done"
      BY <1>11, <1>t DEF Finish, Camps
    <2> QED
      BY <1>0, <1>11, <2>1 DEF Finish
  <1>12. ASSUME OneShotStep PROVE SentInv'
    BY <1>0, <1>12 DEF OneShotStep, OneShot, OneShotSends, OneShotReturns, OneShotLogged, OneShotRaises
  <1>13. ASSUME ReadChunk PROVE SentInv'
    <2>1. replay'.n = replay.n /\ replay'.mutated = replay.mutated /\ replay'.pc = "read"
      BY <1>13, <1>t DEF ReadChunk, Calls
    <2> QED
      BY <1>0, <1>13, <2>1 DEF ReadChunk
  <1>14. ASSUME ReadEnds PROVE SentInv'
    <2>1. replay'.n = replay.n /\ replay'.mutated = replay.mutated /\ replay'.pc = "closing"
      BY <1>14, <1>t DEF ReadEnds, Calls
    <2> QED
      BY <1>0, <1>14, <2>1 DEF ReadEnds
  <1>15. ASSUME Stop PROVE SentInv'
    <2>1. camp'.iteration = camp.iteration /\ camp'.pc = camp.pc
      BY <1>15, <1>t DEF Stop, Camps
    <2> QED
      BY <1>0, <1>15, <2>1 DEF Stop
  <1>16. ASSUME Capture PROVE SentInv'
    <2>1. frames' = Append(frames, Len(frames)) /\ UNCHANGED <<camp, replay, sent>> /\ Len(frames) \in Nat
      BY <1>16, <1>t DEF Capture
    <2>2. \A s, n : Sound(frames, s, n) => Sound(frames', s, n)
      BY <1>t, <2>1, SoundStays
    <2>3. \A s, t : Known(frames, s) /\ Known(frames, t) /\ Precedes(frames, s, t) => Precedes(frames', s, t)
      BY <1>t, <2>1, SoundStays
    <2>4. replay.pc \in {"connect", "write"} =>
             Known(frames, sent[replay.n]) /\ Known(frames, replay.todo)
      BY <1>t DEF SentInv, Sound
    <2> QED
      BY <2>1, <2>2, <2>3, <2>4 DEF SentInv
  <1>17. ASSUME Delete PROVE SentInv'
    BY <1>0, <1>17 DEF Delete
  <1>18. ASSUME UNCHANGED vars PROVE SentInv'
    BY <1>0, <1>18 DEF vars
  <1> QED
    BY <1>1, <1>2, <1>3, <1>4, <1>5, <1>6, <1>7, <1>8, <1>9, <1>10, <1>11, <1>12, <1>13, <1>14, <1>15,
       <1>16, <1>17, <1>18 DEF Next, ReplayStep, ReplayProceeds, AfterClosing, WithoutClosing, CampaignStep, Environment

---------------------------------------------------------------------------
(* The turns of the mutators.                                              *)

(* Every step keeps the rounds: the turn goes to the next mutator.         *)
LEMMA TurnsStep ==
  ASSUME TypesInv, StepInv, TurnsInv, [Next]_vars
  PROVE  TurnsInv'
  <1> USE CampaignAssumption
  <1>t. camp \in Camps /\ camp.iteration \in Nat /\ turns \in [1 .. Mutators -> Nat]
    BY DEF TypesInv, Camps, Replays
  <1>0. ASSUME turns' = turns, camp'.iteration = camp.iteration PROVE TurnsInv'
    BY <1>0 DEF TurnsInv, TurnsAfter
  <1>1. ASSUME RunCampaign \/ MeasureBaseline \/ SendMutated \/ Finish \/ Stop PROVE TurnsInv'
    <2>1. turns' = turns /\ camp'.iteration = camp.iteration
      BY <1>1, <1>t DEF RunCampaign, MeasureBaseline, SendMutated, Finish, Stop, Camps
    <2> QED
      BY <1>0, <2>1
  <1>2. ASSUME Iterate PROVE TurnsInv'
    <2> DEFINE k == camp.iteration
               rem == k % Mutators
    <2>1. /\ camp'.iteration = k + 1 /\ turns' = [turns EXCEPT ![Picked(k + 1)] = @ + 1]
          /\ Mutators \in Nat \ {0}
      <3>1. camp.pc = "loop" /\ turns' = [turns EXCEPT ![Picked(k + 1)] = @ + 1]
        BY <1>2 DEF Iterate
      <3>2. camp'.iteration = k + 1
        BY <1>2, <1>t DEF Iterate, Camps
      <3> QED
        BY <3>1, <3>2 DEF StepInv
    <2>2. Picked(k + 1) = rem + 1
      <3>1. (k + 1) - 1 = k
        BY <1>t
      <3> QED
        BY <3>1 DEF Picked
    <2>3. /\ rem \in 0 .. Mutators - 1
          /\ (k + 1) % Mutators = IF rem + 1 = Mutators THEN 0 ELSE rem + 1
      BY <1>t, <2>1, NextRemainder
    <2>4. PICK q \in Nat : TurnsAfter(k, q)
      BY <2>1 DEF TurnsInv
    <2>5. \A m \in 1 .. Mutators : turns[m] = q + (IF m <= rem THEN 1 ELSE 0)
      BY <2>4 DEF TurnsAfter
    <2> HIDE DEF rem
    <2>6. \A m \in 1 .. Mutators : turns'[m] = q + (IF m <= rem + 1 THEN 1 ELSE 0)
      <3> SUFFICES ASSUME NEW m \in 1 .. Mutators PROVE turns'[m] = q + (IF m <= rem + 1 THEN 1 ELSE 0)
        OBVIOUS
      <3>1. turns'[m] = IF m = rem + 1 THEN turns[m] + 1 ELSE turns[m]
        BY <1>t, <2>1, <2>2
      <3> QED
        BY <2>3, <2>5, <3>1
    <2>7. CASE rem + 1 = Mutators
      <3>1. (k + 1) % Mutators = 0
        BY <2>3, <2>7
      <3>2. \A m \in 1 .. Mutators : turns'[m] = (q + 1) + (IF m <= 0 THEN 1 ELSE 0)
        BY <2>1, <2>6, <2>7
      <3> QED
        <4>1. camp'.iteration % Mutators = 0
          BY <2>1, <3>1
        <4>2. PICK p \in Nat : p = q + 1
          OBVIOUS
        <4>3. \A m \in 1 .. Mutators : turns'[m] = p + (IF m <= camp'.iteration % Mutators THEN 1 ELSE 0)
          BY <3>2, <4>1, <4>2
        <4> QED
          BY <4>3 DEF TurnsInv, TurnsAfter
    <2>8. CASE rem + 1 # Mutators
      <3>1. (k + 1) % Mutators = rem + 1
        BY <2>3, <2>8
      <3> QED
        BY <2>1, <2>6, <3>1 DEF TurnsInv, TurnsAfter
    <2> QED
      BY <2>7, <2>8
  <1>3. CASE ReplayStep
    BY <1>0, <1>3 DEF ReplayStep, ReplayProceeds, AfterClosing, WithoutClosing, ForgeSession, ConnectFails, Connect, Write, Returns, TimesOut
  <1>4. CASE OneShotStep
    BY <1>0, <1>4 DEF OneShotStep, OneShot, OneShotSends, OneShotReturns, OneShotLogged, OneShotRaises
  <1>5. CASE ReadChunk \/ ReadEnds \/ Capture \/ Delete
    BY <1>0, <1>5 DEF ReadChunk, ReadEnds, Capture, Delete
  <1>6. CASE UNCHANGED vars
    BY <1>0, <1>6 DEF vars
  <1> QED
    BY <1>1, <1>2, <1>3, <1>4, <1>5, <1>6 DEF Next, CampaignStep, Environment

---------------------------------------------------------------------------
(* The theorems.                                                           *)

(* IInv holds in every state.                                              *)
LEMMA IInvHolds == Spec => []IInv
  <1> USE CampaignAssumption
  <1>1. Init => IInv
    <2> SUFFICES ASSUME Init PROVE IInv
      OBVIOUS
    <2>r. 0 \in Replays /\ Replays \subseteq Nat
      BY DEF Replays
    <2>1. PICK crash \in BOOLEAN :
             camp = [pc |-> "idle", status |-> "idle", iteration |-> 0, source |-> <<>>,
                     baseline |-> 0, stop_on_crash |-> crash, results |-> <<>>]
      BY DEF Init
    <2>2. camp \in Camps /\ camp.pc = "idle" /\ camp.iteration = 0 /\ camp.results = <<>>
      BY <2>1, <2>r DEF Camps, Statuses
    <2>3. replay \in Calls /\ replay.pc = "none" /\ replay.mutated = {}
      BY <2>r DEF Init, NoReplay, Calls
    <2>4. TypesInv
      <3>1. frames \in Seq(Nat) /\ deleted \in BOOLEAN
        BY DEF Init
      <3>2. sent \in [Replays -> Seq(Frame)]
        BY DEF Init
      <3>3. turns \in [1 .. Mutators -> Nat] /\ shot = "none"
        BY DEF Init
      <3>4. state \in [Replays \cup {Shot} -> {"none", "CONNECTING", "ACTIVE", "CLOSED"}]
        BY DEF Init
      <3> QED
        BY <2>2, <2>3, <3>1, <3>2, <3>3, <3>4 DEF TypesInv
    <2>5. StepInv
      BY <2>2, <2>3 DEF StepInv
    <2>6. LiveInv
      BY DEF Init, LiveInv
    <2>7. SentInv
      <3>1. \A r \in Replays : sent[r] = <<>>
        BY DEF Init
      <3> QED
        BY <2>2, <2>3, <2>r, <3>1, NothingIsSound DEF SentInv
    <2>8. TurnsInv
      <3> SUFFICES ASSUME Mutators > 0 PROVE TurnsAfter(0, 0)
        BY <2>2 DEF TurnsInv
      <3>1. 0 % Mutators = 0
        OBVIOUS
      <3> QED
        BY <3>1 DEF TurnsAfter, Init
    <2>9. CrashStops
      BY <2>2 DEF CrashStops
    <2> QED
      BY <2>4, <2>5, <2>6, <2>7, <2>8, <2>9 DEF IInv
  <1>2. IInv /\ [Next]_vars => IInv'
    BY TypesStep, StepStep, LiveStep, SentStep, TurnsStep, CrashStep DEF IInv
  <1> QED
    BY <1>1, <1>2, PTL DEF Spec

(* Whatever a server does, whenever a replay is cut off and whatever is    *)
(* captured meanwhile: a replay sends the recorded frames in the order of  *)
(* their numbers, one of them mutated at the most, the baseline none; and  *)
(* when it is over its session is closed.                                  *)
THEOREM ReplaysAreAlwaysSound == Spec => []ReplaysAreSound
  <1>1. IInv => ReplaysAreSound
    <2> SUFFICES ASSUME IInv PROVE ReplaysAreSound
      OBVIOUS
    <2>1. ReplaysClosed
      BY DEF IInv, LiveInv, Working, ReplaysClosed
    <2>2. ASSUME NEW r \in Replays
          PROVE  Cardinality({i \in DOMAIN sent[r] : sent[r][i].mutated}) <= (IF r = 0 THEN 0 ELSE 1)
      <3> DEFINE marks == {i \in DOMAIN sent[r] : sent[r][i].mutated}
      <3>1. \A i, j \in marks : i = j /\ r # 0
        BY DEF IInv, SentInv, Sound, Marked
      <3> HIDE DEF marks
      <3>2. CASE marks = {}
        <4>1. Cardinality(marks) = 0
          BY <3>2, FS_EmptySet
        <4> QED
          BY <4>1 DEF marks
      <3>3. CASE marks # {}
        <4>1. PICK i : marks = {i}
          BY <3>1, <3>3
        <4>2. Cardinality(marks) = 1 /\ r # 0
          BY <3>1, <4>1, FS_Singleton
        <4> QED
          BY <4>2 DEF marks
      <3> QED
        BY <3>2, <3>3
    <2>3. ASSUME NEW r \in Replays, NEW i \in DOMAIN sent[r], NEW j \in DOMAIN sent[r], i < j
          PROVE  LET a == sent[r][i].id
                     b == sent[r][j].id
                 IN  frames[a] < frames[b] \/ (frames[a] = frames[b] /\ a < b)
      BY <2>3 DEF IInv, SentInv, Sound, InOrder, Before
    <2>4. OneMutation
      BY <2>2, <2>3 DEF OneMutation
    <2> QED
      BY <2>1, <2>4 DEF ReplaysAreSound
  <1> QED
    BY <1>1, IInvHolds, PTL

(* No mutator is ever two turns ahead of another, however many there are   *)
(* and whichever skip theirs; and the campaign that is to stop on a crash  *)
(* sends nothing after the first reset.                                    *)
THEOREM TurnsAreAlwaysKept == Spec => []TurnsAreKept
  <1>1. IInv => TurnsAreKept
    <2> SUFFICES ASSUME IInv PROVE TurnsAreKept
      OBVIOUS
    <2>1. ASSUME NEW m \in 1 .. Mutators, NEW k \in 1 .. Mutators PROVE turns[m] <= turns[k] + 1
      <3>1. Mutators > 0
        BY CampaignAssumption
      <3>2. PICK q \in Nat : TurnsAfter(camp.iteration, q)
        BY <3>1 DEF IInv, TurnsInv
      <3>3. turns[m] \in {q, q + 1} /\ turns[k] \in {q, q + 1}
        BY <3>2 DEF TurnsAfter
      <3> QED
        BY <3>3
    <2> QED
      BY <2>1 DEF IInv, TurnsAreKept, RoundRobin
  <1> QED
    BY <1>1, IInvHolds, PTL
=============================================================================
